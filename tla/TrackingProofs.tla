--------------------------- MODULE TrackingProofs ---------------------------
(***************************************************************************)
(* Logging and searching for any requests, runs, keys, spans and page size *)
(* and any number of goroutines: what was acknowledged stays logged, a     *)
(* batch that is sent again is never refused by its own writes, the table  *)
(* of latest metrics is what its history would give, and the pages of a    *)
(* search hold each row that stayed the same exactly once.                 *)
(***************************************************************************)
EXTENDS Tracking, FiniteSetTheorems, TLAPS

USE ZenonT(60)

-----------------------------------------------------------------------------
(* Finite sets, the loops over a batch, and the pages of Keyset.            *)

\* The image of a finite set under a function on it.
LEMMA Image ==
  ASSUME NEW S, IsFiniteSet(S), NEW T, NEW f \in [S -> T], \A y \in T : \E x \in S : y = f[x]
  PROVE  IsFiniteSet(T)
<1>1. f \in Surjection(S, T)
  BY DEF Surjection
<1> QED
  BY <1>1, FS_Surjection

\* A non-empty set of naturals has a least member.
LEMMA LeastNat ==
  ASSUME NEW S \in SUBSET Nat, S # {}
  PROVE  \E m \in S : \A i \in S : m <= i
<1> DEFINE R == OpToRel(<, Nat)
<1>1. IsWellFoundedOn(R, Nat)
  BY NatLessThanWellFounded
<1>2. PICK m \in S : \A y \in S : ~(<<y, m>> \in R)
  <2> HIDE DEF R
  <2> QED
    BY <1>1, WFMin
<1>3. ASSUME NEW i \in S PROVE m <= i
  <2>1. ~(i < m)
    BY <1>2 DEF OpToRel
  <2> QED
    BY SMTT(60), <2>1
<1> QED
  BY <1>3

\* A set that has 0 and, with each number, the next one has all of them up to n.
LEMMA UpTo ==
  ASSUME NEW n \in Nat, NEW P, 0 \in P, \A i \in 0 .. n - 1 : i \in P => i + 1 \in P
  PROVE  \A i \in 0 .. n : i \in P
<1> DEFINE Bad == {i \in 0 .. n : i \notin P}
<1>1. SUFFICES ASSUME Bad # {} PROVE FALSE
  OBVIOUS
<1>2. Bad \in SUBSET Nat
  BY SMTT(60)
<1>3. PICK m \in Bad : \A i \in Bad : m <= i
  <2> HIDE DEF Bad
  <2> QED
    BY <1>1, <1>2, LeastNat
<1>4. m \in 0 .. n /\ m \notin P /\ m # 0
  BY DEF Bad
<1>5. m - 1 \in 0 .. n - 1 /\ m - 1 \notin Bad
  BY SMTT(60), <1>3, <1>4
<1>6. m - 1 \in P
  BY SMTT(60), <1>4, <1>5
<1>7. (m - 1) + 1 \in P
  BY <1>5, <1>6
<1> QED
  BY SMTT(60), <1>4, <1>7

\* f has the states of a loop that starts with base and does step with each of the
\* first m members of list.
LoopStates(S, step, base, list, m, f) ==
  /\ f \in [0 .. m -> S] /\ f[0] = base
  /\ \A i \in 1 .. m : f[i] = step[<<f[i - 1], list[i]>>]

\* There is such an f.
LEMMA LoopRuns ==
  ASSUME NEW S, NEW X, NEW step \in [S \X X -> S], NEW base \in S, NEW n \in Nat,
         NEW list, \A i \in 1 .. n : list[i] \in X
  PROVE  \E f : LoopStates(S, step, base, list, n, f)
<1> DEFINE P == {m \in 0 .. n : \E f : LoopStates(S, step, base, list, m, f)}
<1>1. 0 \in P
  <2>1. LoopStates(S, step, base, list, 0, [i \in 0 .. 0 |-> base])
    BY SMTT(60) DEF LoopStates
  <2> QED
    BY SMTT(60), <2>1
<1>2. ASSUME NEW m \in 0 .. n - 1, m \in P PROVE m + 1 \in P
  <2>1. m \in Nat /\ m + 1 \in 1 .. n /\ m + 1 \in 0 .. n
    BY SMTT(60)
  <2>2. PICK f : LoopStates(S, step, base, list, m, f)
    BY <1>2
  <2>3. f \in [0 .. m -> S] /\ f[0] = base /\ \A i \in 1 .. m : f[i] = step[<<f[i - 1], list[i]>>]
    BY <2>2 DEF LoopStates
  <2> DEFINE last == step[<<f[m], list[m + 1]>>]
             g == [i \in 0 .. m + 1 |-> IF i = m + 1 THEN last ELSE f[i]]
  <2>4. last \in S /\ \A i \in 0 .. m : f[i] \in S
    BY SMTT(60), <2>1, <2>3
  <2> HIDE DEF last
  <2>5. g \in [0 .. m + 1 -> S] /\ g[m + 1] = last /\ \A i \in 0 .. m : g[i] = f[i]
    BY SMTT(60), <2>1, <2>4
  <2> HIDE DEF g
  <2>6. \A i \in 1 .. m + 1 : g[i] = step[<<g[i - 1], list[i]>>]
    <3> SUFFICES ASSUME NEW i \in 1 .. m + 1 PROVE g[i] = step[<<g[i - 1], list[i]>>]
      OBVIOUS
    <3>1. g[i - 1] = f[i - 1]
      BY SMTT(60), <2>1, <2>5
    <3>2. CASE i = m + 1
      BY SMTT(60), <2>1, <2>5, <3>1, <3>2 DEF last
    <3>3. CASE i # m + 1
      BY SMTT(60), <2>1, <2>3, <2>5, <3>1, <3>3
    <3> QED
      BY <3>2, <3>3
  <2>7. g[0] = base
    BY SMTT(60), <2>1, <2>3, <2>5
  <2>8. LoopStates(S, step, base, list, m + 1, g)
    BY <2>5, <2>6, <2>7 DEF LoopStates
  <2> QED
    BY <2>1, <2>8
<1>3. n \in P
  <2> HIDE DEF P
  <2> QED
    BY SMTT(60), <1>1, <1>2, UpTo
<1> QED
  BY <1>3

\* A strict order on a finite set has a maximal member: one with the most predecessors.
LEMMA Maximal ==
  ASSUME NEW S, IsFiniteSet(S), S # {}, NEW R,
         \A x \in S : <<x, x>> \notin R,
         \A x, y, z \in S : <<x, y>> \in R /\ <<y, z>> \in R => <<x, z>> \in R
  PROVE  \E m \in S : \A x \in S : <<m, x>> \notin R
<1> DEFINE P == [x \in S |-> {y \in S : <<y, x>> \in R}]
           D == {Cardinality(S) - Cardinality(P[x]) : x \in S}
<1>1. \A x \in S : P[x] = {y \in S : <<y, x>> \in R} /\ P[x] \in SUBSET S
  OBVIOUS
<1> HIDE DEF P
<1>2. \A x \in S : IsFiniteSet(P[x]) /\ Cardinality(P[x]) <= Cardinality(S)
  BY <1>1, FS_Subset
<1>3. Cardinality(S) \in Nat /\ \A x \in S : Cardinality(P[x]) \in Nat
  BY <1>2, FS_CardinalityType
<1>4. D \in SUBSET Nat /\ D # {}
  BY SMTT(60), <1>2, <1>3
<1>5. PICK d \in D : \A e \in D : d <= e
  <2> HIDE DEF D
  <2> QED
    BY <1>4, LeastNat
<1>6. PICK m \in S : d = Cardinality(S) - Cardinality(P[m])
  BY <1>5
<1>7. ASSUME NEW z \in S, <<m, z>> \in R PROVE FALSE
  <2>1. m \notin P[m] /\ P[m] \cup {m} \in SUBSET P[z]
    <3>1. m \notin P[m]
      <4>1. <<m, m>> \notin R
        OBVIOUS
      <4>2. P[m] = {y \in S : <<y, m>> \in R}
        BY <1>1
      <4> QED
        BY <4>1, <4>2
    <3>2. m \in P[z]
      BY SMTT(60), <1>1, <1>7
    <3>3. ASSUME NEW y \in P[m] PROVE y \in P[z]
      <4>1. y \in S /\ <<y, m>> \in R
        BY SMTT(60), <1>1
      <4>2. <<y, z>> \in R
        BY <1>7, <4>1
      <4> QED
        BY <1>1, <4>1, <4>2
    <3> QED
      BY <3>1, <3>2, <3>3
  <2>2. IsFiniteSet(P[m] \cup {m}) /\ Cardinality(P[m] \cup {m}) = Cardinality(P[m]) + 1
    BY <1>2, <2>1, FS_AddElement
  <2>3. Cardinality(P[m] \cup {m}) <= Cardinality(P[z])
    BY <1>2, <2>1, FS_Subset
  <2>4. d <= Cardinality(S) - Cardinality(P[z])
    BY SMTT(60), <1>5
  <2> QED
    BY SMTT(60), <1>3, <1>6, <2>2, <2>3, <2>4
<1> QED
  BY <1>7

\* ORDER BY ... LIMIT n: the members with fewer than n predecessors.
Segment(S, R, n) == {x \in S : Cardinality({y \in S : <<y, x>> \in R}) < n}

\* They are an initial segment, not empty unless the set is, and everything there is when
\* LIMIT n + 1 finds no more than n.
LEMMA SegmentIs ==
  ASSUME NEW S, IsFiniteSet(S), NEW R, NEW n \in Nat \ {0},
         \A x \in S : <<x, x>> \notin R,
         \A x, y, z \in S : <<x, y>> \in R /\ <<y, z>> \in R => <<x, z>> \in R
  PROVE  /\ \A x \in Segment(S, R, n), y \in S : <<y, x>> \in R => y \in Segment(S, R, n)
         /\ S # {} => Segment(S, R, n) # {}
         /\ Segment(S, R, n) # {} => \E m \in Segment(S, R, n) : \A x \in Segment(S, R, n) : <<m, x>> \notin R
         /\ Cardinality(Segment(S, R, n + 1)) <= n => Segment(S, R, n) = S
<1> DEFINE P == [x \in S |-> {y \in S : <<y, x>> \in R}]
           F == Segment(S, R, n)
           G == Segment(S, R, n + 1)
           Q == {e \in S \X S : <<e[2], e[1]>> \in R}
<1>1. \A x \in S : P[x] = {y \in S : <<y, x>> \in R} /\ P[x] \in SUBSET S
  OBVIOUS
<1>2. F \in SUBSET S /\ G \in SUBSET S
  BY DEF Segment
<1>3. \A x \in S : (x \in F <=> Cardinality(P[x]) < n) /\ (x \in G <=> Cardinality(P[x]) < n + 1)
  BY DEF Segment
<1>a. \A x, y \in S : <<x, y>> \in Q <=> <<y, x>> \in R
  OBVIOUS
<1> HIDE DEF P, F, G, Q
<1>4. \A x \in S : IsFiniteSet(P[x])
  BY <1>1, FS_Subset
<1>5. \A x \in S : Cardinality(P[x]) \in Nat
  BY <1>4, FS_CardinalityType
<1>6. ASSUME NEW x \in F, NEW y \in S, <<y, x>> \in R PROVE y \in F
  <2>1. x \in S
    BY <1>2
  <2>2. P[y] \in SUBSET P[x]
    <3>1. ASSUME NEW z \in P[y] PROVE z \in P[x]
      <4>1. z \in S /\ <<z, y>> \in R
        BY <1>1
      <4>2. <<z, x>> \in R
        BY <1>6, <2>1, <4>1
      <4> QED
        BY <1>1, <2>1, <4>1, <4>2
    <3> QED
      BY <3>1
  <2>3. Cardinality(P[y]) <= Cardinality(P[x])
    BY <1>4, <2>1, <2>2, FS_Subset
  <2> QED
    BY SMTT(60), <1>3, <1>5, <2>1, <2>3
\* A set of members has a first one.
<1>b. ASSUME NEW D \in SUBSET S, D # {} PROVE \E m \in D : \A x \in D : <<x, m>> \notin R
  <2>1. IsFiniteSet(D)
    BY FS_Subset
  <2>2. /\ \A x \in D : <<x, x>> \notin Q
        /\ \A x, y, z \in D : <<x, y>> \in Q /\ <<y, z>> \in Q => <<x, z>> \in Q
    BY <1>a
  <2>3. PICK m \in D : \A x \in D : <<m, x>> \notin Q
    BY <1>b, <2>1, <2>2, Maximal
  <2>4. ASSUME NEW x \in D PROVE <<x, m>> \notin R
    <3>1. m \in S /\ x \in S /\ <<m, x>> \notin Q
      BY <2>3
    <3> QED
      BY <1>a, <3>1
  <2> QED
    BY <2>3, <2>4
<1>7. ASSUME S # {} PROVE F # {}
  <2>1. PICK m \in S : \A x \in S : <<x, m>> \notin R
    BY <1>b, <1>7
  <2>2. P[m] = {y \in S : <<y, m>> \in R}
    BY <1>1
  <2>3. P[m] = {}
    BY <2>1, <2>2
  <2>4. Cardinality(P[m]) = 0
    BY <2>3, FS_EmptySet
  <2> QED
    BY SMTT(60), <1>3, <2>4
<1>8. ASSUME F # {} PROVE \E m \in F : \A x \in F : <<m, x>> \notin R
  <2>1. IsFiniteSet(F)
    BY <1>2, FS_Subset
  <2>2. /\ \A x \in F : <<x, x>> \notin R
        /\ \A x, y, z \in F : <<x, y>> \in R /\ <<y, z>> \in R => <<x, z>> \in R
    BY <1>2
  <2> QED
    BY <1>8, <2>1, <2>2, Maximal
<1>9. ASSUME Cardinality(G) <= n PROVE F = S
  <2>1. IsFiniteSet(G)
    BY <1>2, FS_Subset
  <2>2. Cardinality(G) \in Nat
    BY <2>1, FS_CardinalityType
  <2>3. G = S
    <3>1. SUFFICES ASSUME S \ G # {} PROVE FALSE
      BY <1>2
    <3>2. PICK m \in S \ G : \A x \in S \ G : <<x, m>> \notin R
      BY <1>b, <3>1
    <3>3. P[m] \in SUBSET G
      <4>1. P[m] = {y \in S : <<y, m>> \in R}
        BY <1>1
      <4> QED
        BY <3>2, <4>1
    <3>4. Cardinality(P[m]) <= Cardinality(G)
      BY <2>1, <3>3, FS_Subset
    <3> QED
      BY SMTT(60), <1>3, <1>5, <1>9, <2>2, <3>2, <3>4
  <2>4. ASSUME NEW x \in S PROVE x \in F
    <3>1. x \notin P[x] /\ P[x] \cup {x} \in SUBSET S
      <4>1. P[x] = {y \in S : <<y, x>> \in R} /\ <<x, x>> \notin R
        BY <1>1
      <4> QED
        BY <4>1
    <3>2. Cardinality(P[x] \cup {x}) = Cardinality(P[x]) + 1
      BY <1>4, <3>1, FS_AddElement
    <3>3. Cardinality(P[x] \cup {x}) <= Cardinality(S)
      BY <3>1, FS_Subset
    <3> QED
      BY SMTT(60), <1>3, <1>5, <1>9, <2>2, <2>3, <3>2, <3>3
  <2> QED
    BY <1>2, <2>4
<1> QED
  BY <1>6, <1>7, <1>8, <1>9 DEF F, G

\* keysetPredicate on two columns is the lexicographic order.
LEMMA BeyondPair ==
  ASSUME NEW k \in Int \X Int, NEW c \in Int \X Int
  PROVE  Beyond(k, c) <=> k[1] > c[1] \/ (k[1] = c[1] /\ k[2] > c[2])
<1>1. DOMAIN k = 1 .. 2 /\ k[1] \in Int /\ k[2] \in Int /\ c[1] \in Int /\ c[2] \in Int
  BY SMTT(60)
<1>2. ASSUME Beyond(k, c) PROVE k[1] > c[1] \/ (k[1] = c[1] /\ k[2] > c[2])
  <2>1. PICK i \in 1 .. 2 : k[i] > c[i] /\ \A j \in 1 .. i - 1 : k[j] = c[j]
    BY <1>1, <1>2 DEF Beyond
  <2>2. CASE i = 1
    BY <2>1, <2>2
  <2>3. CASE i = 2
    <3>1. 1 \in 1 .. i - 1
      BY SMTT(60), <2>3
    <3> QED
      BY <2>1, <2>3, <3>1
  <2> QED
    BY SMTT(60), <2>2, <2>3
<1>3. ASSUME k[1] > c[1] PROVE Beyond(k, c)
  <2>1. 1 \in DOMAIN k /\ \A j \in 1 .. 1 - 1 : k[j] = c[j]
    BY SMTT(60), <1>1
  <2> QED
    BY <1>3, <2>1 DEF Beyond
<1>4. ASSUME k[1] = c[1], k[2] > c[2] PROVE Beyond(k, c)
  <2>1. 2 \in DOMAIN k /\ \A j \in 1 .. 2 - 1 : j = 1
    BY SMTT(60), <1>1
  <2>2. \A j \in 1 .. 2 - 1 : k[j] = c[j]
    BY <1>4, <2>1
  <2> QED
    BY <1>4, <2>1, <2>2 DEF Beyond
<1> QED
  BY <1>2, <1>3, <1>4

\* And so it is on three.
LEMMA BeyondTriple ==
  ASSUME NEW k \in Int \X Int \X Int, NEW c \in Int \X Int \X Int
  PROVE  Beyond(k, c) <=> \/ k[1] > c[1]
                          \/ k[1] = c[1] /\ k[2] > c[2]
                          \/ k[1] = c[1] /\ k[2] = c[2] /\ k[3] > c[3]
<1>1. /\ DOMAIN k = 1 .. 3 /\ k[1] \in Int /\ k[2] \in Int /\ k[3] \in Int
      /\ c[1] \in Int /\ c[2] \in Int /\ c[3] \in Int
  BY SMTT(60)
<1>2. ASSUME Beyond(k, c)
      PROVE  \/ k[1] > c[1]
             \/ k[1] = c[1] /\ k[2] > c[2]
             \/ k[1] = c[1] /\ k[2] = c[2] /\ k[3] > c[3]
  <2>1. PICK i \in 1 .. 3 : k[i] > c[i] /\ \A j \in 1 .. i - 1 : k[j] = c[j]
    BY <1>1, <1>2 DEF Beyond
  <2>2. CASE i = 1
    BY <2>1, <2>2
  <2>3. CASE i = 2
    <3>1. 1 \in 1 .. i - 1
      BY SMTT(60), <2>3
    <3> QED
      BY <2>1, <2>3, <3>1
  <2>4. CASE i = 3
    <3>1. 1 \in 1 .. i - 1 /\ 2 \in 1 .. i - 1
      BY SMTT(60), <2>4
    <3> QED
      BY <2>1, <2>4, <3>1
  <2> QED
    BY SMTT(60), <2>2, <2>3, <2>4
<1>3. ASSUME k[1] > c[1] PROVE Beyond(k, c)
  <2>1. 1 \in DOMAIN k /\ \A j \in 1 .. 1 - 1 : k[j] = c[j]
    BY SMTT(60), <1>1
  <2> QED
    BY <1>3, <2>1 DEF Beyond
<1>4. ASSUME k[1] = c[1], k[2] > c[2] PROVE Beyond(k, c)
  <2>1. 2 \in DOMAIN k /\ \A j \in 1 .. 2 - 1 : j = 1
    BY SMTT(60), <1>1
  <2>2. \A j \in 1 .. 2 - 1 : k[j] = c[j]
    BY <1>4, <2>1
  <2> QED
    BY <1>4, <2>1, <2>2 DEF Beyond
<1>5. ASSUME k[1] = c[1], k[2] = c[2], k[3] > c[3] PROVE Beyond(k, c)
  <2>1. 3 \in DOMAIN k /\ \A j \in 1 .. 3 - 1 : j = 1 \/ j = 2
    BY SMTT(60), <1>1
  <2>2. \A j \in 1 .. 3 - 1 : k[j] = c[j]
    BY <1>5, <2>1
  <2> QED
    BY <1>5, <2>1, <2>2 DEF Beyond
<1> QED
  BY <1>2, <1>3, <1>4, <1>5

\* The sort keys there are: of two columns or of three.
KeySets == {Int \X Int, Int \X Int \X Int}

\* Keys of as many columns are in a strict total order, and none is the empty token.
LEMMA BeyondOrders ==
  ASSUME NEW K \in KeySets, NEW a \in K, NEW b \in K, NEW c \in K
  PROVE  /\ ~Beyond(a, a)
         /\ Beyond(a, b) /\ Beyond(b, c) => Beyond(a, c)
         /\ Beyond(a, b) \/ Beyond(b, a) \/ a = b
         /\ a # Start
<1>1. CASE K = Int \X Int
  <2>0. a \in Int \X Int /\ b \in Int \X Int /\ c \in Int \X Int
    BY <1>1
  <2>1. a = <<a[1], a[2]>> /\ b = <<b[1], b[2]>> /\ a[1] \in Int /\ a[2] \in Int /\ b[1] \in Int /\ b[2] \in Int
        /\ c[1] \in Int /\ c[2] \in Int /\ Len(a) = 2
    BY SMTT(60), <2>0
  <2>2. ~Beyond(a, a)
    BY SMTT(60), <2>0, <2>1, BeyondPair
  <2>3. Beyond(a, b) /\ Beyond(b, c) => Beyond(a, c)
    BY SMTT(60), <2>0, <2>1, BeyondPair
  <2>4. Beyond(a, b) \/ Beyond(b, a) \/ (a[1] = b[1] /\ a[2] = b[2])
    BY SMTT(60), <2>0, <2>1, BeyondPair
  <2>5. a # Start
    <3>1. Len(a) # Len(<< >>)
      BY SMTT(60), <2>1
    <3> QED
      BY <3>1 DEF Start
  <2> QED
    BY <2>1, <2>2, <2>3, <2>4, <2>5
<1>2. CASE K = Int \X Int \X Int
  <2>0. a \in Int \X Int \X Int /\ b \in Int \X Int \X Int /\ c \in Int \X Int \X Int
    BY <1>2
  <2>1. /\ a = <<a[1], a[2], a[3]>> /\ b = <<b[1], b[2], b[3]>> /\ Len(a) = 3
        /\ a[1] \in Int /\ a[2] \in Int /\ a[3] \in Int
        /\ b[1] \in Int /\ b[2] \in Int /\ b[3] \in Int
        /\ c[1] \in Int /\ c[2] \in Int /\ c[3] \in Int
    BY SMTT(60), <2>0
  <2>2. ~Beyond(a, a)
    BY SMTT(60), <2>0, <2>1, BeyondTriple
  <2>3. Beyond(a, b) /\ Beyond(b, c) => Beyond(a, c)
    BY SMTT(60), <2>0, <2>1, BeyondTriple
  <2>4. Beyond(a, b) \/ Beyond(b, a) \/ (a[1] = b[1] /\ a[2] = b[2] /\ a[3] = b[3])
    BY SMTT(60), <2>0, <2>1, BeyondTriple
  <2>5. a # Start
    <3>1. Len(a) # Len(<< >>)
      BY SMTT(60), <2>1
    <3> QED
      BY <3>1 DEF Start
  <2> QED
    BY <2>1, <2>2, <2>3, <2>4, <2>5
<1> QED
  BY <1>1, <1>2 DEF KeySets

\* A page of n rows out of L, and its token: either the page is all of L, or the token
\* separates it from the rest.
LEMMA PageIs ==
  ASSUME NEW L, IsFiniteSet(L), NEW K \in KeySets, \A r \in L : r.key \in K, NEW n \in Nat \ {0}
  PROVE  /\ First(L, n) \subseteq L
         /\ Token(L, n) = Start => First(L, n) = L
         /\ Token(L, n) # Start =>
              \E m \in First(L, n) :
                /\ Token(L, n) = m.key
                /\ \A s \in L : s \in First(L, n) <=> ~Beyond(s.key, m.key)
<1> DEFINE R == {e \in L \X L : Beyond(e[2].key, e[1].key)}
<1>1. \A x, y \in L : <<x, y>> \in R <=> Beyond(y.key, x.key)
  OBVIOUS
<1> HIDE DEF R
<1>2. \A x \in L : {y \in L : <<y, x>> \in R} = {y \in L : Beyond(x.key, y.key)}
  BY <1>1
<1>3. First(L, n) = Segment(L, R, n) /\ First(L, n + 1) = Segment(L, R, n + 1)
  BY <1>2 DEF First, Segment
<1>4. \A x \in L : <<x, x>> \notin R
  BY SMTT(60), <1>1, BeyondOrders
<1>5. \A x, y, z \in L : <<x, y>> \in R /\ <<y, z>> \in R => <<x, z>> \in R
  <2> SUFFICES ASSUME NEW x \in L, NEW y \in L, NEW z \in L, <<x, y>> \in R, <<y, z>> \in R PROVE <<x, z>> \in R
    OBVIOUS
  <2>1. x.key \in K /\ y.key \in K /\ z.key \in K
    OBVIOUS
  <2>2. Beyond(y.key, x.key) /\ Beyond(z.key, y.key)
    BY <1>1
  <2>3. Beyond(z.key, x.key)
    BY SMTT(60), <2>1, <2>2, BeyondOrders
  <2> QED
    BY <1>1, <2>3
<1>6. /\ \A x \in First(L, n), y \in L : <<y, x>> \in R => y \in First(L, n)
      /\ L # {} => First(L, n) # {}
      /\ First(L, n) # {} => \E m \in First(L, n) : \A x \in First(L, n) : <<m, x>> \notin R
      /\ Cardinality(First(L, n + 1)) <= n => First(L, n) = L
  BY SMTT(60), <1>3, <1>4, <1>5, SegmentIs
<1>7. First(L, n) \subseteq L /\ First(L, n + 1) \subseteq L
  BY DEF First
<1>8. CASE Cardinality(First(L, n + 1)) <= n
  <2>1. Token(L, n) = Start
    BY <1>8 DEF Token
  <2> QED
    BY <1>6, <1>7, <1>8, <2>1
<1>9. CASE ~(Cardinality(First(L, n + 1)) <= n)
  <2>1. First(L, n + 1) # {}
    <3>1. Cardinality({}) <= n
      BY SMTT(60), FS_EmptySet
    <3> QED
      BY <1>9, <3>1
  <2>2. First(L, n) # {}
    BY <1>6, <1>7, <2>1
  <2>3. \E m \in First(L, n) : \A s \in First(L, n) : ~Beyond(s.key, m.key)
    BY <1>1, <1>6, <1>7, <2>2
  <2>4. PICK m : m = CHOOSE r \in First(L, n) : \A s \in First(L, n) : ~Beyond(s.key, r.key)
    OBVIOUS
  <2>5. m \in First(L, n) /\ \A s \in First(L, n) : ~Beyond(s.key, m.key)
    BY <2>3, <2>4
  <2>6. Token(L, n) = m.key
    BY <1>9, <2>4 DEF Token, LastKey
  <2>7. Token(L, n) # Start
    <3>1. m.key \in K
      BY <1>7, <2>5
    <3> QED
      BY SMTT(60), <2>6, <3>1, BeyondOrders
  <2>8. ASSUME NEW s \in L, ~Beyond(s.key, m.key) PROVE s \in First(L, n)
    <3>0. s.key \in K /\ m.key \in K /\ m \in L
      BY <1>7, <2>5
    <3>1. CASE Beyond(m.key, s.key)
      BY <1>1, <1>6, <2>5, <3>0, <3>1
    <3>2. CASE m.key = s.key
      <4>1. {y \in L : Beyond(s.key, y.key)} = {y \in L : Beyond(m.key, y.key)}
        BY <3>2
      <4>2. Cardinality({y \in L : Beyond(m.key, y.key)}) < n
        BY <2>5 DEF First
      <4> QED
        BY <4>1, <4>2 DEF First
    <3> QED
      BY SMTT(60), <2>8, <3>0, <3>1, <3>2, BeyondOrders
  <2> QED
    BY <1>7, <2>5, <2>6, <2>7, <2>8
<1> QED
  BY <1>8, <1>9


-----------------------------------------------------------------------------
(* The invariant.                                                           *)

\* No two points of a run and key have the same timestamp and step.
UniquePoints(points) == \A m, n \in points : m.ts = n.ts /\ m.step = n.step => m = n

\* The row of metrics_latest is the last of the points, in the order of timestamp and step.
NoLater(n, m) == n.ts < m.ts \/ (n.ts = m.ts /\ n.step <= m.step)
IsLast(last, points) ==
  \/ points = {} /\ last = Nothing
  \/ last \in points /\ \A n \in points : NoLater(n, last)

\* The points of one run, with their latest.
Tables == [points : SUBSET PointRow, last : PointRow \cup {Nothing}]
TableOK(t) ==
  /\ t \in Tables /\ IsFiniteSet(t.points)
  /\ UniquePoints(t.points) /\ IsLast(t.last, t.points)

RunRow == [start : Int, stage : {"active", "deleted"}]

TablesInv ==
  /\ runs \in [Runs -> RunRow \cup {Nothing}]
  /\ metrics \in [Runs -> SUBSET PointRow]
  /\ latest \in [Runs -> PointRow \cup {Nothing}]
  /\ params \in [Runs -> [Keys -> Values \cup {Nothing}]]
  /\ spans \in [SpanIds -> SpanRow \cup {Nothing}]
  /\ \A r \in Runs : TableOK([points |-> metrics[r], last |-> latest[r]])

\* What requests ask for, as far as it has been done.
ParamLogged(q, i) == params[q.run][q.params[i][1]] = q.params[i][2]
PointLogged(q, i) == \E m \in metrics[q.run] : q.metrics[i].ts \in {0, m.ts} /\ m.step = q.metrics[i].step
SpanLogged(sp) == /\ spans[sp.id] # Nothing
                  /\ spans[sp.id].trace = sp.trace
                  /\ sp.run # Nothing => spans[sp.id].run = sp.run

PointsLogged(q) == \A i \in DOMAIN q.metrics : PointLogged(q, i)

\* The params of a request before those it has left are logged.
Ahead(q, rest) == Len(q.params) - Len(rest)
Progress(q, rest) ==
  /\ Ahead(q, rest) \in Nat
  /\ \A i \in 1 .. Len(rest) : rest[i] = q.params[Ahead(q, rest) + i]
  /\ \A i \in 1 .. Ahead(q, rest) : ParamLogged(q, i)

Pcs == {"idle", "serve", "metrics", "params", "compare", "insert", "page", "searched"}
Cursors == {Start} \cup (Int \X Int) \cup (Int \X Int \X Int)
Ids == (Int \X Int) \cup Runs
Rests == Seq(Keys \X Values)
Served == [pc : Pcs, q : Requests \cup {[op |-> "none"]}, rest : Rests,
           cursor : Cursors, out : SUBSET Ids, twice : SUBSET Ids]

\* A request a goroutine serves.
ServedOK(r) ==
  /\ r \in Served
  /\ r.pc = "idle" => r = Idle
  /\ r.pc # "idle" => r.q \in Requests
  /\ r.pc \in {"metrics", "params", "compare"} => r.q \in LogReqs /\ Progress(r.q, r.rest)
  /\ r.pc \in {"params", "compare"} => PointsLogged(r.q)
  /\ r.pc = "compare" => r.rest # <<>> /\ params[r.q.run][Head(r.rest)[1]] # Nothing
  /\ r.pc = "insert" => r.q \in SpanReqs
  /\ r.pc \in {"page", "searched"} => IsSearch(r.q)

\* A process that serves nothing, or a log request, serves no search.
LEMMA NoSearch == ~IsSearch(Idle.q) /\ \A q \in LogReqs \cup SpanReqs : ~IsSearch(q)
BY SMTT(60) DEF Idle, IsSearch, LogReqs, SpanReqs

ServedInv == req \in [Procs -> Served] /\ \A p \in Procs : ServedOK(req[p])

\* What was answered.
AckOK(q) ==
  \/ q \in LogReqs /\ PointsLogged(q) /\ \A i \in DOMAIN q.params : ParamLogged(q, i)
  \/ q \in SpanReqs /\ \A i \in DOMAIN q.spans : SpanLogged(q.spans[i])
RefusalOK(f) == /\ f.run \in Runs /\ f.param \in Keys \X Values
                /\ params[f.run][f.param[1]] \notin {Nothing, f.param[2]}
AnswersInv == (\A q \in acked : AckOK(q)) /\ \A f \in refused : RefusalOK(f)

LoggingInv == TablesInv /\ ServedInv /\ AnswersInv

-----------------------------------------------------------------------------
(* The loop over the points of a batch.                                     *)

\* One point keeps the table in order: it is left out when its timestamp and step
\* are taken, and it becomes the latest when none is later.
LEMMA InsertPointKeeps ==
  ASSUME NEW t, TableOK(t), NEW pt \in PointRow
  PROVE  /\ TableOK(InsertPoint(t, pt))
         /\ t.points \subseteq InsertPoint(t, pt).points
         /\ \E m \in InsertPoint(t, pt).points : m.ts = pt.ts /\ m.step = pt.step
<1>1. /\ t \in Tables /\ IsFiniteSet(t.points) /\ t.points \subseteq PointRow
      /\ UniquePoints(t.points) /\ IsLast(t.last, t.points)
  BY DEF TableOK, Tables
<1>2. CASE \E m \in t.points : m.ts = pt.ts /\ m.step = pt.step
  BY <1>2 DEF InsertPoint
<1>3. CASE ~\E m \in t.points : m.ts = pt.ts /\ m.step = pt.step
  <2> DEFINE pts == t.points \cup {pt}
             new == Trigger(t.last, pt)
  <2>1. PICK u : u = [points |-> pts, last |-> new]
    OBVIOUS
  <2>2. InsertPoint(t, pt) = u
    BY <1>3, <2>1 DEF InsertPoint
  <2>3. IsFiniteSet(pts)
    BY <1>1, FS_AddElement
  <2>4. UniquePoints(pts)
    BY <1>1, <1>3 DEF UniquePoints
  <2>5. IsLast(new, pts)
    <3>0. pt.ts \in Int /\ pt.step \in Int /\ \A n \in t.points : n.ts \in Int /\ n.step \in Int
      BY <1>1 DEF PointRow
    <3>1. CASE t.last = Nothing
      <4>1. t.points = {}
        BY <1>1, <3>1, TrackingConstants DEF IsLast
      <4>2. new = pt
        BY <3>1 DEF Trigger
      <4> QED
        BY SMTT(60), <3>0, <4>1, <4>2 DEF IsLast, NoLater
    <3>2. CASE t.last # Nothing
      <4>1. t.last \in t.points /\ \A n \in t.points : NoLater(n, t.last)
        BY <1>1, <3>2 DEF IsLast
      <4>2. CASE pt.ts > t.last.ts \/ (pt.ts = t.last.ts /\ pt.step >= t.last.step)
        <5>1. new = pt
          BY <4>2 DEF Trigger
        <5>2. \A n \in t.points : NoLater(n, pt)
          BY SMTT(60), <3>0, <4>1, <4>2 DEF NoLater
        <5> QED
          BY SMTT(60), <3>0, <5>1, <5>2 DEF IsLast, NoLater
      <4>3. CASE ~(pt.ts > t.last.ts \/ (pt.ts = t.last.ts /\ pt.step >= t.last.step))
        <5>1. new = t.last
          BY <3>2, <4>3 DEF Trigger
        <5>2. NoLater(pt, t.last)
          BY SMTT(60), <3>0, <4>1, <4>3 DEF NoLater
        <5> QED
          BY <4>1, <5>1, <5>2 DEF IsLast
      <4> QED
        BY <4>2, <4>3
    <3> QED
      BY <3>1, <3>2
  <2>6. new \in PointRow \cup {Nothing} /\ pts \subseteq PointRow
    BY <1>1 DEF Trigger, Tables
  <2> HIDE DEF new
  <2>7. u \in Tables /\ u.points = pts /\ u.last = new
    BY <2>1, <2>6 DEF Tables
  <2>8. TableOK(u)
    BY <2>3, <2>4, <2>5, <2>7 DEF TableOK
  <2> QED
    BY <2>2, <2>7, <2>8
<1> QED
  BY <1>2, <1>3

\* The states of the loop.
LEMMA InsertLoop ==
  ASSUME NEW t \in Tables, NEW pts \in Seq(PointRow)
  PROVE  \E f : /\ f[0] = t
                /\ \A i \in 0 .. Len(pts) - 1 : f[i + 1] = InsertPoint(f[i], pts[i + 1])
                /\ InsertPoints(t, pts) = f[Len(pts)]
<1> DEFINE step == [x \in Tables \X PointRow |-> InsertPoint(x[1], x[2])]
           done[i \in 0 .. Len(pts)] == IF i = 0 THEN t ELSE InsertPoint(done[i - 1], pts[i])
<1>1. \A a \in Tables, b \in PointRow : InsertPoint(a, b) \in Tables
  BY DEF Tables, InsertPoint, Trigger
<1>2. step \in [Tables \X PointRow -> Tables] /\ \A a \in Tables, b \in PointRow : step[<<a, b>>] = InsertPoint(a, b)
  BY <1>1
<1> HIDE DEF step
<1>3. Len(pts) \in Nat /\ \A i \in 1 .. Len(pts) : pts[i] \in PointRow
  BY SMTT(60)
<1>4. PICK f : LoopStates(Tables, step, t, pts, Len(pts), f)
  BY <1>2, <1>3, LoopRuns
<1>5. f \in [0 .. Len(pts) -> Tables] /\ f[0] = t /\ \A i \in 1 .. Len(pts) : f[i] = step[<<f[i - 1], pts[i]>>]
  BY <1>4 DEF LoopStates
<1>6. \A i \in 1 .. Len(pts) : f[i - 1] \in Tables /\ pts[i] \in PointRow
  BY SMTT(60), <1>3, <1>5
<1>7. \A i \in 1 .. Len(pts) : f[i] = InsertPoint(f[i - 1], pts[i])
  BY <1>2, <1>5, <1>6
<1>8. f = [i \in 0 .. Len(pts) |-> IF i = 0 THEN t ELSE InsertPoint(f[i - 1], pts[i])]
  BY SMTT(60), <1>3, <1>5, <1>7
<1>9. done = [i \in 0 .. Len(pts) |-> IF i = 0 THEN t ELSE InsertPoint(done[i - 1], pts[i])]
  BY <1>8 DEF done
<1>10. InsertPoints(t, pts) = done[Len(pts)]
  BY DEF InsertPoints, done
<1> HIDE DEF done
<1>11. done[0] = t /\ \A i \in 0 .. Len(pts) - 1 : done[i + 1] = InsertPoint(done[i], pts[i + 1])
  BY SMTT(60), <1>3, <1>9
<1> QED
  BY <1>10, <1>11

\* All of the points of the batch are in the table at the end, or others with their
\* timestamps and steps, and the table is in order.
LEMMA InsertPointsKeeps ==
  ASSUME NEW t, TableOK(t), NEW pts \in Seq(PointRow)
  PROVE  /\ TableOK(InsertPoints(t, pts))
         /\ t.points \subseteq InsertPoints(t, pts).points
         /\ \A i \in 1 .. Len(pts) :
              \E m \in InsertPoints(t, pts).points : m.ts = pts[i].ts /\ m.step = pts[i].step
<1>1. t \in Tables /\ Len(pts) \in Nat /\ \A i \in 1 .. Len(pts) : pts[i] \in PointRow
  BY SMTT(60) DEF TableOK
<1>2. PICK f : /\ f[0] = t
               /\ \A i \in 0 .. Len(pts) - 1 : f[i + 1] = InsertPoint(f[i], pts[i + 1])
               /\ InsertPoints(t, pts) = f[Len(pts)]
  BY <1>1, InsertLoop
<1> DEFINE Has(i, j) == \E m \in f[i].points : m.ts = pts[j].ts /\ m.step = pts[j].step
           P == {i \in 0 .. Len(pts) : TableOK(f[i]) /\ t.points \subseteq f[i].points
                                       /\ \A j \in 1 .. i : Has(i, j)}
<1>3. 0 \in P
  BY SMTT(60), <1>1, <1>2
<1>4. ASSUME NEW i \in 0 .. Len(pts) - 1, i \in P PROVE i + 1 \in P
  <2>1. i + 1 \in 0 .. Len(pts) /\ pts[i + 1] \in PointRow /\ f[i + 1] = InsertPoint(f[i], pts[i + 1])
    BY SMTT(60), <1>1, <1>2
  <2>2. TableOK(f[i]) /\ t.points \subseteq f[i].points /\ \A j \in 1 .. i : Has(i, j)
    BY <1>4
  <2>3. TableOK(f[i + 1]) /\ f[i].points \subseteq f[i + 1].points /\ Has(i + 1, i + 1)
    <3>1. PICK a, b : a = f[i] /\ b = pts[i + 1]
      OBVIOUS
    <3>2. TableOK(a) /\ b \in PointRow /\ f[i + 1] = InsertPoint(a, b)
      BY <2>1, <2>2, <3>1
    <3>3. /\ TableOK(InsertPoint(a, b)) /\ a.points \subseteq InsertPoint(a, b).points
          /\ \E m \in InsertPoint(a, b).points : m.ts = b.ts /\ m.step = b.step
      BY <3>2, InsertPointKeeps
    <3> QED
      BY <3>1, <3>2, <3>3
  <2>4. ASSUME NEW j \in 1 .. i + 1 PROVE Has(i + 1, j)
    <3>1. CASE j = i + 1
      BY <2>3, <3>1
    <3>2. CASE j # i + 1
      <4>1. j \in 1 .. i
        BY SMTT(60), <3>2
      <4> QED
        BY <2>2, <2>3, <4>1
    <3> QED
      BY <3>1, <3>2
  <2> QED
    BY <2>1, <2>2, <2>3, <2>4
<1>5. Len(pts) \in P
  <2>1. PICK n : n = Len(pts)
    OBVIOUS
  <2>2. n \in Nat /\ 0 \in P /\ \A i \in 0 .. n - 1 : i \in P => i + 1 \in P
    BY <1>1, <1>3, <1>4, <2>1
  <2> HIDE DEF P
  <2>3. \A i \in 0 .. n : i \in P
    BY <2>2, UpTo
  <2> QED
    BY SMTT(60), <2>1, <2>2, <2>3
<1> QED
  BY <1>2, <1>5

\* The latest point that a table of metrics_latest would have is unique.
LEMMA LatestIs ==
  ASSUME NEW last, NEW points \in SUBSET PointRow, UniquePoints(points), IsLast(last, points)
  PROVE  last = Latest(points)
<1>0. \A n \in points : n.ts \in Int /\ n.step \in Int
  BY DEF PointRow
<1>1. CASE points = {}
  BY <1>1 DEF IsLast, Latest
<1>2. CASE points # {}
  <2>1. last \in points /\ \A n \in points : NoLater(n, last)
    BY <1>2 DEF IsLast
  <2>2. PICK c : c = CHOOSE m \in points :
                       \A n \in points : n.ts < m.ts \/ (n.ts = m.ts /\ n.step <= m.step)
    OBVIOUS
  <2>3. c \in points /\ \A n \in points : NoLater(n, c)
    BY <2>1, <2>2 DEF NoLater
  <2>4. c.ts = last.ts /\ c.step = last.step
    BY SMTT(60), <1>0, <2>1, <2>3 DEF NoLater
  <2>5. c = last
    BY <2>1, <2>3, <2>4 DEF UniquePoints
  <2> QED
    BY <1>2, <2>2, <2>5 DEF Latest
<1> QED
  BY <1>1, <1>2

-----------------------------------------------------------------------------
(* The loop over the spans of a batch.                                      *)

SpanTables == [SpanIds -> SpanRow \cup {Nothing}]

\* A span stays in its trace, and in its run once it has one.
KeepsSpans(t, u) ==
  \A s \in SpanIds : t[s] # Nothing => /\ u[s] # Nothing
                                       /\ u[s].trace = t[s].trace
                                       /\ t[s].run # Nothing => u[s].run = t[s].run

SpanIn(t, sp) == /\ t[sp.id] # Nothing
                 /\ t[sp.id].trace = sp.trace
                 /\ sp.run # Nothing => t[sp.id].run = sp.run

\* What was logged before an upsert of other spans, or of the same, is there after it.
LEMMA SpanStays ==
  ASSUME NEW t, NEW u, KeepsSpans(t, u), NEW sp \in SpanReq, SpanIn(t, sp)
  PROVE  SpanIn(u, sp)
<1>1. sp.id \in SpanIds
  BY DEF SpanReq
<1> QED
  BY <1>1 DEF KeepsSpans, SpanIn

\* One span is in its trace and run after the upsert, unless that is a conflict.
LEMMA UpsertSpanKeeps ==
  ASSUME NEW t \in SpanTables, NEW sp \in SpanReq, UpsertSpan(t, sp) # Conflict
  PROVE  /\ UpsertSpan(t, sp) \in SpanTables
         /\ KeepsSpans(t, UpsertSpan(t, sp))
         /\ SpanIn(UpsertSpan(t, sp), sp)
<1>0. /\ sp.id \in SpanIds /\ sp.trace \in Traces /\ sp.run \in Runs \cup {Nothing} /\ sp.ended \in Nat
      /\ t \in [SpanIds -> SpanRow \cup {Nothing}] /\ Nothing \notin SpanRow
  BY TrackingConstants DEF SpanReq, SpanTables
<1>1. PICK id, old : id = sp.id /\ old = t[id]
  OBVIOUS
<1>2. id \in SpanIds /\ old \in SpanRow \cup {Nothing}
  BY <1>0, <1>1
<1>3. t # Conflict
  BY DEF UpsertSpan
<1>4. CASE old = Nothing
  <2>1. PICK row : row = [trace |-> sp.trace, run |-> sp.run, ended |-> sp.ended]
    OBVIOUS
  <2>2. row \in SpanRow /\ row.trace = sp.trace /\ row.run = sp.run
    BY <1>0, <2>1 DEF SpanRow
  <2>3. UpsertSpan(t, sp) = [t EXCEPT ![id] = row]
    BY <1>1, <1>3, <1>4, <2>1 DEF UpsertSpan
  <2>4. PICK u : u = [t EXCEPT ![id] = row]
    OBVIOUS
  <2>5. u \in SpanTables /\ u[id] = row /\ \A s \in SpanIds \ {id} : u[s] = t[s]
    BY <1>0, <1>2, <2>2, <2>4 DEF SpanTables
  <2>6. KeepsSpans(t, u)
    BY <1>1, <1>4, <2>5 DEF KeepsSpans
  <2>7. SpanIn(u, sp)
    BY <1>0, <1>1, <2>2, <2>5 DEF SpanIn
  <2> QED
    BY <2>3, <2>4, <2>5, <2>6, <2>7
<1>5. CASE old # Nothing
  <2>1. old \in SpanRow /\ old.trace \in Traces
    BY <1>2, <1>5 DEF SpanRow
  <2>2. old.trace = sp.trace /\ old.run \in {Nothing, sp.run}
    BY <1>1, <1>3, <1>5 DEF UpsertSpan
  <2>3. PICK row : row = [trace |-> old.trace, run |-> sp.run, ended |-> sp.ended]
    OBVIOUS
  <2>4. row \in SpanRow /\ row.trace = sp.trace /\ row.run = sp.run
    BY <1>0, <2>1, <2>2, <2>3 DEF SpanRow
  <2>5. UpsertSpan(t, sp) = [t EXCEPT ![id].run = sp.run, ![id].ended = sp.ended]
    BY <1>1, <1>3, <1>5, <2>2 DEF UpsertSpan
  <2>6. PICK u : u = [t EXCEPT ![id].run = sp.run, ![id].ended = sp.ended]
    OBVIOUS
  <2>7. \A s \in SpanIds \ {id} : u[s] = t[s]
    BY <1>0, <2>6
  <2>8. u[id] = row
    <3>1. u[id] = [[old EXCEPT !.run = sp.run] EXCEPT !.ended = sp.ended]
      BY <1>0, <1>1, <1>2, <2>6
    <3> QED
      BY <2>1, <2>3, <3>1 DEF SpanRow
  <2>9. u \in SpanTables
    <3>1. u = [s \in SpanIds |-> u[s]]
      BY <1>0, <2>6
    <3>2. \A s \in SpanIds : u[s] \in SpanRow \cup {Nothing}
      BY <1>0, <2>4, <2>7, <2>8
    <3> QED
      BY <3>1, <3>2 DEF SpanTables
  <2>10. KeepsSpans(t, u)
    BY <1>1, <2>2, <2>4, <2>7, <2>8, <1>0 DEF KeepsSpans
  <2>11. SpanIn(u, sp)
    BY <1>0, <1>1, <2>4, <2>8 DEF SpanIn
  <2> QED
    BY <2>5, <2>6, <2>9, <2>10, <2>11
<1> QED
  BY <1>4, <1>5

\* The states of the loop.
LEMMA UpsertLoop ==
  ASSUME NEW t \in SpanTables, NEW batch \in Seq(SpanReq)
  PROVE  \E f : /\ f[0] = t
                /\ \A i \in 0 .. Len(batch) - 1 : f[i + 1] = UpsertSpan(f[i], batch[i + 1])
                /\ UpsertSpans(t, batch) = f[Len(batch)]
<1> DEFINE S == SpanTables \cup {Conflict}
           step == [x \in S \X SpanReq |-> UpsertSpan(x[1], x[2])]
           done[i \in 0 .. Len(batch)] == IF i = 0 THEN t ELSE UpsertSpan(done[i - 1], batch[i])
<1>1. ASSUME NEW a \in S, NEW b \in SpanReq PROVE UpsertSpan(a, b) \in S
  <2>1. CASE a = Conflict
    BY <2>1 DEF UpsertSpan
  <2>2. CASE a # Conflict
    BY <2>2, UpsertSpanKeeps
  <2> QED
    BY <2>1, <2>2
<1>2. step \in [S \X SpanReq -> S] /\ \A a \in S, b \in SpanReq : step[<<a, b>>] = UpsertSpan(a, b)
  BY <1>1
<1>3. t \in S
  OBVIOUS
<1> HIDE DEF step, S
<1>4. Len(batch) \in Nat /\ \A i \in 1 .. Len(batch) : batch[i] \in SpanReq
  BY SMTT(60)
<1>5. PICK f : LoopStates(S, step, t, batch, Len(batch), f)
  BY <1>2, <1>3, <1>4, LoopRuns
<1>6. f \in [0 .. Len(batch) -> S] /\ f[0] = t /\ \A i \in 1 .. Len(batch) : f[i] = step[<<f[i - 1], batch[i]>>]
  BY <1>5 DEF LoopStates
<1>7. \A i \in 1 .. Len(batch) : f[i - 1] \in S /\ batch[i] \in SpanReq
  BY SMTT(60), <1>4, <1>6
<1>8. \A i \in 1 .. Len(batch) : f[i] = UpsertSpan(f[i - 1], batch[i])
  BY <1>2, <1>6, <1>7
<1>9. f = [i \in 0 .. Len(batch) |-> IF i = 0 THEN t ELSE UpsertSpan(f[i - 1], batch[i])]
  BY SMTT(60), <1>4, <1>6, <1>8
<1>10. done = [i \in 0 .. Len(batch) |-> IF i = 0 THEN t ELSE UpsertSpan(done[i - 1], batch[i])]
  BY <1>9 DEF done
<1>11. UpsertSpans(t, batch) = done[Len(batch)]
  BY DEF UpsertSpans, done
<1> HIDE DEF done
<1>12. done[0] = t /\ \A i \in 0 .. Len(batch) - 1 : done[i + 1] = UpsertSpan(done[i], batch[i + 1])
  BY SMTT(60), <1>4, <1>10
<1> QED
  BY <1>11, <1>12

\* A batch without a conflict leaves all of its spans in their traces and runs, the
\* spans before it too.
LEMMA UpsertSpansKeeps ==
  ASSUME NEW t \in SpanTables, NEW batch \in Seq(SpanReq), UpsertSpans(t, batch) # Conflict
  PROVE  /\ UpsertSpans(t, batch) \in SpanTables
         /\ KeepsSpans(t, UpsertSpans(t, batch))
         /\ \A i \in 1 .. Len(batch) : SpanIn(UpsertSpans(t, batch), batch[i])
<1>1. PICK n : n = Len(batch)
  OBVIOUS
<1>2. n \in Nat /\ \A i \in 1 .. n : batch[i] \in SpanReq
  BY SMTT(60), <1>1
<1>3. PICK f : /\ f[0] = t
               /\ \A i \in 0 .. n - 1 : f[i + 1] = UpsertSpan(f[i], batch[i + 1])
               /\ UpsertSpans(t, batch) = f[n]
  BY SMTT(60), <1>1, UpsertLoop
<1> DEFINE Good(i) == /\ f[i] \in SpanTables /\ KeepsSpans(t, f[i])
                      /\ \A j \in 1 .. i : SpanIn(f[i], batch[j])
           P == {i \in 0 .. n : f[i] # Conflict => Good(i)}
<1>4. 0 \in P
  BY SMTT(60), <1>2, <1>3 DEF KeepsSpans
<1>5. ASSUME NEW i \in 0 .. n - 1, i \in P PROVE i + 1 \in P
  <2>1. SUFFICES ASSUME f[i + 1] # Conflict PROVE Good(i + 1)
    BY SMTT(60), <1>2
  <2>2. PICK a, b, u : a = f[i] /\ b = batch[i + 1] /\ u = f[i + 1]
    OBVIOUS
  <2>3. b \in SpanReq /\ u = UpsertSpan(a, b)
    BY SMTT(60), <1>2, <1>3, <2>2
  <2>4. a # Conflict
    BY <2>1, <2>2, <2>3 DEF UpsertSpan
  <2>5. a \in SpanTables /\ KeepsSpans(t, a) /\ \A j \in 1 .. i : SpanIn(a, batch[j])
    BY <1>5, <2>2, <2>4
  <2>6. u \in SpanTables /\ KeepsSpans(a, u) /\ SpanIn(u, b)
    BY <2>1, <2>2, <2>3, <2>5, UpsertSpanKeeps
  <2>7. KeepsSpans(t, u)
    BY <2>5, <2>6 DEF KeepsSpans
  <2>8. ASSUME NEW j \in 1 .. i + 1 PROVE SpanIn(u, batch[j])
    <3>1. CASE j = i + 1
      BY <2>2, <2>6, <3>1
    <3>2. CASE j # i + 1
      <4>1. j \in 1 .. i /\ batch[j] \in SpanReq
        BY SMTT(60), <1>2, <3>2
      <4> QED
        BY <2>5, <2>6, <4>1, SpanStays
    <3> QED
      BY <3>1, <3>2
  <2> QED
    BY <2>2, <2>6, <2>7, <2>8
<1>6. 0 \in P /\ \A i \in 0 .. n - 1 : i \in P => i + 1 \in P
  BY <1>4, <1>5
<1>7. \A i \in 0 .. n : i \in P
  <2> HIDE DEF P
  <2> QED
    BY <1>2, <1>6, UpTo
<1>8. Good(n)
  BY SMTT(60), <1>2, <1>3, <1>7
<1> QED
  BY <1>1, <1>3, <1>8

-----------------------------------------------------------------------------
(* What every step keeps.                                                   *)

\* Requests are told apart by their operation.
LEMMA Kinds ==
  ASSUME NEW q \in Requests
  PROVE  /\ q.op \in {"logMetric", "logParameter", "logBatch"} => q \in LogReqs
         /\ q.op \in {"ingestTraces", "ingestOTLP", "export"} => q \in SpanReqs
         /\ q.op = "searchRuns" => q \in SearchReqs
         /\ q.op = "history" => q \in HistoryReqs
         /\ q.op = "createRun" => q \in [op : {"createRun"}, run : Runs, start : Int]
         /\ q.op = "setStage" => q \in [op : {"setStage"}, run : Runs, stage : {"active", "deleted"}]
BY TrackingConstants DEF LogReqs, SpanReqs, SearchReqs, HistoryReqs, RunReqs

\* Params are set once, points stay, and spans stay where they are.
Grows ==
  /\ \A r \in Runs, k \in Keys : params[r][k] # Nothing => params'[r][k] = params[r][k]
  /\ \A r \in Runs : metrics[r] \subseteq metrics'[r]
  /\ KeepsSpans(spans, spans')

\* What a request logged stays logged.
LEMMA LoggedStays ==
  ASSUME Grows, NEW q \in LogReqs
  PROVE  /\ \A i \in 1 .. Len(q.params) : ParamLogged(q, i) => ParamLogged(q, i)'
         /\ PointsLogged(q) => PointsLogged(q)'
<1>0. q.run \in Runs /\ q.params \in Seq(Keys \X Values)
  BY DEF LogReqs
<1>1. ASSUME NEW i \in 1 .. Len(q.params), ParamLogged(q, i) PROVE ParamLogged(q, i)'
  <2>1. PICK kv : kv = q.params[i]
    OBVIOUS
  <2>2. kv \in Keys \X Values
    BY SMTT(60), <1>0, <2>1
  <2>3. kv[1] \in Keys /\ kv[2] \in Values /\ kv[2] # Nothing
    BY <2>2, TrackingConstants
  <2>4. params[q.run][kv[1]] = kv[2]
    BY <1>1, <2>1 DEF ParamLogged
  <2>5. params'[q.run][kv[1]] = kv[2]
    BY <1>0, <2>3, <2>4 DEF Grows
  <2> QED
    BY <2>1, <2>5 DEF ParamLogged
<1>2. PointsLogged(q) => PointsLogged(q)'
  BY <1>0 DEF Grows, PointsLogged, PointLogged
<1> QED
  BY <1>1, <1>2

\* So does what was answered.
LEMMA AnswersStay ==
  ASSUME Grows
  PROVE  /\ \A q : AckOK(q) => AckOK(q)'
         /\ \A f : RefusalOK(f) => RefusalOK(f)'
<1>1. ASSUME NEW q, AckOK(q) PROVE AckOK(q)'
  <2>1. CASE q \in LogReqs /\ PointsLogged(q) /\ \A i \in DOMAIN q.params : ParamLogged(q, i)
    <3>1. DOMAIN q.params = 1 .. Len(q.params)
      BY SMTT(60), <2>1 DEF LogReqs
    <3>2. PointsLogged(q)' /\ \A i \in DOMAIN q.params : ParamLogged(q, i)'
      BY <2>1, <3>1, LoggedStays
    <3> QED
      BY <2>1, <3>2 DEF AckOK
  <2>2. CASE q \in SpanReqs /\ \A i \in DOMAIN q.spans : SpanLogged(q.spans[i])
    <3>1. ASSUME NEW i \in DOMAIN q.spans PROVE SpanLogged(q.spans[i])'
      <4>1. PICK sp : sp = q.spans[i]
        OBVIOUS
      <4>2. sp \in SpanReq /\ SpanIn(spans, sp)
        BY SMTT(60), <2>2, <4>1 DEF SpanReqs, SpanLogged, SpanIn
      <4>3. SpanIn(spans', sp)
        BY <4>2, SpanStays DEF Grows
      <4> QED
        BY <4>1, <4>3 DEF SpanLogged, SpanIn
    <3> QED
      BY <2>2, <3>1 DEF AckOK
  <2> QED
    BY <1>1, <2>1, <2>2 DEF AckOK
<1>2. ASSUME NEW f, RefusalOK(f) PROVE RefusalOK(f)'
  <2>1. f.run \in Runs /\ f.param[1] \in Keys
    BY <1>2 DEF RefusalOK
  <2> QED
    BY <1>2, <2>1 DEF RefusalOK, Grows
<1> QED
  BY <1>1, <1>2

\* And what the goroutines have done so far.
LEMMA ServedStays ==
  ASSUME Grows, NEW r, ServedOK(r)
  PROVE  ServedOK(r)'
<1>1. ASSUME r.q \in LogReqs, Progress(r.q, r.rest) PROVE Progress(r.q, r.rest)'
  <2>1. Len(r.q.params) \in Nat /\ Len(r.rest) \in Nat
    BY SMTT(60), <1>1 DEF LogReqs, ServedOK, Served, Rests
  <2>2. \A i \in 1 .. Ahead(r.q, r.rest) : ParamLogged(r.q, i)'
    <3>1. \A i \in 1 .. Ahead(r.q, r.rest) : ParamLogged(r.q, i)
      BY <1>1 DEF Progress
    <3>2. \A i \in 1 .. Ahead(r.q, r.rest) : i \in 1 .. Len(r.q.params)
      BY SMTT(60), <2>1 DEF Ahead
    <3>3. \A i \in 1 .. Len(r.q.params) : ParamLogged(r.q, i) => ParamLogged(r.q, i)'
      BY <1>1, LoggedStays
    <3> QED
      BY <3>1, <3>2, <3>3
  <2> QED
    BY <1>1, <2>2 DEF Progress, Ahead
<1>2. ASSUME r.q \in LogReqs, PointsLogged(r.q) PROVE PointsLogged(r.q)'
  BY <1>2, LoggedStays
<1>3. ASSUME r.q \in LogReqs, r.rest # <<>>, params[r.q.run][Head(r.rest)[1]] # Nothing
      PROVE  params'[r.q.run][Head(r.rest)[1]] # Nothing
  <2>1. r.q.run \in Runs /\ Head(r.rest) \in Keys \X Values
    BY SMTT(60), <1>3 DEF LogReqs, ServedOK, Served, Rests
  <2>2. Head(r.rest)[1] \in Keys
    BY <2>1
  <2> QED
    BY <1>3, <2>1, <2>2 DEF Grows
<1> QED
  BY <1>1, <1>2, <1>3 DEF ServedOK

\* What one step of goroutine p has to bring about.
Moved(p, r) == req' = [req EXCEPT ![p] = r]
Advance(p) ==
  /\ TablesInv' /\ Grows
  /\ \E r : Moved(p, r) /\ ServedOK(r)'
  /\ \A q \in acked' : q \in acked \/ AckOK(q)'
  /\ \A f \in refused' : f \in refused \/ RefusalOK(f)'

LEMMA Advances ==
  ASSUME LoggingInv, NEW p \in Procs, Advance(p)
  PROVE  LoggingInv'
<1>1. PICK r : Moved(p, r) /\ ServedOK(r)'
  BY DEF Advance
<1>2. Grows
  BY DEF Advance
<1>3. req \in [Procs -> Served] /\ r \in Served
  BY <1>1 DEF LoggingInv, ServedInv, ServedOK
<1>4. req' \in [Procs -> Served] /\ req'[p] = r /\ \A o \in Procs \ {p} : req'[o] = req[o]
  BY <1>1, <1>3 DEF Moved
<1>5. ASSUME NEW o \in Procs PROVE ServedOK(req[o])'
  <2>1. CASE o = p
    BY <1>1, <1>4, <2>1
  <2>2. CASE o # p
    <3>1. PICK x : x = req[o]
      OBVIOUS
    <3>2. ServedOK(x)
      BY <3>1 DEF LoggingInv, ServedInv
    <3>3. ServedOK(x)'
      BY <1>2, <3>2, ServedStays
    <3>4. req'[o] = x
      BY <1>4, <2>2, <3>1
    <3> QED
      BY <3>3, <3>4
  <2> QED
    BY <2>1, <2>2
<1>6. ServedInv'
  BY <1>4, <1>5 DEF ServedInv
<1>7. AnswersInv'
  <2>1. \A q \in acked' : AckOK(q)'
    BY <1>2, AnswersStay DEF LoggingInv, AnswersInv, Advance
  <2>2. \A f \in refused' : RefusalOK(f)'
    BY <1>2, AnswersStay DEF LoggingInv, AnswersInv, Advance
  <2> QED
    BY <2>1, <2>2 DEF AnswersInv
<1> QED
  BY <1>6, <1>7 DEF LoggingInv, Advance

\* A step that leaves the tables alone.
LEMMA Quiet ==
  ASSUME TablesInv, UNCHANGED db
  PROVE  TablesInv' /\ Grows
<1>1. UNCHANGED <<runs, metrics, latest, params, spans>>
  BY DEF db
<1>2. TablesInv'
  BY <1>1 DEF TablesInv
<1>3. Grows
  BY <1>1 DEF Grows, KeepsSpans
<1> QED
  BY <1>2, <1>3

\* A request that is over.
LEMMA IdleOK == ServedOK(Idle) /\ ServedOK(Idle)'
<1>1. Idle \in Served
  BY SMTT(60) DEF Idle, Served, Pcs, Cursors, Rests
<1>2. Idle.pc = "idle"
  BY DEF Idle
<1> QED
  BY <1>1, <1>2 DEF ServedOK

LEMMA Ends ==
  ASSUME NEW p \in Procs, End(p)
  PROVE  \E r : Moved(p, r) /\ ServedOK(r)'
BY IdleOK DEF End, Moved

-----------------------------------------------------------------------------
(* The rows and the pages of a search.                                      *)

\* The columns of the ORDER BY.
KeySet(q) == IF q.op = "history" \/ q.order = "start" THEN Int \X Int ELSE Int \X Int \X Int

\* metrics_latest holds what the reduction of the history gives.
LEMMA LatestHolds ==
  ASSUME TablesInv, NEW r \in Runs
  PROVE  /\ latest[r] = Latest(metrics[r])
         /\ latest[r] = Nothing \/ latest[r].val \in Int
<1>1. PICK points, last : points = metrics[r] /\ last = latest[r]
  OBVIOUS
<1>2. TableOK([points |-> points, last |-> last])
  BY <1>1 DEF TablesInv
<1>3. points \in SUBSET PointRow /\ last \in PointRow \cup {Nothing}
  BY <1>1 DEF TablesInv
<1>4. UniquePoints(points) /\ IsLast(last, points)
  BY <1>2 DEF TableOK
<1>5. last = Latest(points)
  BY <1>3, <1>4, LatestIs
<1>6. last = Nothing \/ last.val \in Int
  BY <1>3 DEF PointRow
<1> QED
  BY <1>1, <1>5, <1>6

\* A row has one sort key, and the key has as many columns as the ORDER BY.
LEMMA MatchingIs ==
  ASSUME TablesInv, NEW q \in Requests, IsSearch(q)
  PROVE  /\ IsFiniteSet(Matching(q)) /\ KeySet(q) \in KeySets
         /\ \A m \in Matching(q) : m.key \in KeySet(q) /\ m.id \in Ids
         /\ \A m, n \in Matching(q) : m.id = n.id => m = n
<1>0. KeySet(q) \in KeySets
  BY DEF KeySet, KeySets
<1>1. CASE q.op = "history"
  <2>1. q.run \in Runs
    BY <1>1, Kinds DEF HistoryReqs
  <2>2. PICK M : M = metrics[q.run]
    OBVIOUS
  <2>3. M \subseteq PointRow /\ IsFiniteSet(M)
    BY <2>1, <2>2 DEF TablesInv, TableOK
  <2> DEFINE g == [m \in M |-> [id |-> <<m.ts, m.step>>, key |-> <<m.ts, m.step>>]]
  <2>4. g \in [M -> Matching(q)] /\ \A x \in Matching(q) : \E m \in M : x = g[m]
    BY <1>1, <2>2 DEF Matching
  <2>5. \A m \in M : g[m].id = <<m.ts, m.step>> /\ g[m].key = <<m.ts, m.step>> /\ m.ts \in Int /\ m.step \in Int
                     /\ g[m] = [id |-> g[m].id, key |-> g[m].id]
    BY <2>3 DEF PointRow
  <2> HIDE DEF g
  <2>6. IsFiniteSet(Matching(q))
    BY <2>3, <2>4, Image
  <2>7. \A x \in Matching(q) : x.key \in Int \X Int /\ x.id \in Int \X Int /\ x = [id |-> x.id, key |-> x.id]
    <3> SUFFICES ASSUME NEW x \in Matching(q)
                 PROVE  x.key \in Int \X Int /\ x.id \in Int \X Int /\ x = [id |-> x.id, key |-> x.id]
      OBVIOUS
    <3>1. PICK m \in M : x = g[m]
      BY <2>4
    <3>2. <<m.ts, m.step>> \in Int \X Int
      BY <2>5
    <3> QED
      BY <2>5, <3>1, <3>2
  <2> QED
    BY <1>0, <1>1, <2>6, <2>7 DEF KeySet, Ids
<1>2. CASE q.op = "searchRuns"
  <2>1. q.order \in {"start", "metricAsc", "metricDesc"}
    BY <1>2, Kinds DEF SearchReqs
  <2> DEFINE A == {r \in Runs : Exists(r) /\ runs[r].stage = "active"}
             g == [r \in A |-> [id |-> r, key |-> RunKey(r, q.order)]]
  <2>2. A \subseteq Runs /\ \A r \in A : runs[r] # Nothing
    BY DEF Exists
  <2>3. g \in [A -> Matching(q)] /\ \A x \in Matching(q) : \E r \in A : x = g[r]
    BY <1>2 DEF Matching
  <2>4. \A r \in A : g[r].id = r /\ g[r].key = RunKey(r, q.order)
    OBVIOUS
  <2> HIDE DEF A, g
  <2>5. IsFiniteSet(A)
    BY <2>2, TrackingConstants, FS_Subset
  <2>6. IsFiniteSet(Matching(q))
    BY <2>3, <2>5, Image
  <2>7. ASSUME NEW r \in A PROVE RunKey(r, q.order) \in KeySet(q)
    <3>1. r \in Int /\ runs[r] \in RunRow /\ r \in Runs
      BY SMTT(60), <2>2, TrackingConstants DEF TablesInv
    <3>2. runs[r].start \in Int
      BY <3>1 DEF RunRow
    <3>3. PICK m : m = Latest(metrics[r])
      OBVIOUS
    <3>4. m = Nothing \/ m.val \in Int
      BY <3>1, <3>3, LatestHolds
    <3>5. CASE q.order = "start"
      BY SMTT(60), <3>1, <3>2, <3>5 DEF RunKey, KeySet
    <3>6. CASE q.order = "metricAsc"
      <4>1. RunKey(r, q.order) = IF m = Nothing THEN <<1, 0, r>> ELSE <<0, m.val, r>>
        BY <3>3, <3>6 DEF RunKey
      <4> QED
        BY SMTT(60), <1>2, <3>1, <3>4, <3>6, <4>1 DEF KeySet
    <3>7. CASE q.order = "metricDesc"
      <4>1. RunKey(r, q.order) = IF m = Nothing THEN <<1, 0, r>> ELSE <<0, -m.val, r>>
        BY <3>3, <3>7 DEF RunKey
      <4> QED
        BY SMTT(60), <1>2, <3>1, <3>4, <3>7, <4>1 DEF KeySet
    <3> QED
      BY <2>1, <3>5, <3>6, <3>7
  <2>8. \A x \in Matching(q) : x.key \in KeySet(q) /\ x.id \in Ids
    BY SMTT(60), <2>2, <2>3, <2>4, <2>7 DEF Ids
  <2>9. \A m, n \in Matching(q) : m.id = n.id => m = n
    BY SMTT(60), <2>3, <2>4
  <2> QED
    BY <1>0, <2>6, <2>8, <2>9
<1> QED
  BY <1>1, <1>2 DEF IsSearch

\* A history as of T shows the points up to T.
InView(q, m) == q.op = "history" /\ q.asOf > 0 => m.id[1] <= q.asOf

LEMMA ShownIs ==
  ASSUME NEW q, NEW rows
  PROVE  \A i : i \in Shown(q, rows) <=> \E m \in rows : m.id = i /\ InView(q, m)
<1>1. CASE q.op = "history" /\ q.asOf > 0
  BY <1>1 DEF Shown, InView
<1>2. CASE ~(q.op = "history" /\ q.asOf > 0)
  BY <1>2 DEF Shown, InView
<1> QED
  BY <1>1, <1>2

\* A page of the rows left, and its token.
LEMMA Pages ==
  ASSUME TablesInv, NEW q \in Requests, IsSearch(q), NEW cursor,
         NEW left, left = Rest(Matching(q), cursor),
         NEW F, F = First(left, PageSize),
         NEW token, token = Token(left, PageSize)
  PROVE  /\ left \subseteq Matching(q) /\ F \subseteq left
         /\ \A m \in Matching(q) : m \in left <=> cursor = Start \/ Beyond(m.key, cursor)
         /\ token = Start => F = left
         /\ token # Start => \E m \in F : token = m.key /\ \A s \in left : s \in F <=> ~Beyond(s.key, m.key)
<1>1. /\ IsFiniteSet(Matching(q)) /\ KeySet(q) \in KeySets
      /\ \A m \in Matching(q) : m.key \in KeySet(q)
  BY MatchingIs
<1>2. left \subseteq Matching(q) /\ \A m \in Matching(q) : m \in left <=> cursor = Start \/ Beyond(m.key, cursor)
  BY DEF Rest
<1>3. IsFiniteSet(left) /\ PageSize \in Nat \ {0} /\ \A m \in left : m.key \in KeySet(q)
  BY <1>1, <1>2, FS_Subset, TrackingConstants
<1>4. /\ F \subseteq left
      /\ token = Start => F = left
      /\ token # Start => \E m \in F : token = m.key /\ \A s \in left : s \in F <=> ~Beyond(s.key, m.key)
  BY <1>1, <1>3, PageIs
<1> QED
  BY <1>2, <1>4

-----------------------------------------------------------------------------
(* Every action advances.                                                   *)

LEMMA ServedFields ==
  ASSUME LoggingInv, NEW p \in Procs
  PROVE  /\ req \in [Procs -> Served] /\ ServedOK(req[p]) /\ req[p] \in Served
         /\ req[p].pc # "idle" => req[p].q \in Requests
BY DEF LoggingInv, ServedInv, ServedOK

\* Steps that leave the tables and the answers alone.
LEMMA QuietAdvances ==
  ASSUME LoggingInv, NEW p \in Procs, UNCHANGED <<db, hist>>, \E r : Moved(p, r) /\ ServedOK(r)'
  PROVE  Advance(p)
<1>1. TablesInv' /\ Grows
  BY Quiet DEF LoggingInv
<1>2. acked' = acked /\ refused' = refused
  BY DEF hist
<1> QED
  BY <1>1, <1>2 DEF Advance

LEMMA ArriveAdvances ==
  ASSUME LoggingInv, NEW p \in Procs, Arrive(p)
  PROVE  Advance(p)
<1>1. PICK q \in Requests : req' = [req EXCEPT ![p] = [Idle EXCEPT !.pc = "serve", !.q = q]]
  BY DEF Arrive
<1>2. PICK i : i = Idle
  OBVIOUS
<1>3. PICK y, r : y = [i EXCEPT !.pc = "serve"] /\ r = [y EXCEPT !.q = q]
  OBVIOUS
<1>a. i \in Served
  BY <1>2, IdleOK DEF ServedOK
<1>b. y \in Served /\ y.pc = "serve"
  BY <1>3, <1>a DEF Served, Pcs
<1>4. r \in Served /\ r.pc = "serve" /\ r.q = q
  BY <1>3, <1>b DEF Served
<1>c. r = [Idle EXCEPT !.pc = "serve", !.q = q]
  BY <1>2, <1>3
<1>5. ServedOK(r)'
  BY <1>4 DEF ServedOK
<1>6. Moved(p, r)
  BY <1>1, <1>c DEF Moved
<1> QED
  BY <1>5, <1>6, QuietAdvances DEF Arrive

\* A statement on the runs.
LEMMA RunsAdvance ==
  ASSUME LoggingInv, NEW p \in Procs, End(p), runs' \in [Runs -> RunRow \cup {Nothing}],
         UNCHANGED <<metrics, latest, params, spans, ops, hist>>
  PROVE  Advance(p)
<1>1. UNCHANGED <<metrics, latest, params, spans, acked, refused>>
  BY DEF hist
<1>2. TablesInv'
  BY <1>1 DEF LoggingInv, TablesInv
<1>3. Grows
  BY <1>1 DEF Grows, KeepsSpans
<1> QED
  BY <1>1, <1>2, <1>3, Ends DEF Advance

LEMMA CreateRunAdvances ==
  ASSUME LoggingInv, NEW p \in Procs, CreateRun(p)
  PROVE  Advance(p)
<1>1. PICK q : q = req[p].q
  OBVIOUS
<1>2. req[p].pc # "idle" /\ q.op = "createRun"
  BY <1>1 DEF CreateRun, Serving, At
<1>3. q.run \in Runs /\ q.start \in Int
  BY <1>1, <1>2, ServedFields, Kinds
<1>4. [start |-> q.start, stage |-> "active"] \in RunRow
  BY <1>3 DEF RunRow
<1>5. runs' = IF Exists(q.run) THEN runs ELSE [runs EXCEPT ![q.run] = [start |-> q.start, stage |-> "active"]]
  BY <1>1 DEF CreateRun
<1>6. runs' \in [Runs -> RunRow \cup {Nothing}]
  BY <1>3, <1>4, <1>5 DEF LoggingInv, TablesInv
<1> QED
  BY <1>6, RunsAdvance DEF CreateRun

LEMMA SetRunLifecycleAdvances ==
  ASSUME LoggingInv, NEW p \in Procs, SetRunLifecycle(p)
  PROVE  Advance(p)
<1>1. PICK q : q = req[p].q
  OBVIOUS
<1>2. req[p].pc # "idle" /\ q.op = "setStage"
  BY <1>1 DEF SetRunLifecycle, Serving, At
<1>3. q.run \in Runs /\ q.stage \in {"active", "deleted"}
  BY <1>1, <1>2, ServedFields, Kinds
<1>4. runs' = IF Exists(q.run) THEN [runs EXCEPT ![q.run].stage = q.stage] ELSE runs
  BY <1>1 DEF SetRunLifecycle
<1>5. runs' \in [Runs -> RunRow \cup {Nothing}]
  <2>1. CASE ~Exists(q.run)
    BY <1>4, <2>1 DEF LoggingInv, TablesInv
  <2>2. CASE Exists(q.run)
    <3>1. runs[q.run] \in RunRow /\ runs \in [Runs -> RunRow \cup {Nothing}]
      BY <1>3, <2>2 DEF Exists, LoggingInv, TablesInv
    <3>2. PICK row : row = [runs[q.run] EXCEPT !.stage = q.stage]
      OBVIOUS
    <3>3. row \in RunRow
      BY <1>3, <3>1, <3>2 DEF RunRow
    <3>4. runs' = [runs EXCEPT ![q.run] = row]
      BY <1>3, <1>4, <2>2, <3>1, <3>2
    <3> QED
      BY <1>3, <3>1, <3>3, <3>4
  <2> QED
    BY <2>1, <2>2
<1> QED
  BY <1>5, RunsAdvance DEF SetRunLifecycle

\* Going on with the params.
SetRest(p, pc, rest) == req' = [req EXCEPT ![p].pc = pc, ![p].rest = rest]

LEMMA RestMoves ==
  ASSUME LoggingInv, NEW p \in Procs, NEW x, x = req[p], NEW pc, NEW rest, SetRest(p, pc, rest)
  PROVE  \E r : /\ Moved(p, r) /\ r.pc = pc /\ r.rest = rest /\ r.q = x.q
                /\ pc \in Pcs /\ rest \in Rests => r \in Served
<1>1. x \in Served /\ req \in [Procs -> Served]
  BY ServedFields
<1>2. PICK y : y = [x EXCEPT !.pc = pc]
  OBVIOUS
<1>3. PICK r : r = [y EXCEPT !.rest = rest]
  OBVIOUS
<1>4. y.pc = pc /\ y.q = x.q /\ (pc \in Pcs => y \in Served)
  BY <1>1, <1>2 DEF Served
<1>5. r = [x EXCEPT !.pc = pc, !.rest = rest]
  BY <1>2, <1>3
<1>6. r.pc = pc /\ r.rest = rest /\ r.q = x.q
  BY <1>1, <1>5 DEF Served
<1>7. y \in Served /\ rest \in Rests => r \in Served
  BY <1>3 DEF Served
<1>8. Moved(p, r)
  BY <1>1, <1>5 DEF Moved, SetRest
<1> QED
  BY <1>4, <1>6, <1>7, <1>8

LEMMA FindRunAdvances ==
  ASSUME LoggingInv, NEW p \in Procs, FindRun(p),
         req[p].pc = "serve", req[p].q.op \in {"logMetric", "logParameter", "logBatch"}
  PROVE  Advance(p)
<1>1. PICK x, q : x = req[p] /\ q = x.q
  OBVIOUS
<1>2. x \in Served /\ q \in Requests /\ req \in [Procs -> Served]
  BY <1>1, ServedFields
<1>3. q \in LogReqs /\ q.params \in Seq(Keys \X Values)
  BY <1>1, <1>2, Kinds DEF LogReqs
<1>4. UNCHANGED <<db, hist>>
  BY DEF FindRun
<1>5. CASE End(p)
  BY <1>4, <1>5, Ends, QuietAdvances
<1>6. CASE req' = [req EXCEPT ![p].pc = "metrics", ![p].rest = req[p].q.params]
  <2>0. PICK pc, rest : pc = "metrics" /\ rest = q.params
    OBVIOUS
  <2>1. SetRest(p, pc, rest)
    BY <1>1, <1>6, <2>0 DEF SetRest
  <2>a. PICK r : /\ Moved(p, r) /\ r.pc = pc /\ r.rest = rest /\ r.q = x.q
                 /\ pc \in Pcs /\ rest \in Rests => r \in Served
    BY SMTT(60), <1>1, <2>1, RestMoves
  <2>2. /\ Moved(p, r) /\ r.pc = "metrics" /\ r.rest = q.params /\ r.q = q
        /\ "metrics" \in Pcs /\ q.params \in Rests => r \in Served
    BY <1>1, <2>0, <2>a
  <2>3. Moved(p, r)
    BY <2>2
  <2>4. r \in Served
    BY <1>3, <2>2 DEF Pcs, Rests
  <2>5. Progress(q, q.params)'
    <3>1. Ahead(q, q.params) = 0
      BY SMTT(60), <1>3 DEF Ahead
    <3>2. \A i \in 1 .. Len(q.params) : q.params[i] = q.params[0 + i]
      BY SMTT(60), <1>3
    <3> QED
      BY SMTT(60), <3>1, <3>2 DEF Progress, Ahead
  <2>6. ServedOK(r)'
    BY <1>2, <1>3, <2>2, <2>4, <2>5 DEF ServedOK
  <2> QED
    BY <1>4, <2>3, <2>6, QuietAdvances
<1> QED
  BY <1>5, <1>6 DEF FindRun

LEMMA PcMoves ==
  ASSUME LoggingInv, NEW p \in Procs, NEW x, x = req[p], NEW pc, Goto(p, pc)
  PROVE  \E r : /\ Moved(p, r) /\ r.pc = pc /\ r.rest = x.rest /\ r.q = x.q
                /\ pc \in Pcs => r \in Served
<1>1. x \in Served /\ req \in [Procs -> Served]
  BY ServedFields
<1>2. PICK r : r = [x EXCEPT !.pc = pc]
  OBVIOUS
<1>4. Moved(p, r)
  BY <1>1, <1>2 DEF Moved, Goto
<1>5. pc \in Pcs => r \in Served
  BY <1>1, <1>2 DEF Served
<1>6. r.pc = pc /\ r.rest = x.rest /\ r.q = x.q
  BY <1>1, <1>2 DEF Served
<1> QED
  BY <1>4, <1>5, <1>6

\* The timestamps the server assigns leave the points what they are otherwise.
LEMMA StampedIs ==
  ASSUME NEW batch \in Seq(PointReq), \A i \in DOMAIN batch : batch[i].val # NaN, NEW now \in [DOMAIN batch -> Times],
         NEW s, s = Stamped(batch, now)
  PROVE  /\ s \in Seq(PointRow) /\ Len(s) = Len(batch)
         /\ \A i \in DOMAIN batch : batch[i].ts \in {0, s[i].ts} /\ s[i].step = batch[i].step
<1>1. DOMAIN batch = 1 .. Len(batch) /\ Len(batch) \in Nat
  BY SMTT(60)
<1>2. \A i \in DOMAIN batch : now[i] \in Int
  <2>1. Times \subseteq Int
    BY SMTT(60), TrackingConstants
  <2> QED
    BY <2>1
<1>3. ASSUME NEW i \in DOMAIN batch
      PROVE  s[i] \in PointRow /\ batch[i].ts \in {0, s[i].ts} /\ s[i].step = batch[i].step
  <2>1. PICK b : b = batch[i]
    OBVIOUS
  <2>2. b \in PointReq /\ b.val # NaN
    BY SMTT(60), <2>1
  <2>3. s[i] = IF b.ts = 0 THEN [b EXCEPT !.ts = now[i]] ELSE b
    BY <2>1 DEF Stamped
  <2>4. CASE b.ts = 0
    <3>1. s[i] = [b EXCEPT !.ts = now[i]]
      BY <2>3, <2>4
    <3> QED
      BY <1>2, <2>1, <2>2, <2>4, <3>1 DEF PointReq, PointRow
  <2>5. CASE b.ts # 0
    BY <2>1, <2>2, <2>3, <2>5 DEF PointReq, PointRow
  <2> QED
    BY <2>4, <2>5
<1>4. s \in [1 .. Len(batch) -> PointRow]
  <2>1. s = [i \in 1 .. Len(batch) |-> s[i]]
    BY <1>1 DEF Stamped
  <2> QED
    BY <1>1, <1>3, <2>1
<1>5. s \in Seq(PointRow) /\ Len(s) = Len(batch)
  BY SMTT(60), <1>1, <1>4
<1> QED
  BY <1>3, <1>5

LEMMA LogMetricsAdvances ==
  ASSUME LoggingInv, NEW p \in Procs, LogMetrics(p)
  PROVE  Advance(p)
<1>1. PICK x, q : x = req[p] /\ q = x.q
  OBVIOUS
<1>2. x.pc = "metrics" /\ ServedOK(x) /\ q \in LogReqs /\ Progress(q, x.rest)
  BY <1>1, ServedFields DEF LogMetrics, At, ServedOK
<1>3. q.run \in Runs /\ q.metrics \in Seq(PointReq)
  BY <1>2 DEF LogReqs
<1>4. UNCHANGED <<runs, params, spans, acked, refused>>
  BY DEF LogMetrics, hist
<1>5. CASE End(p) /\ UNCHANGED <<metrics, latest>>
  <2>1. UNCHANGED <<db, hist>>
    BY <1>4, <1>5 DEF db, hist
  <2> QED
    BY <1>5, <2>1, Ends, QuietAdvances
<1>6. CASE ~\E i \in DOMAIN q.metrics : q.metrics[i].val = NaN
  <2>1. PICK batch, table : batch = q.metrics /\ table = [points |-> metrics[q.run], last |-> latest[q.run]]
    OBVIOUS
  <2>2. PICK now \in [DOMAIN batch -> Times] :
          /\ metrics' = [metrics EXCEPT ![q.run] = InsertPoints(table, Stamped(batch, now)).points]
          /\ latest' = [latest EXCEPT ![q.run] = InsertPoints(table, Stamped(batch, now)).last]
          /\ Goto(p, "params")
    BY <1>1, <1>6, <2>1 DEF LogMetrics
  <2>3. PICK s : s = Stamped(batch, now)
    OBVIOUS
  <2>4. PICK done : done = InsertPoints(table, s)
    OBVIOUS
  <2>5. metrics' = [metrics EXCEPT ![q.run] = done.points] /\ latest' = [latest EXCEPT ![q.run] = done.last]
        /\ Goto(p, "params")
    BY <2>2, <2>3, <2>4
  <2>6. /\ s \in Seq(PointRow) /\ Len(s) = Len(batch)
        /\ \A i \in DOMAIN batch : batch[i].ts \in {0, s[i].ts} /\ s[i].step = batch[i].step
    BY SMTT(60), <1>3, <1>6, <2>1, <2>3, StampedIs
  <2>7. TableOK(table) /\ table.points = metrics[q.run]
    BY <1>3, <2>1 DEF LoggingInv, TablesInv
  <2>8. /\ TableOK(done) /\ table.points \subseteq done.points
        /\ \A i \in 1 .. Len(s) : \E m \in done.points : m.ts = s[i].ts /\ m.step = s[i].step
    BY <2>4, <2>6, <2>7, InsertPointsKeeps
  <2>9. done \in Tables /\ done.points \in SUBSET PointRow /\ done.last \in PointRow \cup {Nothing}
        /\ done = [points |-> done.points, last |-> done.last]
    BY <2>8 DEF TableOK, Tables
  <2>10. metrics \in [Runs -> SUBSET PointRow] /\ latest \in [Runs -> PointRow \cup {Nothing}]
    BY DEF LoggingInv, TablesInv
  <2>11. /\ metrics' \in [Runs -> SUBSET PointRow] /\ latest' \in [Runs -> PointRow \cup {Nothing}]
         /\ metrics'[q.run] = done.points /\ latest'[q.run] = done.last
         /\ \A r \in Runs \ {q.run} : metrics'[r] = metrics[r] /\ latest'[r] = latest[r]
    BY <1>3, <2>5, <2>9, <2>10
  <2>12. ASSUME NEW r \in Runs PROVE TableOK([points |-> metrics'[r], last |-> latest'[r]])
    <3>1. CASE r = q.run
      BY <2>8, <2>9, <2>11, <3>1
    <3>2. CASE r # q.run
      BY <2>11, <3>2 DEF LoggingInv, TablesInv
    <3> QED
      BY <3>1, <3>2
  <2>13. TablesInv'
    BY <1>4, <2>11, <2>12 DEF LoggingInv, TablesInv
  <2>14. Grows
    <3>1. \A r \in Runs : metrics[r] \subseteq metrics'[r]
      BY <2>7, <2>8, <2>11
    <3> QED
      BY <1>4, <3>1 DEF Grows, KeepsSpans
  <2>15. PICK r : /\ Moved(p, r) /\ r.pc = "params" /\ r.rest = x.rest /\ r.q = x.q
                  /\ "params" \in Pcs => r \in Served
    BY SMTT(60), <1>1, <2>5, PcMoves
  <2>16. PointsLogged(q)'
    <3> SUFFICES ASSUME NEW i \in DOMAIN q.metrics
                 PROVE  \E m \in metrics'[q.run] : q.metrics[i].ts \in {0, m.ts} /\ m.step = q.metrics[i].step
      BY DEF PointsLogged, PointLogged
    <3>1. i \in DOMAIN batch /\ i \in 1 .. Len(s)
      BY SMTT(60), <1>3, <2>1, <2>6
    <3>2. PICK m \in done.points : m.ts = s[i].ts /\ m.step = s[i].step
      BY <2>8, <3>1
    <3> QED
      BY <2>1, <2>6, <2>11, <3>1, <3>2
  <2>17. ServedOK(x)'
    BY <1>2, <2>14, ServedStays
  <2>18. Progress(q, x.rest)'
    BY <1>1, <1>2, <2>17 DEF ServedOK
  <2>19. ServedOK(r)'
    <3>1. r \in Served
      BY <2>15 DEF Pcs
    <3>2. r.q \in Requests
      BY <1>1, <1>2, <2>15, ServedFields
    <3> QED
      BY <1>1, <1>2, <2>15, <2>16, <2>18, <3>1, <3>2 DEF ServedOK
  <2> QED
    BY <1>4, <2>13, <2>14, <2>15, <2>19 DEF Advance
<1> QED
  BY <1>1, <1>5, <1>6 DEF LogMetrics

SetTail(p, rest) == req' = [req EXCEPT ![p].rest = rest]

LEMMA TailMoves ==
  ASSUME LoggingInv, NEW p \in Procs, NEW x, x = req[p], NEW rest, SetTail(p, rest)
  PROVE  \E r : /\ Moved(p, r) /\ r.pc = x.pc /\ r.rest = rest /\ r.q = x.q
                /\ rest \in Rests => r \in Served
<1>1. x \in Served /\ req \in [Procs -> Served]
  BY ServedFields
<1>2. PICK r : r = [x EXCEPT !.rest = rest]
  OBVIOUS
<1>3. Moved(p, r)
  BY <1>1, <1>2 DEF Moved, SetTail
<1>4. rest \in Rests => r \in Served
  BY <1>1, <1>2 DEF Served
<1>5. r.pc = x.pc /\ r.rest = rest /\ r.q = x.q
  BY <1>1, <1>2 DEF Served
<1> QED
  BY <1>3, <1>4, <1>5

\* The next param is logged.
LEMMA ProgressStep ==
  ASSUME NEW q \in LogReqs, NEW rest \in Rests, rest # <<>>, Progress(q, rest)',
         params'[q.run][Head(rest)[1]] = Head(rest)[2]
  PROVE  Progress(q, Tail(rest))' /\ Tail(rest) \in Rests
<1>1. q.params \in Seq(Keys \X Values) /\ rest \in Seq(Keys \X Values)
  BY DEF LogReqs, Rests
<1>2. PICK n, a, t : n = Len(rest) /\ a = Ahead(q, rest) /\ t = Tail(rest)
  OBVIOUS
<1>3. /\ n \in Nat \ {0} /\ Len(t) = n - 1 /\ t \in Rests /\ Head(rest) = rest[1]
      /\ \A i \in 1 .. n - 1 : t[i] = rest[i + 1]
  BY SMTT(60), <1>1, <1>2 DEF Rests
<1>4. /\ a \in Nat /\ \A i \in 1 .. n : rest[i] = q.params[a + i]
      /\ \A i \in 1 .. a : ParamLogged(q, i)'
  BY <1>2 DEF Progress, Ahead
<1>5. Ahead(q, t) = a + 1
  BY SMTT(60), <1>1, <1>2, <1>3 DEF Ahead
<1>6. ASSUME NEW i \in 1 .. n - 1 PROVE t[i] = q.params[(a + 1) + i]
  <2>1. i + 1 \in 1 .. n /\ a + (i + 1) = (a + 1) + i
    BY SMTT(60), <1>3, <1>4
  <2>2. t[i] = rest[i + 1] /\ rest[i + 1] = q.params[a + (i + 1)]
    BY <1>3, <1>4, <2>1
  <2> QED
    BY <2>1, <2>2
<1>7. ParamLogged(q, a + 1)'
  <2>1. rest[1] = q.params[a + 1]
    BY SMTT(60), <1>3, <1>4
  <2> QED
    BY <1>3, <2>1 DEF ParamLogged
<1>8. \A i \in 1 .. a + 1 : ParamLogged(q, i)'
  <2> SUFFICES ASSUME NEW i \in 1 .. a + 1 PROVE ParamLogged(q, i)'
    OBVIOUS
  <2>1. CASE i = a + 1
    BY <1>7, <2>1
  <2>2. CASE i # a + 1
    <3>1. i \in 1 .. a
      BY SMTT(60), <1>4, <2>2
    <3> QED
      BY <1>4, <3>1
  <2> QED
    BY <2>1, <2>2
<1>9. Progress(q, t)'
  <2>1. a + 1 \in Nat
    BY SMTT(60), <1>4
  <2>2. \A i \in 1 .. Len(t) : t[i] = q.params[Ahead(q, t) + i]
    BY <1>3, <1>5, <1>6
  <2>3. \A i \in 1 .. Ahead(q, t) : ParamLogged(q, i)'
    BY <1>5, <1>8
  <2>4. Ahead(q, t) \in Nat
    BY <1>5, <2>1
  <2> QED
    BY <2>2, <2>3, <2>4 DEF Progress, Ahead
<1> QED
  BY <1>2, <1>3, <1>9

\* A goroutine that logs params goes on to the next one.
LEMMA NextParam ==
  ASSUME LoggingInv, NEW p \in Procs, Grows, NEW x, x = req[p], x.pc \in {"params", "compare"}, x.rest # <<>>,
         params'[x.q.run][Head(x.rest)[1]] = Head(x.rest)[2],
         NEW r, r.pc = "params", r.rest = Tail(x.rest), r.q = x.q, r.rest \in Rests => r \in Served
  PROVE  ServedOK(r)'
<1>1. PICK q, rest : q = x.q /\ rest = x.rest
  OBVIOUS
<1>2. ServedOK(x) /\ q \in LogReqs /\ rest \in Rests /\ q \in Requests
  BY <1>1, ServedFields DEF ServedOK, Served
<1>3. ServedOK(x)'
  BY <1>2, ServedStays
<1>4. Progress(q, rest)' /\ PointsLogged(q)'
  BY <1>1, <1>3 DEF ServedOK
<1>5. Progress(q, Tail(rest))' /\ Tail(rest) \in Rests
  BY <1>1, <1>2, <1>4, ProgressStep
<1>6. r \in Served
  BY <1>1, <1>5
<1> QED
  BY <1>1, <1>2, <1>4, <1>5, <1>6 DEF ServedOK

LEMMA LogParamAdvances ==
  ASSUME LoggingInv, NEW p \in Procs, LogParam(p)
  PROVE  Advance(p)
<1>1. PICK x, q, kv : x = req[p] /\ q = x.q /\ kv = Head(x.rest)
  OBVIOUS
<1>2. x.pc = "params" /\ x.rest # <<>>
  BY <1>1 DEF LogParam, At
<1>3. ServedOK(x) /\ q \in LogReqs /\ x.rest \in Seq(Keys \X Values) /\ q \in Requests
  BY <1>1, <1>2, ServedFields DEF ServedOK, Served, Rests
<1>4. kv \in Keys \X Values /\ q.run \in Runs
  BY SMTT(60), <1>1, <1>2, <1>3 DEF LogReqs
<1>5. kv[1] \in Keys /\ kv[2] \in Values
  BY <1>4
<1>6. UNCHANGED <<runs, metrics, latest, spans, acked, refused>>
  BY DEF LogParam, hist
<1>7. CASE params[q.run][kv[1]] = Nothing
  <2>1. params' = [params EXCEPT ![q.run][kv[1]] = kv[2]] /\ req' = [req EXCEPT ![p].rest = Tail(x.rest)]
    BY <1>1, <1>7 DEF LogParam
  <2>2. params \in [Runs -> [Keys -> Values \cup {Nothing}]]
    BY DEF LoggingInv, TablesInv
  <2>3. PICK f : f = [params[q.run] EXCEPT ![kv[1]] = kv[2]]
    OBVIOUS
  <2>4. params' = [params EXCEPT ![q.run] = f]
    BY <2>1, <2>3
  <2>5. f \in [Keys -> Values \cup {Nothing}] /\ f[kv[1]] = kv[2] /\ \A k \in Keys \ {kv[1]} : f[k] = params[q.run][k]
    BY <1>4, <1>5, <2>2, <2>3
  <2>6. /\ params' \in [Runs -> [Keys -> Values \cup {Nothing}]] /\ params'[q.run] = f
        /\ \A r \in Runs \ {q.run} : params'[r] = params[r]
    BY <1>4, <2>2, <2>4, <2>5
  <2>7. TablesInv'
    BY <1>6, <2>6 DEF LoggingInv, TablesInv
  <2>8. Grows
    <3>1. \A r \in Runs, k \in Keys : params[r][k] # Nothing => params'[r][k] = params[r][k]
      BY <1>7, <2>5, <2>6
    <3> QED
      BY <1>6, <3>1 DEF Grows, KeepsSpans
  <2>9. PICK rest : rest = Tail(x.rest)
    OBVIOUS
  <2>a. SetTail(p, rest)
    BY <2>1, <2>9 DEF SetTail
  <2>10. PICK r : Moved(p, r) /\ r.pc = x.pc /\ r.rest = rest /\ r.q = x.q /\ (rest \in Rests => r \in Served)
    BY SMTT(60), <1>1, <2>a, TailMoves
  <2>11. params'[x.q.run][Head(x.rest)[1]] = Head(x.rest)[2]
    BY <1>1, <2>5, <2>6
  <2>12. ServedOK(r)'
    BY <1>1, <1>2, <2>8, <2>9, <2>10, <2>11, NextParam
  <2> QED
    BY <1>6, <2>7, <2>8, <2>10, <2>12 DEF Advance
<1>8. CASE params[q.run][kv[1]] # Nothing
  <2>1. Goto(p, "compare") /\ UNCHANGED params
    BY <1>1, <1>8 DEF LogParam
  <2>2. UNCHANGED <<db, hist>>
    BY <1>6, <2>1 DEF db, hist
  <2>3. PICK r : Moved(p, r) /\ r.pc = "compare" /\ r.rest = x.rest /\ r.q = x.q /\ ("compare" \in Pcs => r \in Served)
    BY SMTT(60), <1>1, <2>1, PcMoves
  <2>4. r \in Served
    BY <2>3 DEF Pcs
  <2>5. Grows
    BY <2>2, Quiet DEF LoggingInv
  <2>6. ServedOK(x)'
    BY <1>3, <2>5, ServedStays
  <2>7. Progress(q, x.rest)' /\ PointsLogged(q)'
    BY <1>1, <1>2, <2>6 DEF ServedOK
  <2>8. ServedOK(r)'
    BY <1>1, <1>2, <1>3, <1>8, <2>1, <2>3, <2>4, <2>7 DEF ServedOK
  <2> QED
    BY <2>2, <2>3, <2>8, QuietAdvances
<1> QED
  BY <1>7, <1>8

LEMMA CompareParamAdvances ==
  ASSUME LoggingInv, NEW p \in Procs, CompareParam(p)
  PROVE  Advance(p)
<1>1. PICK x, q, kv : x = req[p] /\ q = x.q /\ kv = Head(x.rest)
  OBVIOUS
<1>2. x.pc = "compare" /\ UNCHANGED db /\ UNCHANGED acked
  BY <1>1 DEF CompareParam, At
<1>3. /\ ServedOK(x) /\ q \in LogReqs /\ x.rest \in Seq(Keys \X Values) /\ x.rest # <<>>
      /\ params[q.run][kv[1]] # Nothing
  BY <1>1, <1>2, ServedFields DEF ServedOK, Served, Rests
<1>4. kv \in Keys \X Values /\ q.run \in Runs
  BY SMTT(60), <1>1, <1>3 DEF LogReqs
<1>5. TablesInv' /\ Grows /\ params' = params
  BY <1>2, Quiet DEF LoggingInv, db
<1>6. CASE params[q.run][kv[1]] = kv[2]
  <2>1. PICK pc, rest : pc = "params" /\ rest = Tail(x.rest)
    OBVIOUS
  <2>2. SetRest(p, pc, rest) /\ refused' = refused
    BY <1>1, <1>6, <2>1 DEF CompareParam, SetRest
  <2>3. PICK r : /\ Moved(p, r) /\ r.pc = pc /\ r.rest = rest /\ r.q = x.q
                 /\ pc \in Pcs /\ rest \in Rests => r \in Served
    BY SMTT(60), <1>1, <2>2, RestMoves
  <2>4. pc \in Pcs
    BY <2>1 DEF Pcs
  <2>5. params'[x.q.run][Head(x.rest)[1]] = Head(x.rest)[2]
    BY <1>1, <1>5, <1>6
  <2>6. ServedOK(r)'
    BY <1>1, <1>2, <1>3, <1>5, <2>1, <2>3, <2>4, <2>5, NextParam
  <2> QED
    BY <1>2, <1>5, <2>2, <2>3, <2>6 DEF Advance
<1>7. CASE params[q.run][kv[1]] # kv[2]
  <2>1. PICK f : f = [run |-> q.run, param |-> kv]
    OBVIOUS
  <2>2. End(p) /\ refused' = refused \cup {f}
    BY <1>1, <1>7, <2>1 DEF CompareParam
  <2>3. RefusalOK(f)'
    BY <1>3, <1>4, <1>5, <1>7, <2>1 DEF RefusalOK
  <2> QED
    BY <1>2, <1>5, <2>2, <2>3, Ends DEF Advance
<1> QED
  BY <1>6, <1>7

LEMMA LogTagsAdvances ==
  ASSUME LoggingInv, NEW p \in Procs, LogTags(p)
  PROVE  Advance(p)
<1>1. PICK x, q : x = req[p] /\ q = x.q
  OBVIOUS
<1>2. x.pc = "params" /\ x.rest = <<>> /\ UNCHANGED db /\ refused' = refused /\ End(p) /\ acked' = acked \cup {q}
  BY <1>1 DEF LogTags, At, Ack
<1>3. ServedOK(x) /\ q \in LogReqs
  BY <1>1, <1>2, ServedFields DEF ServedOK
<1>4. TablesInv' /\ Grows
  BY <1>2, Quiet DEF LoggingInv
<1>5. ServedOK(x)'
  BY <1>3, <1>4, ServedStays
<1>6. Progress(q, <<>>)' /\ PointsLogged(q)'
  BY <1>1, <1>2, <1>5 DEF ServedOK
<1>7. Len(q.params) \in Nat /\ DOMAIN q.params = 1 .. Len(q.params)
  BY SMTT(60), <1>3 DEF LogReqs
<1>8. Ahead(q, <<>>) = Len(q.params)
  BY SMTT(60), <1>7 DEF Ahead
<1>9. \A i \in DOMAIN q.params : ParamLogged(q, i)'
  BY <1>6, <1>7, <1>8 DEF Progress, Ahead
<1>10. AckOK(q)'
  BY <1>3, <1>6, <1>9 DEF AckOK
<1> QED
  BY <1>2, <1>4, <1>10, Ends DEF Advance

LEMMA FindSpanRunsAdvances ==
  ASSUME LoggingInv, NEW p \in Procs, FindSpanRuns(p),
         req[p].pc = "serve", req[p].q.op \in {"ingestTraces", "ingestOTLP", "export"}
  PROVE  Advance(p)
<1>1. PICK x : x = req[p]
  OBVIOUS
<1>2. x.q \in Requests /\ x.q \in SpanReqs
  BY <1>1, ServedFields, Kinds
<1>3. UNCHANGED <<db, hist>>
  BY DEF FindSpanRuns
<1>4. CASE End(p)
  BY <1>3, <1>4, Ends, QuietAdvances
<1>5. CASE Goto(p, "insert")
  <2>1. PICK r : Moved(p, r) /\ r.pc = "insert" /\ r.rest = x.rest /\ r.q = x.q /\ ("insert" \in Pcs => r \in Served)
    BY SMTT(60), <1>1, <1>5, PcMoves
  <2>2. r \in Served
    BY <2>1 DEF Pcs
  <2>3. ServedOK(r)'
    BY <1>2, <2>1, <2>2 DEF ServedOK
  <2> QED
    BY <1>3, <2>1, <2>3, QuietAdvances
<1> QED
  BY <1>4, <1>5 DEF FindSpanRuns

LEMMA InsertSpansAdvances ==
  ASSUME LoggingInv, NEW p \in Procs, InsertSpans(p)
  PROVE  Advance(p)
<1>1. PICK q, done : q = req[p].q /\ done = UpsertSpans(spans, q.spans)
  OBVIOUS
<1>2. req[p].pc = "insert" /\ UNCHANGED <<runs, metrics, latest, params, refused>>
  BY DEF InsertSpans, At
<1>3. q \in SpanReqs /\ q.spans \in Seq(SpanReq)
  BY <1>1, <1>2, ServedFields DEF ServedOK, SpanReqs
<1>4. spans \in SpanTables
  BY DEF LoggingInv, TablesInv, SpanTables
<1>5. CASE done = Conflict
  <2>1. End(p) /\ UNCHANGED <<spans, acked>>
    BY <1>1, <1>5 DEF InsertSpans
  <2>2. UNCHANGED <<db, hist>>
    BY <1>2, <2>1 DEF db, hist
  <2> QED
    BY <2>1, <2>2, Ends, QuietAdvances
<1>6. CASE done # Conflict
  <2>1. End(p) /\ acked' = acked \cup {q} /\ spans' = done
    BY <1>1, <1>6 DEF InsertSpans, Ack
  <2>2. done \in SpanTables /\ KeepsSpans(spans, done) /\ \A i \in 1 .. Len(q.spans) : SpanIn(done, q.spans[i])
    BY <1>1, <1>3, <1>4, <1>6, UpsertSpansKeeps
  <2>3. TablesInv'
    BY <1>2, <2>1, <2>2 DEF LoggingInv, TablesInv, SpanTables
  <2>4. Grows
    BY <1>2, <2>1, <2>2 DEF Grows
  <2>5. AckOK(q)'
    <3>1. \A i \in DOMAIN q.spans : SpanLogged(q.spans[i])'
      BY SMTT(60), <1>3, <2>1, <2>2 DEF SpanIn, SpanLogged
    <3> QED
      BY <1>3, <3>1 DEF AckOK
  <2> QED
    BY <1>2, <2>1, <2>3, <2>4, <2>5, Ends DEF Advance
<1> QED
  BY <1>5, <1>6

\* What a page does to its request.
LEMMA PageMoves ==
  ASSUME LoggingInv, NEW p \in Procs, SearchPage(p), NEW x, x = req[p],
         NEW left, left = Rest(Matching(x.q), x.cursor),
         NEW page, page = Shown(x.q, First(left, PageSize)),
         NEW token, token = Token(left, PageSize)
  PROVE  \E r : /\ Moved(p, r) /\ r.q = x.q
                /\ r.pc = (IF token = Start THEN "searched" ELSE "page") /\ r.cursor = token
                /\ r.out = x.out \cup page /\ r.twice = x.twice \cup (x.out \cap page)
                /\ page \subseteq Ids /\ token \in Cursors => r \in Served
<1>1. x \in Served /\ req \in [Procs -> Served]
  BY ServedFields
<1>2. PICK pc, out, twice : /\ pc = IF token = Start THEN "searched" ELSE "page"
                            /\ out = x.out \cup page /\ twice = x.twice \cup (x.out \cap page)
  OBVIOUS
<1>3. req' = [req EXCEPT ![p].pc = pc, ![p].cursor = token, ![p].out = out, ![p].twice = twice]
  BY <1>2 DEF SearchPage
<1>4. PICK a : a = [x EXCEPT !.pc = pc]
  OBVIOUS
<1>5. PICK b : b = [a EXCEPT !.cursor = token]
  OBVIOUS
<1>6. PICK c : c = [b EXCEPT !.out = out]
  OBVIOUS
<1>7. PICK r : r = [c EXCEPT !.twice = twice]
  OBVIOUS
<1>8. pc \in Pcs
  BY <1>2 DEF Pcs
<1>9. r = [x EXCEPT !.pc = pc, !.cursor = token, !.out = out, !.twice = twice]
  BY <1>4, <1>5, <1>6, <1>7
<1>10. r.pc = pc /\ r.cursor = token /\ r.out = out /\ r.twice = twice /\ r.q = x.q
  BY <1>1, <1>9 DEF Served
<1>11. Moved(p, r)
  <2>1. req' = [req EXCEPT ![p] = [x EXCEPT !.pc = pc, !.cursor = token, !.out = out, !.twice = twice]]
    BY <1>1, <1>3
  <2> QED
    BY <1>9, <2>1 DEF Moved
<1>12. ASSUME page \subseteq Ids, token \in Cursors PROVE r \in Served
  <2>1. a \in Served /\ a.out = x.out /\ a.twice = x.twice
    BY <1>1, <1>4, <1>8 DEF Served
  <2>2. b \in Served
    BY <1>5, <1>12, <2>1 DEF Served
  <2>3. out \in SUBSET Ids /\ twice \in SUBSET Ids
    BY <1>1, <1>2, <1>12 DEF Served
  <2>4. c \in Served
    BY <1>6, <2>2, <2>3 DEF Served
  <2> QED
    BY <1>7, <2>3, <2>4 DEF Served
<1> QED
  BY <1>2, <1>10, <1>11, <1>12

LEMMA SearchPageAdvances ==
  ASSUME LoggingInv, NEW p \in Procs, SearchPage(p), UNCHANGED <<db, hist>>,
         req[p].pc \in {"serve", "page"}, IsSearch(req[p].q)
  PROVE  Advance(p)
<1>1. PICK x, q : x = req[p] /\ q = x.q
  OBVIOUS
<1>2. q \in Requests /\ IsSearch(q) /\ TablesInv
  BY <1>1, ServedFields DEF LoggingInv
<1>3. PICK left : left = Rest(Matching(x.q), x.cursor)
  OBVIOUS
<1>4. PICK F : F = First(left, PageSize)
  OBVIOUS
<1>5. PICK page : page = Shown(x.q, First(left, PageSize))
  OBVIOUS
<1>6. PICK token : token = Token(left, PageSize)
  OBVIOUS
<1>7. PICK r : /\ Moved(p, r) /\ r.q = x.q
               /\ r.pc = (IF token = Start THEN "searched" ELSE "page") /\ r.cursor = token
               /\ r.out = x.out \cup page /\ r.twice = x.twice \cup (x.out \cap page)
               /\ page \subseteq Ids /\ token \in Cursors => r \in Served
  BY SMTT(60), <1>1, <1>3, <1>5, <1>6, PageMoves
<1>8. /\ left \subseteq Matching(q) /\ F \subseteq left
      /\ token # Start => \E m \in F : token = m.key
  BY SMTT(60), <1>1, <1>2, <1>3, <1>4, <1>6, Pages
<1>9. \A m \in Matching(q) : m.key \in KeySet(q) /\ m.id \in Ids
  BY <1>2, MatchingIs
<1>10. page \subseteq Ids
  BY SMTT(60), <1>1, <1>4, <1>5, <1>8, <1>9, ShownIs
<1>11. token \in Cursors
  BY <1>8, <1>9 DEF KeySet, Cursors
<1>12. ServedOK(r)'
  BY <1>1, <1>2, <1>7, <1>10, <1>11 DEF ServedOK, IsSearch
<1> QED
  BY <1>7, <1>12, QuietAdvances

LEMMA EndAdvances ==
  ASSUME LoggingInv, NEW p \in Procs, End(p), UNCHANGED <<db, ops, hist>>
  PROVE  Advance(p)
BY Ends, QuietAdvances

\* Every step advances, ...
LEMMA StepAdvances ==
  ASSUME LoggingInv, NEW p \in Procs, Arrive(p) \/ Serve(p) \/ Fail(p)
  PROVE  Advance(p)
<1>1. CASE Arrive(p)
  BY <1>1, ArriveAdvances
<1>2. CASE CreateRun(p) \/ SetRunLifecycle(p)
  BY <1>2, CreateRunAdvances, SetRunLifecycleAdvances
<1>3. CASE LogMetric(p) \/ LogParameter(p) \/ LogBatch(p)
  BY <1>3, FindRunAdvances DEF LogMetric, LogParameter, LogBatch, Serving, At
<1>4. CASE LogMetrics(p) \/ LogParam(p) \/ CompareParam(p) \/ LogTags(p)
  BY <1>4, LogMetricsAdvances, LogParamAdvances, CompareParamAdvances, LogTagsAdvances
<1>5. CASE IngestTraces(p) \/ IngestOTLP(p) \/ Export(p)
  BY <1>5, FindSpanRunsAdvances DEF IngestTraces, IngestOTLP, Export, Serving, At
<1>6. CASE InsertSpans(p)
  BY <1>6, InsertSpansAdvances
<1>7. CASE SearchRuns(p)
  BY <1>7, SearchPageAdvances DEF SearchRuns, Serving, Paging, At, IsSearch
<1>8. CASE GetMetricHistory(p)
  <2>1. CASE SearchPage(p)
    BY <1>8, <2>1, SearchPageAdvances DEF GetMetricHistory, Serving, Paging, At, IsSearch
  <2>2. CASE End(p)
    BY <1>8, <2>2, EndAdvances DEF GetMetricHistory
  <2> QED
    BY <1>8, <2>1, <2>2 DEF GetMetricHistory
<1>9. CASE EndSearch(p) \/ Fail(p)
  BY <1>9, EndAdvances DEF EndSearch, Fail
<1> QED
  BY <1>1, <1>2, <1>3, <1>4, <1>5, <1>6, <1>7, <1>8, <1>9 DEF Serve

\* ... is a page of a search, or ends or serves another request.
LEMMA Turns ==
  ASSUME LoggingInv, NEW p \in Procs, Arrive(p) \/ Serve(p) \/ Fail(p)
  PROVE  \/ Arrive(p)
         \/ req'[p].pc \in {"idle", "metrics", "params", "compare", "insert"}
         \/ SearchPage(p) /\ UNCHANGED <<db, hist>> /\ req[p].pc \in {"serve", "page"} /\ IsSearch(req[p].q)
<1>0. req \in [Procs -> Served]
  BY ServedFields
<1>1. End(p) => req'[p].pc = "idle"
  BY SMTT(60), <1>0 DEF End, Idle
<1>2. ASSUME NEW pc, Goto(p, pc) PROVE req'[p].pc = pc
  BY <1>0, <1>2 DEF Goto, Served
<1>3. CASE CreateRun(p) \/ SetRunLifecycle(p) \/ LogTags(p) \/ EndSearch(p) \/ Fail(p)
  BY <1>1, <1>3 DEF CreateRun, SetRunLifecycle, LogTags, EndSearch, Fail, Ack
<1>4. CASE FindRun(p)
  <2>1. CASE End(p)
    BY <1>1, <2>1
  <2>2. CASE req' = [req EXCEPT ![p].pc = "metrics", ![p].rest = req[p].q.params]
    BY <1>0, <2>2 DEF Served
  <2> QED
    BY <1>4, <2>1, <2>2 DEF FindRun
<1>5. CASE LogMetrics(p)
  <2>1. End(p) \/ Goto(p, "params")
    BY <1>5 DEF LogMetrics
  <2> QED
    BY <1>1, <1>2, <2>1
<1>6. CASE LogParam(p)
  <2>1. req[p].pc = "params"
    BY <1>6 DEF LogParam, At
  <2>2. CASE req' = [req EXCEPT ![p].rest = Tail(req[p].rest)]
    BY <1>0, <2>1, <2>2 DEF Served
  <2>3. CASE Goto(p, "compare")
    BY <1>2, <2>3
  <2> QED
    BY <1>6, <2>2, <2>3 DEF LogParam
<1>7. CASE CompareParam(p)
  <2>1. CASE End(p)
    BY <1>1, <2>1
  <2>2. CASE req' = [req EXCEPT ![p].pc = "params", ![p].rest = Tail(req[p].rest)]
    BY <1>0, <2>2 DEF Served
  <2> QED
    BY <1>7, <2>1, <2>2 DEF CompareParam
<1>8. CASE FindSpanRuns(p)
  <2>1. End(p) \/ Goto(p, "insert")
    BY <1>8 DEF FindSpanRuns
  <2> QED
    BY <1>1, <1>2, <2>1
<1>9. CASE InsertSpans(p)
  BY <1>1, <1>9 DEF InsertSpans, Ack
<1>10. CASE SearchRuns(p)
  BY <1>10 DEF SearchRuns, Serving, Paging, At, IsSearch
<1>11. CASE GetMetricHistory(p)
  BY <1>1, <1>11 DEF GetMetricHistory, Serving, Paging, At, IsSearch
<1> QED
  BY <1>3, <1>4, <1>5, <1>6, <1>7, <1>8, <1>9, <1>10, <1>11
  DEF Serve, LogMetric, LogParameter, LogBatch, IngestTraces, IngestOTLP, Export

-----------------------------------------------------------------------------
(* Searches.                                                                *)

\* Of the rows that stayed the same since a search began, those up to its cursor are
\* on its pages and no others are, each on one of them.
SearchOK(r, st) ==
  IF ~IsSearch(r.q) THEN st = {}
  ELSE /\ st \subseteq Matching(r.q)
       /\ r.pc \notin {"page", "searched"} => r.cursor = Start /\ r.out = {} /\ r.twice = {}
       /\ \A m \in st : m.id \notin r.twice
       /\ r.pc = "page" =>
            /\ r.cursor \in KeySet(r.q)
            /\ \A m \in st : /\ m.id \in r.out => ~Beyond(m.key, r.cursor)
                             /\ ~Beyond(m.key, r.cursor) /\ InView(r.q, m) => m.id \in r.out
       /\ r.pc = "searched" => \A m \in st : InView(r.q, m) => m.id \in r.out
SearchInv == \A p \in Procs : SearchOK(req[p], steady[p])

TrackingInv == LoggingInv /\ SearchInv

\* The history of a search.
LEMMA Watched ==
  ASSUME Observe, NEW p \in Procs
  PROVE  /\ ~IsSearch(req'[p].q) => steady'[p] = {}
         /\ IsSearch(req'[p].q) => steady'[p] \subseteq Matching(req[p].q)'
         /\ IsSearch(req'[p].q) /\ req[p].pc # "idle" => steady'[p] \subseteq steady[p]
BY DEF Observe

\* A step of another goroutine may change or remove rows, which are not watched any
\* longer then.
LEMMA SearchKept ==
  ASSUME Observe, NEW p \in Procs, ServedOK(req[p]), SearchOK(req[p], steady[p]), req'[p] = req[p]
  PROVE  SearchOK(req[p], steady[p])'
<1>1. PICK x, new : x = req[p] /\ new = steady'[p]
  OBVIOUS
<1>2. CASE ~IsSearch(x.q)
  <2>1. new = {}
    BY <1>1, <1>2, Watched DEF IsSearch
  <2> QED
    BY <1>1, <1>2, <2>1 DEF SearchOK, IsSearch
<1>3. CASE IsSearch(x.q)
  <2>1. x.pc # "idle"
    BY <1>1, <1>3, NoSearch DEF ServedOK
  <2>2. new \subseteq steady[p] /\ new \subseteq Matching(x.q)'
    BY <1>1, <1>3, <2>1, Watched DEF IsSearch
  <2>3. /\ x.pc \notin {"page", "searched"} => x.cursor = Start /\ x.out = {} /\ x.twice = {}
        /\ \A m \in steady[p] : m.id \notin x.twice
        /\ x.pc = "page" =>
             /\ x.cursor \in KeySet(x.q)
             /\ \A m \in steady[p] : /\ m.id \in x.out => ~Beyond(m.key, x.cursor)
                                     /\ ~Beyond(m.key, x.cursor) /\ InView(x.q, m) => m.id \in x.out
        /\ x.pc = "searched" => \A m \in steady[p] : InView(x.q, m) => m.id \in x.out
    BY <1>1, <1>3 DEF SearchOK
  <2>4. SearchOK(x, new)'
    <3>1. new \subseteq Matching(x.q)'
      BY <2>2
    <3>2. \A m \in new : m \in steady[p]
      BY <2>2
    <3> QED
      BY <1>3, <2>3, <3>1, <3>2 DEF SearchOK, IsSearch, KeySet, InView
  <2> QED
    BY <1>1, <2>4
<1> QED
  BY <1>2, <1>3

\* A page adds the rows up to its token, and of those watched none a second time.
LEMMA PageExact ==
  ASSUME LoggingInv, Observe, NEW p \in Procs, SearchOK(req[p], steady[p]), SearchPage(p),
         UNCHANGED <<db, hist>>, req[p].pc \in {"serve", "page"}, IsSearch(req[p].q)
  PROVE  SearchOK(req[p], steady[p])'
<1>1. PICK x, q : x = req[p] /\ q = x.q
  OBVIOUS
<1>2. q \in Requests /\ IsSearch(q) /\ TablesInv /\ req \in [Procs -> Served]
  BY <1>1, ServedFields DEF LoggingInv
<1>3. PICK left : left = Rest(Matching(x.q), x.cursor)
  OBVIOUS
<1>4. PICK F : F = First(left, PageSize)
  OBVIOUS
<1>5. PICK page : page = Shown(x.q, First(left, PageSize))
  OBVIOUS
<1>6. PICK token : token = Token(left, PageSize)
  OBVIOUS
<1>7. PICK r : /\ Moved(p, r) /\ r.q = x.q
               /\ r.pc = (IF token = Start THEN "searched" ELSE "page") /\ r.cursor = token
               /\ r.out = x.out \cup page /\ r.twice = x.twice \cup (x.out \cap page)
               /\ page \subseteq Ids /\ token \in Cursors => r \in Served
  BY SMTT(60), <1>1, <1>3, <1>5, <1>6, PageMoves
<1>8. req'[p] = r
  BY <1>2, <1>7 DEF Moved
<1>9. PICK All : All = Matching(q)
  OBVIOUS
<1>10. /\ left \subseteq All /\ F \subseteq left
       /\ \A m \in All : m \in left <=> x.cursor = Start \/ Beyond(m.key, x.cursor)
       /\ token = Start => F = left
       /\ token # Start => \E m \in F : token = m.key /\ \A s \in left : s \in F <=> ~Beyond(s.key, m.key)
  BY SMTT(60), <1>1, <1>2, <1>3, <1>4, <1>6, <1>9, Pages
<1>11. PICK K : K = KeySet(q)
  OBVIOUS
<1>12. /\ K \in KeySets /\ \A m \in All : m.key \in K
       /\ \A m, n \in All : m.id = n.id => m = n
  BY <1>2, <1>9, <1>11, MatchingIs
<1>13. PICK new : new = steady'[p]
  OBVIOUS
<1>14. new \subseteq steady[p] /\ new \subseteq All
  <2>1. Matching(req[p].q)' = All
    <3>1. req'[p].q = q
      BY <1>1, <1>7, <1>8
    <3>2. UNCHANGED <<runs, metrics>>
      BY DEF db
    <3>3. Matching(q)' = Matching(q)
      BY SMTT(60), <3>2 DEF Matching, Exists, RunKey, Latest
    <3> QED
      BY <1>9, <3>1, <3>3
  <2>2. IsSearch(req'[p].q) /\ req[p].pc # "idle"
    BY <1>1, <1>2, <1>7, <1>8
  <2> QED
    BY <1>13, <2>1, <2>2, Watched
<1>15. /\ x.pc = "serve" => x.cursor = Start /\ x.out = {} /\ x.twice = {}
       /\ \A m \in new : m.id \notin x.twice
       /\ x.pc = "page" => /\ x.cursor \in K
                           /\ \A m \in new : /\ m.id \in x.out => ~Beyond(m.key, x.cursor)
                                             /\ ~Beyond(m.key, x.cursor) /\ InView(q, m) => m.id \in x.out
  BY <1>1, <1>2, <1>11, <1>14 DEF SearchOK
<1>16. x.pc = "page" => x.cursor # Start
  BY SMTT(60), <1>12, <1>15, BeyondOrders
<1>17. x.pc = "serve" \/ x.pc = "page"
  BY <1>1
<1>18. \A m \in F : InView(q, m) => m.id \in page
  BY <1>1, <1>4, <1>5, ShownIs
<1>19. ASSUME NEW m \in new, m.id \in page PROVE m \in F
  <2>1. PICK n \in F : n.id = m.id
    BY SMTT(60), <1>1, <1>4, <1>5, <1>19, ShownIs
  <2> QED
    BY <1>10, <1>12, <1>14, <2>1
<1>20. ASSUME NEW m \in new, m.id \in page PROVE m.id \notin x.out
  <2>1. m \in left /\ m \in All
    BY <1>10, <1>19, <1>20
  <2> QED
    BY <1>10, <1>15, <1>16, <1>17, <2>1
<1>21. \A m \in new : m.id \notin r.twice
  BY <1>7, <1>15, <1>20
<1>22. ASSUME NEW m \in new, m \notin left, InView(q, m) PROVE m.id \in x.out
  BY <1>10, <1>14, <1>15, <1>17, <1>22
<1>23. CASE token = Start
  <2>1. \A m \in new : InView(q, m) => m.id \in r.out
    BY <1>7, <1>10, <1>18, <1>22, <1>23
  <2>2. r.pc = "searched" /\ r.q = q
    BY <1>1, <1>7, <1>23
  <2>3. new \subseteq Matching(r.q)'
    BY <1>1, <1>2, <1>7, <1>8, <1>13, <2>2, Watched
  <2>4. SearchOK(r, new)'
    BY <1>2, <1>21, <2>1, <2>2, <2>3 DEF SearchOK, IsSearch, InView
  <2> QED
    BY <1>8, <1>13, <2>4
<1>24. CASE token # Start
  <2>1. PICK l \in F : token = l.key /\ \A s \in left : s \in F <=> ~Beyond(s.key, l.key)
    BY <1>10, <1>24
  <2>2. l \in All /\ token \in K /\ (x.pc = "page" => Beyond(token, x.cursor))
    BY <1>10, <1>12, <1>16, <2>1
  <2>3. ASSUME NEW m \in new, m.id \in r.out PROVE ~Beyond(m.key, token)
    <3>1. CASE m.id \in page
      <4>1. m \in F /\ m \in left
        BY <1>10, <1>19, <3>1
      <4> QED
        BY <2>1, <4>1
    <3>2. CASE m.id \in x.out
      <4>1. x.pc = "page" /\ x.cursor \in K /\ ~Beyond(m.key, x.cursor) /\ m.key \in K
        BY <1>12, <1>14, <1>15, <1>17, <3>2
      <4>2. Beyond(m.key, token) => Beyond(m.key, x.cursor)
        BY SMTT(60), <1>12, <2>2, <4>1, BeyondOrders
      <4> QED
        BY <4>1, <4>2
    <3> QED
      BY <1>7, <2>3, <3>1, <3>2
  <2>4. ASSUME NEW m \in new, ~Beyond(m.key, token), InView(q, m) PROVE m.id \in r.out
    <3>1. CASE m \in left
      BY <1>7, <1>18, <2>1, <2>4, <3>1
    <3>2. CASE m \notin left
      BY <1>7, <1>22, <2>4, <3>2
    <3> QED
      BY <3>1, <3>2
  <2>5. r.pc = "page" /\ r.q = q /\ r.cursor = token
    BY <1>1, <1>7, <1>24
  <2>6. new \subseteq Matching(r.q)'
    BY <1>1, <1>2, <1>7, <1>8, <1>13, <2>5, Watched
  <2>7. r.cursor \in KeySet(r.q)
    BY <1>11, <2>2, <2>5
  <2>8. /\ \A m \in new : m.id \in r.out => ~Beyond(m.key, r.cursor)
        /\ \A m \in new : ~Beyond(m.key, r.cursor) /\ InView(r.q, m) => m.id \in r.out
    BY <2>3, <2>4, <2>5
  <2>9. SearchOK(r, new)'
    BY <1>2, <1>21, <2>5, <2>6, <2>7, <2>8 DEF SearchOK, IsSearch, InView, KeySet
  <2> QED
    BY <1>8, <1>13, <2>9
<1> QED
  BY <1>23, <1>24

LEMMA SearchStep ==
  ASSUME TrackingInv, Observe, NEW p \in Procs, Arrive(p) \/ Serve(p) \/ Fail(p)
  PROVE  SearchInv'
<1> SUFFICES ASSUME NEW o \in Procs PROVE SearchOK(req[o], steady[o])'
  BY DEF SearchInv
<1>1. LoggingInv /\ SearchOK(req[o], steady[o]) /\ ServedOK(req[o]) /\ req \in [Procs -> Served]
  BY ServedFields DEF TrackingInv, SearchInv
<1>2. PICK r : Moved(p, r) /\ ServedOK(r)'
  BY <1>1, StepAdvances DEF Advance
<1>3. CASE o # p
  <2>1. req'[o] = req[o]
    BY <1>1, <1>2, <1>3 DEF Moved
  <2> QED
    BY <1>1, <2>1, SearchKept
<1>4. CASE o = p /\ SearchPage(p) /\ UNCHANGED <<db, hist>> /\ req[p].pc \in {"serve", "page"} /\ IsSearch(req[p].q)
  BY <1>1, <1>4, PageExact
<1>5. CASE o = p /\ req'[p].pc \in {"idle", "metrics", "params", "compare", "insert"}
  <2>1. req'[o] = r
    BY <1>1, <1>2, <1>5 DEF Moved
  <2>2. ~IsSearch(r.q)
    <3>1. \/ r = Idle \/ r.q \in LogReqs \/ r.q \in SpanReqs
      BY <1>2, <1>5, <2>1 DEF ServedOK
    <3> QED
      BY <3>1, NoSearch
  <2>3. steady'[o] = {}
    BY <2>1, <2>2, Watched
  <2> QED
    BY <2>1, <2>2, <2>3 DEF SearchOK, IsSearch
<1>6. CASE o = p /\ Arrive(p)
  <2>1. req[o].pc = "idle"
    BY <1>6 DEF Arrive
  <2>2. PICK q \in Requests : req' = [req EXCEPT ![p] = [Idle EXCEPT !.pc = "serve", !.q = q]]
    BY <1>6 DEF Arrive
  <2>3. PICK y : y = [Idle EXCEPT !.pc = "serve", !.q = q]
    OBVIOUS
  <2>4. req'[o] = y
    BY <1>1, <1>6, <2>2, <2>3
  <2>5. y.pc = "serve" /\ y.q = q /\ y.cursor = Start /\ y.out = {} /\ y.twice = {}
    BY <2>3 DEF Idle
  <2>6. PICK new : new = steady'[o]
    OBVIOUS
  <2>7. (~IsSearch(y.q) => new = {}) /\ (IsSearch(y.q) => new \subseteq Matching(y.q)')
    BY <2>4, <2>6, Watched
  <2>8. SearchOK(y, new)'
    BY <2>5, <2>7 DEF SearchOK, IsSearch
  <2> QED
    BY <2>4, <2>6, <2>8
<1> QED
  BY <1>1, <1>3, <1>4, <1>5, <1>6, Turns

-----------------------------------------------------------------------------
(* The theorems.                                                            *)

LEMMA TrackingStarts ==
  ASSUME Init
  PROVE  TrackingInv
<1>1. TablesInv
  <2>1. runs \in [Runs -> RunRow \cup {Nothing}]
    BY TrackingConstants DEF Init, RunRow
  <2>2. \A r \in Runs : metrics[r] = {} /\ latest[r] = Nothing
    BY DEF Init
  <2>3. TableOK([points |-> {}, last |-> Nothing])
    BY FS_EmptySet DEF TableOK, Tables, UniquePoints, IsLast
  <2>4. \A r \in Runs : TableOK([points |-> metrics[r], last |-> latest[r]])
    BY <2>2, <2>3
  <2> QED
    BY <2>1, <2>4 DEF Init, TablesInv
<1>2. \A p \in Procs : req[p] = Idle /\ steady[p] = {}
  BY DEF Init
<1>3. ServedInv
  <2>1. Idle \in Served
    BY IdleOK DEF ServedOK
  <2> QED
    BY <1>2, <2>1, IdleOK DEF Init, ServedInv
<1>4. AnswersInv
  BY DEF Init, AnswersInv
<1>5. ~IsSearch(Idle.q)
  BY DEF Idle, IsSearch
<1>6. SearchInv
  BY <1>2, <1>5 DEF SearchInv, SearchOK
<1> QED
  BY <1>1, <1>3, <1>4, <1>6 DEF TrackingInv, LoggingInv

LEMMA TrackingSteps ==
  ASSUME TrackingInv, [Next]_vars
  PROVE  TrackingInv'
<1>1. CASE UNCHANGED vars
  <2>1. UNCHANGED <<runs, metrics, latest, params, spans, req, ops, acked, refused, steady>>
    BY <1>1 DEF vars
  <2>2. TablesInv'
    BY <2>1 DEF TrackingInv, LoggingInv, TablesInv
  <2>3. Grows
    BY <2>1 DEF Grows, KeepsSpans
  <2>4. AnswersInv'
    BY <2>1, <2>3, AnswersStay DEF TrackingInv, LoggingInv, AnswersInv
  <2>5. ServedInv'
    <3>1. ASSUME NEW p \in Procs PROVE ServedOK(req[p])'
      <4>1. PICK x : x = req[p]
        OBVIOUS
      <4>2. ServedOK(x)'
        BY <2>3, <4>1, ServedStays DEF TrackingInv, LoggingInv, ServedInv
      <4> QED
        BY <2>1, <4>1, <4>2
    <3> QED
      BY <2>1, <3>1 DEF TrackingInv, LoggingInv, ServedInv
  <2>6. SearchInv'
    <3>1. ASSUME NEW p \in Procs PROVE SearchOK(req[p], steady[p])'
      <4>1. PICK x, st : x = req[p] /\ st = steady[p]
        OBVIOUS
      <4>2. SearchOK(x, st)
        BY <4>1 DEF TrackingInv, SearchInv
      <4>3. Matching(x.q)' = Matching(x.q)
        BY SMTT(60), <2>1 DEF Matching, Exists, RunKey, Latest
      <4>4. SearchOK(x, st)'
        BY <4>2, <4>3 DEF SearchOK, IsSearch, InView, KeySet
      <4> QED
        BY <2>1, <4>1, <4>4
    <3> QED
      BY <3>1 DEF SearchInv
  <2> QED
    BY <2>2, <2>4, <2>5, <2>6 DEF TrackingInv, LoggingInv
<1>2. CASE Next
  <2>1. PICK p \in Procs : Arrive(p) \/ Serve(p) \/ Fail(p)
    BY <1>2 DEF Next
  <2>2. Observe
    BY <1>2 DEF Next
  <2>3. LoggingInv'
    BY <2>1, StepAdvances, Advances DEF TrackingInv
  <2>4. SearchInv'
    BY <2>1, <2>2, SearchStep
  <2> QED
    BY <2>3, <2>4 DEF TrackingInv
<1> QED
  BY <1>1, <1>2

\* The inductive invariant: tables in order, every request where its writes are, every
\* answer still true, and every search past exactly what it returned.
THEOREM TrackingInvariant == Spec => []TrackingInv
<1>1. Init => TrackingInv
  BY TrackingStarts
<1>2. TrackingInv /\ [Next]_vars => TrackingInv'
  BY TrackingSteps
<1> QED
  BY <1>1, <1>2, PTL DEF Spec

\* What was answered with success stays logged, for any clients that send anything at
\* the same time, again, or with ids that others use (LogBatch, LogParam, InsertSpans).
THEOREM AcksKept == Spec => []AckedLogged
<1>1. TrackingInv => AckedLogged
  <2> SUFFICES ASSUME TrackingInv PROVE AckedLogged
    OBVIOUS
  <2> SUFFICES ASSUME NEW q \in acked
               PROVE  /\ "metrics" \in DOMAIN q =>
                           /\ \A i \in DOMAIN q.params : params[q.run][q.params[i][1]] = q.params[i][2]
                           /\ \A i \in DOMAIN q.metrics :
                                \E m \in metrics[q.run] : q.metrics[i].ts \in {0, m.ts} /\ m.step = q.metrics[i].step
                      /\ "spans" \in DOMAIN q =>
                           \A i \in DOMAIN q.spans : SpanLogged(q.spans[i])
    BY DEF AckedLogged, SpanLogged
  <2>1. AckOK(q)
    BY DEF TrackingInv, LoggingInv, AnswersInv
  <2>2. CASE q \in LogReqs /\ PointsLogged(q) /\ \A i \in DOMAIN q.params : ParamLogged(q, i)
    <3>1. "spans" \notin DOMAIN q
      BY <2>2 DEF LogReqs
    <3> QED
      BY <2>2, <3>1 DEF PointsLogged, PointLogged, ParamLogged
  <2>3. CASE q \in SpanReqs /\ \A i \in DOMAIN q.spans : SpanLogged(q.spans[i])
    <3>1. "metrics" \notin DOMAIN q
      BY <2>3 DEF SpanReqs
    <3> QED
      BY <2>3, <3>1
  <2> QED
    BY <2>1, <2>2, <2>3 DEF AckOK
<1> QED
  BY <1>1, TrackingInvariant, PTL

\* No batch is refused by its own earlier writes, however often and at whatever point it
\* failed and was sent again (LogParam).
THEOREM RetriesSafe == Spec => []RetrySafe
<1>1. TrackingInv => RetrySafe
  BY DEF TrackingInv, LoggingInv, AnswersInv, RefusalOK, RetrySafe
<1> QED
  BY <1>1, TrackingInvariant, PTL

\* metrics_latest is the reduction of the history, in whichever order any points arrive
\* (trg_metrics_latest_ai).
THEOREM LatestMaintained == Spec => []LatestExact
<1>1. TrackingInv => LatestExact
  BY LatestHolds DEF TrackingInv, LoggingInv, LatestExact
<1> QED
  BY <1>1, TrackingInvariant, PTL

\* The pages of a search hold every row that stayed the same exactly once, for any page
\* size, any order of the three and whatever happens between the pages (SearchRuns,
\* GetMetricHistory).
THEOREM PagesExact == Spec => []SearchExact
<1>1. TrackingInv => SearchExact
  <2> SUFFICES ASSUME TrackingInv, NEW p \in Procs
               PROVE  /\ req[p].twice \cap Shown(req[p].q, steady[p]) = {}
                      /\ At(p, "searched") => Shown(req[p].q, steady[p]) \subseteq req[p].out
    BY DEF SearchExact
  <2>1. PICK x, st : x = req[p] /\ st = steady[p]
    OBVIOUS
  <2>2. SearchOK(x, st)
    BY <2>1 DEF TrackingInv, SearchInv
  <2>3. \A i : i \in Shown(x.q, st) <=> \E m \in st : m.id = i /\ InView(x.q, m)
    BY ShownIs
  <2>4. \A m \in st : m.id \notin x.twice
    BY <2>2 DEF SearchOK
  <2>5. x.pc = "searched" => \A m \in st : InView(x.q, m) => m.id \in x.out
    BY <2>2 DEF SearchOK
  <2> QED
    BY SMTT(60), <2>1, <2>3, <2>4, <2>5 DEF At
<1> QED
  BY <1>1, TrackingInvariant, PTL

=============================================================================
