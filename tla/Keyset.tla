------------------------------- MODULE Keyset -------------------------------
(***************************************************************************)
(* Keyset pagination, as SearchRuns, SearchExperiments and GetMetricHistory *)
(* of internal/store/sqlite.go do it.  The sort key of a row is a tuple of *)
(* numbers, one per column of the ORDER BY, negated where the column is    *)
(* DESC.  A page token carries the key of the last row of its page: times, *)
(* ids, steps and finite doubles survive the JSON of encodeCursor and the  *)
(* "timestamp:step" of encodeMetricPageToken unchanged.                    *)
(***************************************************************************)
EXTENDS Integers, FiniteSets, Sequences

\* The empty page token.
Start == <<>>

\* keysetPredicate: some column is beyond the cursor's and all before it agree.
Beyond(key, cursor) ==
  \E i \in DOMAIN key :
    /\ key[i] > cursor[i]
    /\ \A j \in 1 .. i - 1 : key[j] = cursor[j]

\* Compares the first column only, without the tie-break.
RestByFirst(rows, cursor) == {r \in rows : cursor = Start \/ r.key[1] > cursor[1]}

\* The rows a query with this token may return.
Rest(rows, cursor) == {r \in rows : cursor = Start \/ Beyond(r.key, cursor)}

\* ORDER BY ... LIMIT n.
First(rows, n) == {r \in rows : Cardinality({s \in rows : Beyond(r.key, s.key)}) < n}

LastKey(rows, n) ==
  (CHOOSE r \in First(rows, n) : \A s \in First(rows, n) : ~Beyond(s.key, r.key)).key

\* NextPageToken: the key of the page's last row, when LIMIT n + 1 found more.
Token(rows, n) == IF Cardinality(First(rows, n + 1)) <= n THEN Start ELSE LastKey(rows, n)
=============================================================================
