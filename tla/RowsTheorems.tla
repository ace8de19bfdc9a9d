---------------------------- MODULE RowsTheorems ----------------------------
(***************************************************************************)
(* What the row-array operators return, for arrays of any length.          *)
(***************************************************************************)
EXTENDS Rows, FiniteSetTheorems, TLAPS

LEMMA RowSetMember ==
  ASSUME NEW s, NEW r
  PROVE  r \in RowSet(s) <=> \E i \in DOMAIN s : s[i] = r
BY DEF RowSet

\* The ids of an array are the ids of its rows.
LEMMA IdsMember ==
  ASSUME NEW s, NEW o
  PROVE  o \in Ids(s) <=> \E r \in RowSet(s) : r.id = o
BY DEF Ids, RowSet

LEMMA RowSetType ==
  ASSUME NEW S, NEW s \in Seq(S)
  PROVE  RowSet(s) \in SUBSET S
BY DEF RowSet

\* Ranking is a bijection from a finite set of indexes onto 1..n: every
\* position of the filtered array comes from exactly one kept index.
LEMMA RankOnto ==
  ASSUME NEW K, K \in SUBSET Nat, IsFiniteSet(K)
  PROVE  /\ Cardinality(K) \in Nat
         /\ \A k \in K : Rank(K, k) \in 1..Cardinality(K)
         /\ \A j \in 1..Cardinality(K) : \E k \in K : Rank(K, k) = j
         /\ \A k, l \in K : k < l => Rank(K, k) < Rank(K, l)
<1> DEFINE Below(k) == {m \in K : m <= k}
           n == Cardinality(K)
<1>1. n \in Nat
  BY FS_CardinalityType
<1>2. \A k \in K : /\ IsFiniteSet(Below(k)) /\ Below(k) \in SUBSET K
                   /\ Cardinality(Below(k)) \in Nat
                   /\ Cardinality(Below(k)) <= n
                   /\ k \in Below(k)
  <2> TAKE k \in K
  <2>1. Below(k) \in SUBSET K
    OBVIOUS
  <2>2. IsFiniteSet(Below(k)) /\ Cardinality(Below(k)) <= n
    BY <2>1, FS_Subset
  <2>3. Cardinality(Below(k)) \in Nat
    BY <2>2, FS_CardinalityType
  <2>4. k \in Below(k)
    OBVIOUS
  <2> QED BY <2>1, <2>2, <2>3, <2>4
<1>3. \A k \in K : Rank(K, k) \in 1..n
  <2> TAKE k \in K
  <2>1. Cardinality(Below(k)) # 0
    BY <1>2, FS_EmptySet
  <2> QED BY <1>1, <1>2, <2>1 DEF Rank
<1>4. \A k, l \in K : k < l => Rank(K, k) < Rank(K, l)
  <2> SUFFICES ASSUME NEW k \in K, NEW l \in K, k < l
               PROVE  Rank(K, k) < Rank(K, l)
    OBVIOUS
  <2>1. Below(k) \in SUBSET Below(l)
    <3>1. ASSUME NEW m \in K, m <= k PROVE m <= l
      <4>1. m \in Nat /\ k \in Nat /\ l \in Nat
        OBVIOUS
      <4> HIDE DEF Below
      <4> QED BY <4>1, <3>1
    <3> QED BY <3>1
  <2>2. Below(k) # Below(l)
    <3>1. l \in Below(l) /\ l \notin Below(k)
      OBVIOUS
    <3> QED BY <3>1
  <2>3. /\ Cardinality(Below(k)) <= Cardinality(Below(l))
        /\ Cardinality(Below(k)) # Cardinality(Below(l))
    BY <1>2, <2>1, <2>2, FS_Subset
  <2> QED BY <1>2, <2>3 DEF Rank
<1>5. \A j \in 1..n : \E k \in K : Rank(K, k) = j
  <2> DEFINE r == [k \in K |-> Rank(K, k)]
  <2>1. r \in [K -> 1..n]
    BY <1>3
  <2>2. \A k, l \in K : r[k] = r[l] => k = l
    <3> SUFFICES ASSUME NEW k \in K, NEW l \in K, r[k] = r[l], k # l
                 PROVE  FALSE
      OBVIOUS
    <3>1. k < l \/ l < k
      OBVIOUS
    <3>2. Rank(K, k) \in Nat /\ Rank(K, l) \in Nat
      BY <1>1, <1>3
    <3> QED BY <1>4, <3>1, <3>2
  <2>3. r \in Injection(K, 1..n)
    BY <2>1, <2>2 DEF Injection, IsInjective
  <2>4. IsFiniteSet(1..n) /\ Cardinality(1..n) = n
    BY <1>1, FS_Interval
  <2>5. r \in Surjection(K, 1..n)
    BY <2>3, <2>4, FS_Injection
  <2> QED BY <2>5 DEF Surjection
<1> QED BY <1>1, <1>3, <1>4, <1>5

\* Filtering keeps the type of the array, and the rows of the result are the
\* rows at the kept indexes.
LEMMA SelectAtRows ==
  ASSUME NEW S, NEW s \in Seq(S), NEW K \in SUBSET DOMAIN s
  PROVE  /\ SelectAt(s, K) \in Seq(S)
         /\ RowSet(SelectAt(s, K)) = {s[k] : k \in K}
<1> DEFINE n == Cardinality(K)
           at(j) == CHOOSE k \in K : Rank(K, k) = j
           t == SelectAt(s, K)
<1>1. K \in SUBSET Nat /\ IsFiniteSet(K)
  <2>1. DOMAIN s = 1..Len(s) /\ Len(s) \in Nat
    OBVIOUS
  <2>2. IsFiniteSet(DOMAIN s)
    BY <2>1, FS_Interval
  <2>3. IsFiniteSet(K)
    BY <2>2, FS_Subset
  <2> QED BY <2>1, <2>3
<1>2. n \in Nat /\ DOMAIN t = 1..n
  BY <1>1, RankOnto DEF SelectAt
<1>3. \A j \in 1..n : at(j) \in K /\ Rank(K, at(j)) = j
  <2> TAKE j \in 1..n
  <2>1. \E k \in K : Rank(K, k) = j
    BY <1>1, RankOnto
  <2> QED BY <2>1
<1>4. \A j \in 1..n : t[j] = s[at(j)]
  BY DEF SelectAt
<1>5. t \in Seq(S)
  <2>1. \A j \in 1..n : t[j] \in S
    BY <1>3, <1>4
  <2>2. t = [j \in 1..n |-> t[j]]
    BY DEF SelectAt
  <2>3. t \in [1..n -> S]
    BY <2>1, <2>2
  <2> QED BY <1>2, <2>3
<1>6. \A k \in K : k = at(Rank(K, k)) /\ Rank(K, k) \in 1..n
  <2> TAKE k \in K
  <2>1. Rank(K, k) \in 1..n
    BY <1>1, RankOnto
  <2>2. at(Rank(K, k)) \in K /\ Rank(K, at(Rank(K, k))) = Rank(K, k)
    BY <1>3, <2>1
  <2> DEFINE l == at(Rank(K, k))
  <2> HIDE DEF l, at
  <2>3. ~(k < l) /\ ~(l < k)
    <3>1. Rank(K, k) \in Nat /\ l \in K /\ Rank(K, l) = Rank(K, k)
      BY <2>1, <2>2, <1>2 DEF l
    <3> QED BY <3>1, <1>1, RankOnto
  <2>4. k = l
    BY <1>1, <2>2, <2>3 DEF l
  <2> QED BY <2>1, <2>4 DEF l
<1> HIDE DEF t, at, n
<1>7. \A r : r \in RowSet(t) <=> \E k \in K : r = s[k]
  <2> TAKE r
  <2>1. ASSUME NEW j \in DOMAIN t, t[j] = r PROVE \E k \in K : r = s[k]
    BY <1>2, <1>3, <1>4, <2>1
  <2>2. ASSUME NEW k \in K, r = s[k] PROVE \E j \in DOMAIN t : t[j] = r
    BY <1>2, <1>4, <1>6, <2>2
  <2> QED BY <2>1, <2>2, RowSetMember
<1> QED BY <1>5, <1>7 DEF t

\* filter by id: what is kept, what is dropped, and no row is changed.
LEMMA KeepRows ==
  ASSUME NEW S, NEW s \in Seq(S), NEW ids
  PROVE  /\ Keep(s, ids) \in Seq(S)
         /\ RowSet(Keep(s, ids)) = {r \in RowSet(s) : r.id \in ids}
         /\ Ids(Keep(s, ids)) = Ids(s) \cap ids
<1> DEFINE K == {i \in DOMAIN s : s[i].id \in ids}
<1>1. K \in SUBSET DOMAIN s
  OBVIOUS
<1>2. \A r : r \in {s[k] : k \in K} <=> r \in {q \in RowSet(s) : q.id \in ids}
  BY DEF RowSet
<1>3. Keep(s, ids) = SelectAt(s, K)
  BY DEF Keep
<1> HIDE DEF K
<1>4. /\ Keep(s, ids) \in Seq(S)
      /\ RowSet(Keep(s, ids)) = {r \in RowSet(s) : r.id \in ids}
  BY <1>1, <1>2, <1>3, SelectAtRows
<1>5. \A o : o \in Ids(Keep(s, ids)) <=> \E r \in RowSet(Keep(s, ids)) : r.id = o
  BY IdsMember
<1>6. \A o : o \in Ids(s) <=> \E r \in RowSet(s) : r.id = o
  BY IdsMember
<1>7. Ids(Keep(s, ids)) = Ids(s) \cap ids
  BY <1>4, <1>5, <1>6
<1> QED BY <1>4, <1>7

LEMMA DropRows ==
  ASSUME NEW S, NEW s \in Seq(S), NEW ids
  PROVE  /\ Drop(s, ids) \in Seq(S)
         /\ RowSet(Drop(s, ids)) = {r \in RowSet(s) : r.id \notin ids}
         /\ Ids(Drop(s, ids)) = Ids(s) \ ids
<1> DEFINE K == {i \in DOMAIN s : s[i].id \notin ids}
<1>1. K \in SUBSET DOMAIN s
  OBVIOUS
<1>2. \A r : r \in {s[k] : k \in K} <=> r \in {q \in RowSet(s) : q.id \notin ids}
  BY DEF RowSet
<1>3. Drop(s, ids) = SelectAt(s, K)
  BY DEF Drop
<1> HIDE DEF K
<1>4. /\ Drop(s, ids) \in Seq(S)
      /\ RowSet(Drop(s, ids)) = {r \in RowSet(s) : r.id \notin ids}
  BY <1>1, <1>2, <1>3, SelectAtRows
<1>5. \A o : o \in Ids(Drop(s, ids)) <=> \E r \in RowSet(Drop(s, ids)) : r.id = o
  BY IdsMember
<1>6. \A o : o \in Ids(s) <=> \E r \in RowSet(s) : r.id = o
  BY IdsMember
<1>7. Ids(Drop(s, ids)) = Ids(s) \ ids
  BY <1>4, <1>5, <1>6
<1> QED BY <1>4, <1>7

\* splice(i, 1) takes one row away and leaves the others.
LEMMA RemoveIndexRows ==
  ASSUME NEW S, NEW s \in Seq(S), NEW i \in DOMAIN s
  PROVE  /\ RemoveIndex(s, i) \in Seq(S)
         /\ RowSet(s) = RowSet(RemoveIndex(s, i)) \cup {s[i]}
         /\ Ids(s) = Ids(RemoveIndex(s, i)) \cup {s[i].id}
<1> DEFINE K == DOMAIN s \ {i}
<1>1. K \in SUBSET DOMAIN s
  OBVIOUS
<1>2. \A r : r \in {s[k] : k \in K} \cup {s[i]} <=> r \in RowSet(s)
  BY DEF RowSet
<1>3. RemoveIndex(s, i) = SelectAt(s, K)
  BY DEF RemoveIndex
<1> HIDE DEF K
<1>4. /\ RemoveIndex(s, i) \in Seq(S)
      /\ RowSet(s) = RowSet(RemoveIndex(s, i)) \cup {s[i]}
  BY <1>1, <1>2, <1>3, SelectAtRows
<1>5. \A o : o \in Ids(RemoveIndex(s, i)) <=>
              \E r \in RowSet(RemoveIndex(s, i)) : r.id = o
  BY IdsMember
<1>6. \A o : o \in Ids(s) <=> \E r \in RowSet(s) : r.id = o
  BY IdsMember
<1>7. Ids(s) = Ids(RemoveIndex(s, i)) \cup {s[i].id}
  BY <1>4, <1>5, <1>6
<1> QED BY <1>4, <1>7

\* Concatenation: the rows of both arrays and no other.
LEMMA ConcatRows ==
  ASSUME NEW S, NEW s \in Seq(S), NEW t \in Seq(S)
  PROVE  /\ s \o t \in Seq(S)
         /\ RowSet(s \o t) = RowSet(s) \cup RowSet(t)
         /\ Ids(s \o t) = Ids(s) \cup Ids(t)
<1> DEFINE r == s \o t
<1>1. /\ r \in Seq(S)
      /\ \A k \in 1..Len(s) : r[k] = s[k]
      /\ \A k \in 1..Len(t) : r[Len(s) + k] = t[k]
      /\ Len(s) \in Nat /\ Len(t) \in Nat
      /\ DOMAIN s = 1..Len(s) /\ DOMAIN t = 1..Len(t)
      /\ DOMAIN r = 1..(Len(s) + Len(t))
  OBVIOUS
<1> HIDE DEF r
<1>2. \A j \in DOMAIN r : r[j] \in RowSet(s) \/ r[j] \in RowSet(t)
  <2> TAKE j \in DOMAIN r
  <2>1. CASE j <= Len(s)
    BY <1>1, <2>1, RowSetMember
  <2>2. CASE j > Len(s)
    <3>1. j - Len(s) \in 1..Len(t) /\ j = Len(s) + (j - Len(s))
      BY <1>1, <2>2
    <3>2. r[j] = t[j - Len(s)]
      BY <1>1, <3>1
    <3> QED BY <1>1, <3>1, <3>2, RowSetMember
  <2> QED BY <1>1, <2>1, <2>2
<1>3. \A k \in DOMAIN s : s[k] \in RowSet(r)
  <2> TAKE k \in DOMAIN s
  <2>1. k \in DOMAIN r /\ r[k] = s[k]
    BY <1>1
  <2> QED BY <2>1, RowSetMember
<1>4. \A k \in DOMAIN t : t[k] \in RowSet(r)
  <2> TAKE k \in DOMAIN t
  <2>1. Len(s) + k \in DOMAIN r /\ r[Len(s) + k] = t[k]
    BY <1>1
  <2> QED BY <2>1, RowSetMember
<1>5. RowSet(r) \subseteq RowSet(s) \cup RowSet(t)
  BY <1>2, RowSetMember
<1>6. RowSet(s) \subseteq RowSet(r) /\ RowSet(t) \subseteq RowSet(r)
  BY <1>3, <1>4, RowSetMember
<1>7. RowSet(r) = RowSet(s) \cup RowSet(t)
  BY <1>5, <1>6
<1>8. Ids(r) = Ids(s) \cup Ids(t)
  <2>1. \A q, o : o \in Ids(q) <=> \E x \in RowSet(q) : x.id = o
    BY IdsMember
  <2> QED BY <1>7, <2>1
<1> QED BY <1>1, <1>7, <1>8 DEF r

LEMMA OneRow ==
  ASSUME NEW S, NEW r \in S
  PROVE  <<r>> \in Seq(S) /\ RowSet(<<r>>) = {r} /\ Ids(<<r>>) = {r.id}
BY DEF RowSet, Ids

LEMMA NoRows == RowSet(<<>>) = {} /\ Ids(<<>>) = {}
BY DEF RowSet, Ids

\* push: the rows of the array and the new one.
LEMMA AppendRows ==
  ASSUME NEW S, NEW s \in Seq(S), NEW r \in S
  PROVE  /\ Append(s, r) \in Seq(S)
         /\ RowSet(Append(s, r)) = RowSet(s) \cup {r}
         /\ Ids(Append(s, r)) = Ids(s) \cup {r.id}
<1> DEFINE one == <<r>>
<1>1. Append(s, r) = s \o one
  OBVIOUS
<1>2. one \in Seq(S) /\ RowSet(one) = {r} /\ Ids(one) = {r.id}
  BY OneRow
<1> HIDE DEF one
<1>3. /\ s \o one \in Seq(S)
      /\ RowSet(s \o one) = RowSet(s) \cup RowSet(one)
      /\ Ids(s \o one) = Ids(s) \cup Ids(one)
  BY <1>2, ConcatRows
<1> QED BY <1>1, <1>2, <1>3

\* The head and the rest.
LEMMA HeadTailRows ==
  ASSUME NEW S, NEW s \in Seq(S), s # <<>>
  PROVE  /\ Head(s) \in S /\ Tail(s) \in Seq(S)
         /\ RowSet(s) = RowSet(Tail(s)) \cup {Head(s)}
         /\ Ids(s) = Ids(Tail(s)) \cup {Head(s).id}
<1> DEFINE one == <<Head(s)>>
           rest == Tail(s)
<1>1. Head(s) \in S /\ rest \in Seq(S) /\ s = one \o rest
  OBVIOUS
<1>2. one \in Seq(S) /\ RowSet(one) = {Head(s)} /\ Ids(one) = {Head(s).id}
  BY <1>1, OneRow
<1> HIDE DEF one, rest
<1>3. /\ RowSet(one \o rest) = RowSet(one) \cup RowSet(rest)
      /\ Ids(one \o rest) = Ids(one) \cup Ids(rest)
  BY <1>1, <1>2, ConcatRows
<1> QED BY <1>1, <1>2, <1>3 DEF rest

\* find returns a row of the array that has the id.
LEMMA RowOfId ==
  ASSUME NEW s, NEW o \in Ids(s)
  PROVE  RowOf(s, o) \in RowSet(s) /\ RowOf(s, o).id = o
<1>1. \E i \in DOMAIN s : s[i].id = o
  BY DEF Ids
<1> QED BY <1>1 DEF RowOf, RowSet

\* The upsert: the ids of both arrays, and every row is an incoming row or an
\* existing row whose id does not come in.
LEMMA MergeRowsRows ==
  ASSUME NEW S, NEW e \in Seq(S), NEW n \in Seq(S)
  PROVE  /\ MergeRows(e, n) \in Seq(S)
         /\ RowSet(MergeRows(e, n)) \subseteq
              RowSet(n) \cup {r \in RowSet(e) : r.id \notin Ids(n)}
         /\ Ids(MergeRows(e, n)) = Ids(e) \cup Ids(n)
<1> DEFINE m == MergeRows(e, n)
           u == [i \in DOMAIN e |->
                   IF e[i].id \in Ids(n) THEN RowOf(n, e[i].id) ELSE e[i]]
           v == Drop(n, Ids(e))
<1>1. m = u \o v
  BY DEF MergeRows
<1>2. \A i \in DOMAIN e :
        \/ e[i].id \in Ids(n) /\ u[i] \in RowSet(n) /\ u[i].id = e[i].id
        \/ e[i].id \notin Ids(n) /\ u[i] = e[i]
  BY RowOfId
<1>3. DOMAIN u = DOMAIN e /\ DOMAIN e = 1..Len(e) /\ Len(e) \in Nat
  OBVIOUS
<1>4. \A i \in DOMAIN e : e[i] \in S /\ e[i] \in RowSet(e)
  BY RowSetMember
<1>5. u = [i \in 1..Len(e) |-> u[i]]
  BY <1>3
<1> HIDE DEF u, m
<1>6. \A i \in DOMAIN e : u[i] \in S /\ u[i].id = e[i].id
  BY <1>2, <1>4, RowSetType
<1>7. u \in Seq(S)
  <2>1. u \in [1..Len(e) -> S]
    BY <1>3, <1>5, <1>6
  <2> QED BY <1>3, <2>1
<1>8. RowSet(u) \subseteq RowSet(n) \cup {r \in RowSet(e) : r.id \notin Ids(n)}
  <2> SUFFICES ASSUME NEW i \in DOMAIN u
               PROVE  \/ u[i] \in RowSet(n)
                      \/ u[i] \in RowSet(e) /\ u[i].id \notin Ids(n)
    BY RowSetMember
  <2> QED BY <1>2, <1>3, <1>4
<1>9. Ids(u) = Ids(e)
  BY <1>3, <1>6, Zenon DEF Ids
<1>10. /\ v \in Seq(S) /\ RowSet(v) = {r \in RowSet(n) : r.id \notin Ids(e)}
       /\ Ids(v) = Ids(n) \ Ids(e)
  BY DropRows
<1> HIDE DEF v
<1>11. /\ m \in Seq(S) /\ RowSet(m) = RowSet(u) \cup RowSet(v)
       /\ Ids(m) = Ids(u) \cup Ids(v)
  BY <1>1, <1>7, <1>10, ConcatRows
<1> QED BY <1>8, <1>9, <1>10, <1>11 DEF m

\* t rewrites the array s row by row.
Rewrites(t, s) == t = [i \in DOMAIN s |-> t[i]]

\* A rewritten array has the type of its rows, and the ids of the original
\* when every row keeps its own.
LEMMA RewrittenRows ==
  ASSUME NEW S, NEW T, NEW s \in Seq(S), NEW t, Rewrites(t, s),
         \A i \in DOMAIN s : t[i] \in T /\ t[i].id = s[i].id
  PROVE  t \in Seq(T) /\ Ids(t) = Ids(s) /\ DOMAIN t = DOMAIN s
<1>1. DOMAIN s = 1..Len(s) /\ Len(s) \in Nat
  OBVIOUS
<1>2. t = [i \in 1..Len(s) |-> t[i]] /\ DOMAIN t = DOMAIN s
  BY <1>1 DEF Rewrites
<1>3. t \in [1..Len(s) -> T]
  BY <1>1, <1>2
<1>4. t \in Seq(T)
  BY <1>1, <1>3
<1>5. Ids(t) = Ids(s)
  BY <1>2, Zenon DEF Ids
<1> QED BY <1>2, <1>4, <1>5

-----------------------------------------------------------------------------
(* Arrays that hold no id twice *)

LEMMA DistinctNone == DistinctIds(<<>>)
BY DEF DistinctIds

LEMMA DistinctOne ==
  ASSUME NEW S, NEW r \in S
  PROVE  DistinctIds(<<r>>)
BY DEF DistinctIds

\* A filter keeps every id at most once: two positions of the result come
\* from two indexes of the array.
LEMMA SelectAtDistinct ==
  ASSUME NEW S, NEW s \in Seq(S), NEW K \in SUBSET DOMAIN s, DistinctIds(s)
  PROVE  DistinctIds(SelectAt(s, K))
<1> DEFINE n == Cardinality(K)
           at(j) == CHOOSE k \in K : Rank(K, k) = j
           t == SelectAt(s, K)
<1>1. K \in SUBSET Nat /\ IsFiniteSet(K)
  <2>1. DOMAIN s = 1..Len(s) /\ Len(s) \in Nat
    OBVIOUS
  <2>2. IsFiniteSet(DOMAIN s)
    BY <2>1, FS_Interval
  <2>3. IsFiniteSet(K)
    BY <2>2, FS_Subset
  <2> QED BY <2>1, <2>3
<1>2. DOMAIN t = 1..n
  BY DEF SelectAt
<1>3. \A j \in 1..n : at(j) \in K /\ Rank(K, at(j)) = j
  <2> TAKE j \in 1..n
  <2>1. \E k \in K : Rank(K, k) = j
    BY <1>1, RankOnto
  <2> QED BY <2>1
<1>4. \A j \in 1..n : t[j] = s[at(j)]
  BY DEF SelectAt
<1> HIDE DEF t, at, n
<1> SUFFICES ASSUME NEW i \in 1..n, NEW j \in 1..n, t[i].id = t[j].id
             PROVE  i = j
  BY <1>2 DEF DistinctIds, t
<1>5. at(i) \in DOMAIN s /\ at(j) \in DOMAIN s /\ s[at(i)].id = s[at(j)].id
  BY <1>3, <1>4
<1>6. at(i) = at(j)
  BY <1>5 DEF DistinctIds
<1> QED BY <1>3, <1>6

LEMMA KeepDistinct ==
  ASSUME NEW S, NEW s \in Seq(S), NEW ids, DistinctIds(s)
  PROVE  DistinctIds(Keep(s, ids))
<1> DEFINE K == {i \in DOMAIN s : s[i].id \in ids}
<1>1. K \in SUBSET DOMAIN s /\ Keep(s, ids) = SelectAt(s, K)
  BY DEF Keep
<1> HIDE DEF K
<1> QED BY <1>1, SelectAtDistinct

LEMMA DropDistinct ==
  ASSUME NEW S, NEW s \in Seq(S), NEW ids, DistinctIds(s)
  PROVE  DistinctIds(Drop(s, ids))
<1> DEFINE K == {i \in DOMAIN s : s[i].id \notin ids}
<1>1. K \in SUBSET DOMAIN s /\ Drop(s, ids) = SelectAt(s, K)
  BY DEF Drop
<1> HIDE DEF K
<1> QED BY <1>1, SelectAtDistinct

\* splice(i, 1) takes the only row of its id away.
LEMMA RemoveIndexDistinct ==
  ASSUME NEW S, NEW s \in Seq(S), NEW i \in DOMAIN s, DistinctIds(s)
  PROVE  /\ DistinctIds(RemoveIndex(s, i))
         /\ Ids(RemoveIndex(s, i)) = Ids(s) \ {s[i].id}
<1> DEFINE K == DOMAIN s \ {i}
           t == RemoveIndex(s, i)
<1>1. K \in SUBSET DOMAIN s /\ t = SelectAt(s, K)
  BY DEF RemoveIndex
<1>2. \A k \in K : s[k].id # s[i].id
  BY DEF DistinctIds
<1> HIDE DEF K, t
<1>3. DistinctIds(t) /\ RowSet(t) = {s[k] : k \in K}
  BY <1>1, SelectAtRows, SelectAtDistinct
<1>4. \A r \in RowSet(t) : r.id # s[i].id
  BY <1>2, <1>3
<1>5. s[i].id \notin Ids(t)
  BY <1>4, IdsMember
<1>6. Ids(s) = Ids(t) \cup {s[i].id}
  BY RemoveIndexRows DEF t
<1> QED BY <1>3, <1>5, <1>6 DEF t

\* A concatenation holds no id twice exactly when neither part does and the
\* parts share none.
LEMMA ConcatDistinct ==
  ASSUME NEW S, NEW s \in Seq(S), NEW t \in Seq(S)
  PROVE  DistinctIds(s \o t) <=>
           DistinctIds(s) /\ DistinctIds(t) /\ Ids(s) \cap Ids(t) = {}
<1> DEFINE r == s \o t
           n == Len(s)
<1>1. /\ \A k \in DOMAIN s : k \in DOMAIN r /\ r[k] = s[k] /\ k <= n
      /\ \A k \in DOMAIN t : n + k \in DOMAIN r /\ r[n + k] = t[k]
      /\ n \in Nat /\ DOMAIN s \in SUBSET Nat /\ DOMAIN t \in SUBSET (Nat \ {0})
      /\ \A j \in DOMAIN r : \/ j \in DOMAIN s
                             \/ j - n \in DOMAIN t /\ j = n + (j - n)
  OBVIOUS
<1> HIDE DEF r, n
<1>2. ASSUME DistinctIds(r) PROVE DistinctIds(s)
  BY <1>1, <1>2 DEF DistinctIds
<1>3. ASSUME DistinctIds(r) PROVE DistinctIds(t)
  <2> SUFFICES ASSUME NEW i \in DOMAIN t, NEW j \in DOMAIN t, t[i].id = t[j].id
               PROVE  i = j
    BY DEF DistinctIds
  <2>1. n + i = n + j
    BY <1>1, <1>3 DEF DistinctIds
  <2> QED BY <1>1, <2>1
<1>4. ASSUME DistinctIds(r) PROVE Ids(s) \cap Ids(t) = {}
  <2> SUFFICES ASSUME NEW i \in DOMAIN s, NEW j \in DOMAIN t, s[i].id = t[j].id
               PROVE  FALSE
    BY DEF Ids
  <2>1. i = n + j
    BY <1>1, <1>4 DEF DistinctIds
  <2>2. i \in Nat /\ j \in Nat \ {0} /\ i <= n
    BY <1>1
  <2> QED BY <1>1, <2>1, <2>2
<1>5. ASSUME DistinctIds(s), DistinctIds(t), Ids(s) \cap Ids(t) = {}
      PROVE  DistinctIds(r)
  <2> SUFFICES ASSUME NEW i \in DOMAIN r, NEW j \in DOMAIN r, r[i].id = r[j].id
               PROVE  i = j
    BY DEF DistinctIds
  <2>1. CASE i \in DOMAIN s /\ j \in DOMAIN s
    BY <1>1, <1>5, <2>1 DEF DistinctIds
  <2>2. CASE i - n \in DOMAIN t /\ i = n + (i - n) /\ j - n \in DOMAIN t /\ j = n + (j - n)
    <3> DEFINE a == i - n
               b == j - n
    <3>1. a \in DOMAIN t /\ i = n + a /\ b \in DOMAIN t /\ j = n + b
      BY <2>2
    <3> HIDE DEF a, b
    <3>2. t[a].id = t[b].id
      BY <1>1, <3>1
    <3> QED BY <1>5, <3>1, <3>2 DEF DistinctIds
  <2>3. ASSUME NEW a \in DOMAIN s, NEW b \in DOMAIN t, s[a].id = t[b].id PROVE FALSE
    BY <1>5, <2>3 DEF Ids
  <2>4. CASE i \in DOMAIN s /\ j - n \in DOMAIN t /\ j = n + (j - n)
    <3>1. r[i] = s[i] /\ r[j] = t[j - n]
      BY <1>1, <2>4
    <3> QED BY <2>3, <2>4, <3>1
  <2>5. CASE j \in DOMAIN s /\ i - n \in DOMAIN t /\ i = n + (i - n)
    <3>1. r[j] = s[j] /\ r[i] = t[i - n]
      BY <1>1, <2>5
    <3> QED BY <2>3, <2>5, <3>1
  <2> QED BY <1>1, <2>1, <2>2, <2>4, <2>5
<1> QED BY <1>2, <1>3, <1>4, <1>5 DEF r

\* push of a row whose id is new.
LEMMA AppendDistinct ==
  ASSUME NEW S, NEW s \in Seq(S), NEW r \in S, DistinctIds(s), r.id \notin Ids(s)
  PROVE  DistinctIds(Append(s, r))
<1> DEFINE one == <<r>>
<1>1. Append(s, r) = s \o one
  OBVIOUS
<1>2. one \in Seq(S) /\ Ids(one) = {r.id} /\ DistinctIds(one)
  BY OneRow, DistinctOne
<1> HIDE DEF one
<1> QED BY <1>1, <1>2, ConcatDistinct

\* A row in front of an array that does not hold its id.
LEMMA FrontDistinct ==
  ASSUME NEW S, NEW s \in Seq(S), NEW r \in S
  PROVE  DistinctIds(<<r>> \o s) <=> DistinctIds(s) /\ r.id \notin Ids(s)
<1> DEFINE one == <<r>>
<1>1. one \in Seq(S) /\ Ids(one) = {r.id} /\ DistinctIds(one)
  BY OneRow, DistinctOne
<1> HIDE DEF one
<1>2. DistinctIds(one \o s) <=> DistinctIds(s) /\ r.id \notin Ids(s)
  BY <1>1, ConcatDistinct
<1> QED BY <1>2 DEF one

LEMMA HeadTailDistinct ==
  ASSUME NEW S, NEW s \in Seq(S), s # <<>>, DistinctIds(s)
  PROVE  /\ DistinctIds(Tail(s)) /\ Head(s).id \notin Ids(Tail(s))
         /\ Ids(Tail(s)) = Ids(s) \ {Head(s).id}
<1> DEFINE h == Head(s)
           rest == Tail(s)
<1>1. h \in S /\ rest \in Seq(S) /\ s = <<h>> \o rest
  OBVIOUS
<1>2. Ids(s) = Ids(rest) \cup {h.id}
  BY HeadTailRows
<1> HIDE DEF h, rest
<1>3. DistinctIds(rest) /\ h.id \notin Ids(rest)
  BY <1>1, FrontDistinct
<1> QED BY <1>2, <1>3 DEF h, rest

\* Rows that keep their ids keep them distinct.
LEMMA RewrittenDistinct ==
  ASSUME NEW s, NEW t, DOMAIN t = DOMAIN s, DistinctIds(s),
         \A i \in DOMAIN s : t[i].id = s[i].id
  PROVE  DistinctIds(t)
BY DEF DistinctIds

\* The upsert of distinct rows into distinct rows.
LEMMA MergeRowsDistinct ==
  ASSUME NEW S, NEW e \in Seq(S), NEW n \in Seq(S), DistinctIds(e), DistinctIds(n)
  PROVE  DistinctIds(MergeRows(e, n))
<1> DEFINE m == MergeRows(e, n)
           u == [i \in DOMAIN e |->
                   IF e[i].id \in Ids(n) THEN RowOf(n, e[i].id) ELSE e[i]]
           v == Drop(n, Ids(e))
<1>1. m = u \o v
  BY DEF MergeRows
<1>2. \A i \in DOMAIN e :
        \/ e[i].id \in Ids(n) /\ u[i] \in RowSet(n) /\ u[i].id = e[i].id
        \/ e[i].id \notin Ids(n) /\ u[i] = e[i]
  BY RowOfId
<1>3. DOMAIN u = DOMAIN e /\ Rewrites(u, e)
  BY DEF Rewrites
<1> HIDE DEF u, v
<1>4. \A i \in DOMAIN e : u[i] \in S /\ u[i].id = e[i].id
  BY <1>2, RowSetType
<1>5. u \in Seq(S) /\ Ids(u) = Ids(e)
  BY <1>3, <1>4, RewrittenRows
<1>6. DistinctIds(u)
  BY <1>3, <1>4, RewrittenDistinct
<1>7. v \in Seq(S) /\ Ids(v) = Ids(n) \ Ids(e) /\ DistinctIds(v)
  BY DropRows, DropDistinct DEF v
<1>8. DistinctIds(u \o v)
  BY <1>5, <1>6, <1>7, ConcatDistinct
<1> QED BY <1>1, <1>8
=============================================================================
