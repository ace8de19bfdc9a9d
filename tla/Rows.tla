-------------------------------- MODULE Rows --------------------------------
(***************************************************************************)
(* Operators on the row arrays that the desktop keeps in sync-queue.json   *)
(* and sync-failed.json.  A row is a record with an id field (_queue_id).  *)
(* The JavaScript filters are written here without recursion, by ranking   *)
(* the kept indexes, so that theorems can be proved about them.            *)
(***************************************************************************)
EXTENDS Naturals, Sequences, FiniteSets

\* The position of index k among the indexes K, in increasing order.
Rank(K, k) == Cardinality({m \in K : m <= k})

\* The rows of s at the indexes K, in the order they have in s.
SelectAt(s, K) ==
  [j \in 1..Cardinality(K) |-> s[CHOOSE k \in K : Rank(K, k) = j]]

\* The _queue_id values of an array of rows.
Ids(s) == {s[i].id : i \in DOMAIN s}

\* The rows of an array, as a set.
RowSet(s) == {s[i] : i \in DOMAIN s}

\* filter(row => ids.has(row._queue_id)) and its complement.
Keep(s, ids) == SelectAt(s, {i \in DOMAIN s : s[i].id \in ids})
Drop(s, ids) == SelectAt(s, {i \in DOMAIN s : s[i].id \notin ids})

\* splice(i, 1): the array without its i-th row.
RemoveIndex(s, i) == SelectAt(s, DOMAIN s \ {i})

\* find(row => row._queue_id === id)
RowOf(s, id) == s[CHOOSE i \in DOMAIN s : s[i].id = id]

\* collectNewDiskQueueArrivals: the disk rows whose id nobody has seen yet.
NewArrivals(disk, seen) == Drop(disk, seen)

\* Mutant: rows that are not there yet are not added.
UpdateRows(existing, incoming) ==
  [i \in DOMAIN existing |->
     IF existing[i].id \in Ids(incoming) THEN RowOf(incoming, existing[i].id)
                                         ELSE existing[i]]

\* mergeDeadLetterQueues: an upsert by id, existing rows first.
MergeRows(existing, incoming) ==
  [i \in DOMAIN existing |->
     IF existing[i].id \in Ids(incoming) THEN RowOf(incoming, existing[i].id)
                                         ELSE existing[i]]
    \o Drop(incoming, Ids(existing))

\* No two rows of the array carry the same id.
DistinctIds(s) == \A i, j \in DOMAIN s : s[i].id = s[j].id => i = j
=============================================================================
