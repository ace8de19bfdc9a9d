-------------------------- MODULE SyncQueueProofs ---------------------------
(***************************************************************************)
(* Proofs about the replay engine for every set of operations, dependency  *)
(* relation, retry budget and bound: its types, and that no accepted       *)
(* operation is ever lost.                                                 *)
(***************************************************************************)
EXTENDS SyncQueue, RowsTheorems

-----------------------------------------------------------------------------
(* Rows and rewritten arrays *)

LEMMA NewRowType == \A o \in Ops : NewRow(o) \in Row /\ NewRow(o).id = o
BY DEF NewRow, Row

LEMMA RowWithWait ==
  ASSUME NEW r \in Row, NEW w \in BOOLEAN
  PROVE  LET q == [r EXCEPT !.wait = w]
         IN q \in Row /\ q.id = r.id /\ q.st = r.st
BY DEF Row

\* What the manager returns to the queue keeps its ids and is pending.
LEMMA RetriedRows ==
  ASSUME NEW s \in Seq(Row), NEW elapsed \in BOOLEAN
  PROVE  /\ Retried(s, elapsed) \in Seq(Row) /\ Ids(Retried(s, elapsed)) = Ids(s)
         /\ \A r \in RowSet(Retried(s, elapsed)) : r.st = "pending"
<1> DEFINE t == Retried(s, elapsed)
<1>1. DOMAIN t = DOMAIN s /\ Rewrites(t, s)
  BY DEF Retried, Rewrites
<1>2. \A i \in DOMAIN s : t[i] \in Row /\ t[i].id = s[i].id /\ t[i].st = "pending"
  <2> TAKE i \in DOMAIN s
  <2> DEFINE row == s[i]
             w == row.wait /\ ~elapsed
             n == IF row.retry = 0 THEN 0 ELSE row.retry - 1
  <2>1. row \in Row
    OBVIOUS
  <2>2. t[i] = [row EXCEPT !.st = "pending", !.wait = w, !.retry = n]
    BY DEF Retried
  <2> HIDE DEF t, row
  <2>3. n \in Nat
    BY <2>1 DEF Row
  <2>4. w \in BOOLEAN
    OBVIOUS
  <2> HIDE DEF w, n
  <2>5. t[i] \in Row /\ t[i].id = row.id /\ t[i].st = "pending"
    BY <2>1, <2>2, <2>3, <2>4 DEF Row
  <2> QED BY <2>5 DEF row
<1> HIDE DEF t
<1>3. t \in Seq(Row) /\ Ids(t) = Ids(s)
  BY <1>1, <1>2, RewrittenRows
<1>4. \A r \in RowSet(t) : r.st = "pending"
  BY <1>1, <1>2, RowSetMember
<1> QED BY <1>3, <1>4 DEF t

LEMMA SweptRows ==
  ASSUME NEW s \in Seq(Row)
  PROVE  /\ Swept(s) \in Seq(Row) /\ Ids(Swept(s)) = Ids(s)
         /\ \A r \in RowSet(Swept(s)) : r.st = "pending"
<1> DEFINE t == Swept(s)
<1>1. DOMAIN t = DOMAIN s /\ Rewrites(t, s)
  BY DEF Swept, Rewrites
<1>2. \A i \in DOMAIN s : t[i] \in Row /\ t[i].id = s[i].id /\ t[i].st = "pending"
  <2> TAKE i \in DOMAIN s
  <2> DEFINE row == s[i]
             zero == 0
  <2>1. row \in Row /\ zero \in Nat
        /\ t[i] = [row EXCEPT !.st = "pending", !.retry = zero]
    BY DEF Swept
  <2> HIDE DEF t, row, zero
  <2>2. t[i] \in Row /\ t[i].id = row.id /\ t[i].st = "pending"
    BY <2>1 DEF Row
  <2> QED BY <2>2 DEF row
<1> HIDE DEF t
<1>3. t \in Seq(Row) /\ Ids(t) = Ids(s)
  BY <1>1, <1>2, RewrittenRows
<1>4. \A r \in RowSet(t) : r.st = "pending"
  BY <1>1, <1>2, RowSetMember
<1> QED BY <1>3, <1>4 DEF t

LEMMA UnparkedRows ==
  ASSUME NEW s \in Seq(Row)
  PROVE  /\ Unparked(s) \in Seq(Row) /\ Ids(Unparked(s)) = Ids(s)
         /\ \A r \in RowSet(Unparked(s)) : r.st = "pending"
<1> DEFINE t == Unparked(s)
<1>1. DOMAIN t = DOMAIN s /\ Rewrites(t, s)
  BY DEF Unparked, Rewrites
<1>2. \A i \in DOMAIN s : t[i] \in Row /\ t[i].id = s[i].id /\ t[i].st = "pending"
  <2> TAKE i \in DOMAIN s
  <2>1. s[i] \in Row /\ t[i] = NewRow(s[i].id)
    BY DEF Unparked
  <2>2. s[i].id \in Ops
    BY <2>1 DEF Row
  <2> HIDE DEF t
  <2> QED BY <2>1, <2>2, NewRowType DEF NewRow
<1> HIDE DEF t
<1>3. t \in Seq(Row) /\ Ids(t) = Ids(s)
  BY <1>1, <1>2, RewrittenRows
<1>4. \A r \in RowSet(t) : r.st = "pending"
  BY <1>1, <1>2, RowSetMember
<1> QED BY <1>3, <1>4 DEF t

\* The rows released behind a completed parent keep their ids and states.
LEMMA ReleaseRows ==
  ASSUME NEW s \in Seq(Row), NEW o
  PROVE  /\ Release(s, o) \in Seq(Row) /\ Ids(Release(s, o)) = Ids(s)
         /\ \A r \in RowSet(Release(s, o)) :
              \E q \in RowSet(s) : q.id = r.id /\ q.st = r.st
<1> DEFINE t == Release(s, o)
<1>1. DOMAIN t = DOMAIN s /\ Rewrites(t, s)
  BY DEF Release, Rewrites
<1>2. \A i \in DOMAIN s : t[i] \in Row /\ t[i].id = s[i].id /\ t[i].st = s[i].st
  <2> TAKE i \in DOMAIN s
  <2>1. s[i] \in Row /\ (t[i] = [s[i] EXCEPT !.wait = FALSE] \/ t[i] = s[i])
    BY DEF Release
  <2> HIDE DEF t
  <2> QED BY <2>1 DEF Row
<1> HIDE DEF t
<1>3. t \in Seq(Row) /\ Ids(t) = Ids(s)
  BY <1>1, <1>2, RewrittenRows
<1>4. \A r \in RowSet(t) : \E q \in RowSet(s) : q.id = r.id /\ q.st = r.st
  BY <1>1, <1>2, RowSetMember
<1> QED BY <1>3, <1>4 DEF t

\* ... and every other row is as it was.
LEMMA OtherRows ==
  ASSUME NEW s \in Seq(Row), NEW i \in DOMAIN s,
         NEW r \in RowSet([s EXCEPT ![i].wait = FALSE])
  PROVE  r.id = s[i].id \/ r \in RowSet(s)
<1>1. PICK j \in DOMAIN s : r = [s EXCEPT ![i].wait = FALSE][j]
  BY RowSetMember DEF RowSet
<1>2. CASE j = i
  <2>1. s[i] \in Row
    OBVIOUS
  <2>2. r = [s[i] EXCEPT !.wait = FALSE]
    BY <1>1, <1>2
  <2> QED BY <2>1, <2>2, RowWithWait
<1>3. CASE j # i
  BY <1>1, <1>3 DEF RowSet
<1> QED BY <1>2, <1>3

\* A row whose time has come changes nothing but its wait.
LEMMA DueRows ==
  ASSUME NEW s \in Seq(Row), NEW i \in DOMAIN s
  PROVE  /\ [s EXCEPT ![i].wait = FALSE] \in Seq(Row)
         /\ Ids([s EXCEPT ![i].wait = FALSE]) = Ids(s)
         /\ \A r \in RowSet([s EXCEPT ![i].wait = FALSE]) :
              \E q \in RowSet(s) : q.id = r.id /\ q.st = r.st
<1> DEFINE t == [s EXCEPT ![i].wait = FALSE]
<1>1. DOMAIN t = DOMAIN s /\ Rewrites(t, s)
  BY DEF Rewrites
<1>2. \A j \in DOMAIN s : t[j] \in Row /\ t[j].id = s[j].id /\ t[j].st = s[j].st
  <2> TAKE j \in DOMAIN s
  <2>1. s[j] \in Row
    OBVIOUS
  <2>2. t[j] = IF j = i THEN [s[i] EXCEPT !.wait = FALSE] ELSE s[j]
    OBVIOUS
  <2>3. CASE j = i
    BY <2>1, <2>2, <2>3, RowWithWait
  <2>4. CASE j # i
    BY <2>1, <2>2, <2>4
  <2> QED BY <2>3, <2>4
<1> HIDE DEF t
<1>3. t \in Seq(Row) /\ Ids(t) = Ids(s)
  BY <1>1, <1>2, RewrittenRows
<1>4. \A r \in RowSet(t) : \E q \in RowSet(s) : q.id = r.id /\ q.st = r.st
  BY <1>1, <1>2, RowSetMember
<1> QED BY <1>3, <1>4 DEF t

\* The rows a pass starts from: every row of the queue that is not committed.
LEMMA NormalizedRows ==
  ASSUME queue \in Seq(Row)
  PROVE  /\ Normalized \in Seq(Row)
         /\ \A r \in RowSet(queue) : r.st # "committed" => r.id \in Ids(Normalized)
         /\ Ids(Normalized) \subseteq Ids(queue)
         /\ \A r \in RowSet(Normalized) : r.st = "pending"
<1> DEFINE kept == SelectAt(queue, Live)
           t == Normalized
<1>1. /\ kept \in Seq(Row)
      /\ RowSet(kept) = {queue[k] : k \in Live}
  BY SelectAtRows DEF Live
<1>2. \A r : r \in RowSet(kept) <=> r \in RowSet(queue) /\ r.st # "committed"
  BY <1>1 DEF Live, RowSet
<1>3. DOMAIN t = DOMAIN kept /\ Rewrites(t, kept)
  BY DEF Normalized, Rewrites
<1>4. \A i \in DOMAIN kept : t[i] = [kept[i] EXCEPT !.st = "pending"]
  BY DEF Normalized
<1> HIDE DEF t, kept
<1>5. \A i \in DOMAIN kept : t[i] \in Row /\ t[i].id = kept[i].id /\ t[i].st = "pending"
  <2> TAKE i \in DOMAIN kept
  <2>1. kept[i] \in Row
    BY <1>1
  <2> QED BY <1>4, <2>1 DEF Row
<1>6. t \in Seq(Row) /\ Ids(t) = Ids(kept)
  BY <1>1, <1>3, <1>5, RewrittenRows
<1>7. \A r \in RowSet(t) : r.st = "pending"
  BY <1>3, <1>5, RowSetMember
<1>8. \A r \in RowSet(queue) : r.st # "committed" => r.id \in Ids(kept)
  BY <1>2, IdsMember
<1>9. Ids(kept) \subseteq Ids(queue)
  BY <1>2, IdsMember
<1> QED BY <1>6, <1>7, <1>8, <1>9 DEF t

-----------------------------------------------------------------------------
(* The writes of the engine *)

\* What a pass writes to the queue file: its own rows, and every disk row
\* that it has not completed, given up or excepted.
LEMMA AbsorbRows ==
  ASSUME queue \in Seq(Row), NEW rows \in Seq(Row), NEW done, NEW dl, NEW other
  PROVE  /\ Absorb(rows, done, dl, other) \in Seq(Row)
         /\ Ids(Absorb(rows, done, dl, other)) =
              Ids(rows) \cup (Ids(queue) \ (done \cup Ids(dl) \cup other))
         /\ RowSet(Absorb(rows, done, dl, other)) \subseteq RowSet(rows) \cup RowSet(queue)
<1> DEFINE seen == Ids(rows) \cup done \cup Ids(dl) \cup other
           new == NewArrivals(queue, seen)
<1> HIDE DEF seen
<1>1. /\ new \in Seq(Row) /\ Ids(new) = Ids(queue) \ seen
      /\ RowSet(new) \subseteq RowSet(queue)
  BY DropRows DEF NewArrivals
<1> HIDE DEF new
<1>2. /\ rows \o new \in Seq(Row)
      /\ RowSet(rows \o new) = RowSet(rows) \cup RowSet(new)
      /\ Ids(rows \o new) = Ids(rows) \cup Ids(new)
  BY <1>1, ConcatRows
<1>3. Absorb(rows, done, dl, other) = rows \o new
  BY DEF Absorb, new, seen
<1> QED BY <1>1, <1>2, <1>3 DEF seen

\* Rows that return to the queue: nothing leaves the queue, the failed file is
\* untouched, and it is owed without those rows.
LEMMA RequeueRows ==
  ASSUME queue \in Seq(Row), failed \in Seq(Row), NEW rows \in Seq(Row), Requeue(rows)
  PROVE  /\ queue' \in Seq(Row) /\ Ids(queue') = Ids(queue) \cup Ids(rows)
         /\ RowSet(queue') \subseteq RowSet(queue) \cup RowSet(rows)
         /\ owed' = [file |-> "failed", rows |-> Drop(failed, Ids(rows))]
         /\ Drop(failed, Ids(rows)) \in Seq(Row)
         /\ Ids(Drop(failed, Ids(rows))) = Ids(failed) \ Ids(rows)
         /\ RowSet(Drop(failed, Ids(rows))) \subseteq RowSet(failed)
<1> DEFINE new == Drop(rows, Ids(queue))
           rest == Drop(failed, Ids(rows))
<1>1. new \in Seq(Row) /\ Ids(new) = Ids(rows) \ Ids(queue) /\ RowSet(new) \subseteq RowSet(rows)
  BY DropRows
<1>2. rest \in Seq(Row) /\ Ids(rest) = Ids(failed) \ Ids(rows) /\ RowSet(rest) \subseteq RowSet(failed)
  BY DropRows
<1>3. queue' = queue \o new /\ owed' = [file |-> "failed", rows |-> rest]
  BY DEF Requeue, OweFailed
<1> HIDE DEF new, rest
<1>4. /\ queue \o new \in Seq(Row)
      /\ RowSet(queue \o new) = RowSet(queue) \cup RowSet(new)
      /\ Ids(queue \o new) = Ids(queue) \cup Ids(new)
  BY <1>1, ConcatRows
<1>5. /\ queue' \in Seq(Row) /\ Ids(queue') = Ids(queue) \cup Ids(rows)
      /\ RowSet(queue') \subseteq RowSet(queue) \cup RowSet(rows)
  BY <1>1, <1>3, <1>4
<1> QED BY <1>2, <1>3, <1>5 DEF rest

\* A row given up: it is in the failed file, and the owed queue holds the rest
\* and what arrived, without anything completed or given up.
LEMMA DeadLetterRows ==
  ASSUME queue \in Seq(Row), failed \in Seq(Row), dead \in Seq(Row),
         NEW row \in Row, NEW rest \in Seq(Row), DeadLetter(row, rest)
  PROVE  /\ dead' \in Seq(Row) /\ Ids(dead') = Ids(dead) \cup {row.id}
         /\ failed' \in Seq(Row) /\ Ids(failed') = Ids(failed) \cup {row.id}
         /\ RowSet(failed') \subseteq {row} \cup {r \in RowSet(failed) : r.id # row.id}
         /\ pending' \in Seq(Row) /\ queue' = queue
         /\ owed' = [file |-> "queue", rows |-> pending']
         /\ Ids(pending') = Ids(rest) \cup (Ids(queue) \ (completed \cup Ids(dead')))
         /\ RowSet(pending') \subseteq RowSet(rest) \cup RowSet(queue)
<1> DEFINE one == <<row>>
           dl == dead'
<1>1. /\ dl = Append(dead, row)
      /\ failed' = MergeRows(failed, one)
      /\ pending' = Absorb(rest, completed, dl, {})
      /\ owed' = [file |-> "queue", rows |-> pending'] /\ queue' = queue
  BY DEF DeadLetter, OweQueue
<1>2. dl \in Seq(Row) /\ Ids(dl) = Ids(dead) \cup {row.id}
  BY <1>1, AppendRows
<1>3. one \in Seq(Row) /\ RowSet(one) = {row} /\ Ids(one) = {row.id}
  BY OneRow
<1> HIDE DEF one, dl
<1>4. /\ MergeRows(failed, one) \in Seq(Row)
      /\ RowSet(MergeRows(failed, one)) \subseteq
           RowSet(one) \cup {r \in RowSet(failed) : r.id \notin Ids(one)}
      /\ Ids(MergeRows(failed, one)) = Ids(failed) \cup Ids(one)
  BY <1>3, MergeRowsRows
<1>5. /\ Absorb(rest, completed, dl, {}) \in Seq(Row)
      /\ Ids(Absorb(rest, completed, dl, {})) =
           Ids(rest) \cup (Ids(queue) \ (completed \cup Ids(dl) \cup {}))
      /\ RowSet(Absorb(rest, completed, dl, {})) \subseteq RowSet(rest) \cup RowSet(queue)
  BY AbsorbRows
<1>6. /\ failed' \in Seq(Row) /\ Ids(failed') = Ids(failed) \cup {row.id}
      /\ RowSet(failed') \subseteq {row} \cup {r \in RowSet(failed) : r.id # row.id}
  BY <1>1, <1>3, <1>4
<1>7. /\ pending' \in Seq(Row)
      /\ Ids(pending') = Ids(rest) \cup (Ids(queue) \ (completed \cup Ids(dl)))
      /\ RowSet(pending') \subseteq RowSet(rest) \cup RowSet(queue)
  BY <1>1, <1>5
<1> QED BY <1>1, <1>2, <1>6, <1>7 DEF dl

LEMMA KeepQueuedRows ==
  ASSUME queue \in Seq(Row), NEW row \in Row, NEW rest \in Seq(Row),
         KeepQueued(row, rest)
  PROVE  /\ pending' \in Seq(Row) /\ queue' = pending'
         /\ failed' = failed /\ owed' = owed /\ dead' = dead
         /\ Ids(pending') = Ids(rest) \cup {row.id}
                             \cup (Ids(queue) \ (completed \cup Ids(dead)))
         /\ RowSet(pending') \subseteq RowSet(rest) \cup {row} \cup RowSet(queue)
<1> DEFINE rows == Append(rest, row)
<1>1. /\ rows \in Seq(Row) /\ RowSet(rows) = RowSet(rest) \cup {row}
      /\ Ids(rows) = Ids(rest) \cup {row.id}
  BY AppendRows
<1>2. /\ pending' = Absorb(rows, completed, dead, {}) /\ queue' = pending'
      /\ failed' = failed /\ owed' = owed /\ dead' = dead
  BY DEF KeepQueued
<1> HIDE DEF rows
<1>3. /\ Absorb(rows, completed, dead, {}) \in Seq(Row)
      /\ Ids(Absorb(rows, completed, dead, {})) =
           Ids(rows) \cup (Ids(queue) \ (completed \cup Ids(dead) \cup {}))
      /\ RowSet(Absorb(rows, completed, dead, {})) \subseteq RowSet(rows) \cup RowSet(queue)
  BY <1>1, AbsorbRows
<1> QED BY <1>1, <1>2, <1>3

-----------------------------------------------------------------------------
(* Type correctness *)

\* The ids of an array of rows are operations.
LEMMA IdsType ==
  ASSUME NEW s \in Seq(Row)
  PROVE  Ids(s) \in SUBSET Ops
<1>1. \A r \in Row : r.id \in Ops
  BY DEF Row
<1>2. RowSet(s) \in SUBSET Row
  BY RowSetType
<1> QED BY <1>1, <1>2, IdsMember

LEMMA TypeInit == Init => TypeOK
<1>1. <<>> \in Seq(Row)
  OBVIOUS
<1> QED BY <1>1, RetriesAssumption, BoundsAssumption DEF Init, TypeOK, NoWrite

\* One case per action; the variables an action leaves alone keep their types.
LEMMA TypeStep == TypeOK /\ [Next]_vars => TypeOK'
<1> SUFFICES ASSUME TypeOK, [Next]_vars PROVE TypeOK'
  OBVIOUS
<1>0. /\ queue \in Seq(Row) /\ failed \in Seq(Row) /\ dead \in Seq(Row)
      /\ pending \in Seq(Row) /\ inflight \in Seq(Row)
  BY DEF TypeOK
<1>1. ASSUME NEW o \in Ops, QueueOperation(o) PROVE TypeOK'
  <2>1. Append(queue, NewRow(o)) \in Seq(Row)
    BY <1>0, NewRowType, AppendRows
  <2> QED BY <1>1, <2>1 DEF QueueOperation, TypeOK, pass, network
<1>2. CASE RetrySyncItems
  <2>1. PICK ids \in SUBSET Ids(failed), elapsed \in BOOLEAN :
          /\ Requeue(Retried(Keep(failed, ids), elapsed))
          /\ manager' = [o \in Ops |->
               IF o \notin ids THEN manager[o]
               ELSE IF o \in Ids(dead) THEN "undone"
               ELSE IF manager[o] = "none" THEN "retried" ELSE manager[o]]
    BY <1>2 DEF RetrySyncItems
  <2>2. Retried(Keep(failed, ids), elapsed) \in Seq(Row)
    BY <1>0, KeepRows, RetriedRows
  <2>3. queue' \in Seq(Row) /\ owed' \in [file : {"none", "queue", "failed"}, rows : Seq(Row)]
    BY <1>0, <2>1, <2>2, RequeueRows
  <2>4. manager' \in [Ops -> {"none", "retried", "undone"}]
    BY <2>1 DEF TypeOK
  <2> QED BY <1>2, <2>3, <2>4 DEF RetrySyncItems, TypeOK, pass, network
<1>3. CASE ClearSyncFailed
  <2>1. PICK ids \in SUBSET Ids(failed) :
          failed' = Drop(failed, ids) /\ cleared' = cleared \cup ids
    BY <1>3 DEF ClearSyncFailed
  <2>2. failed' \in Seq(Row)
    BY <1>0, <2>1, DropRows
  <2>3. cleared' \in SUBSET Ops
    BY <1>0, <2>1, IdsType DEF TypeOK
  <2> QED BY <1>3, <2>2, <2>3 DEF ClearSyncFailed, TypeOK, pass, network
<1>4. RequeueEligible =>
        queue' \in Seq(Row) /\ owed' \in [file : {"none", "queue", "failed"}, rows : Seq(Row)]
  <2>1. Swept(Keep(failed, Eligible)) \in Seq(Row)
    BY <1>0, KeepRows, SweptRows
  <2> QED BY <1>0, <2>1, RequeueRows DEF RequeueEligible
<1>5. CASE TimerSweep
  BY <1>4, <1>5 DEF TimerSweep, TypeOK, pass, network, history
<1>6. CASE CompleteWrite
  <2>1. NoWrite \in [file : {"none", "queue", "failed"}, rows : Seq(Row)]
    <3>1. <<>> \in Seq(Row)
      OBVIOUS
    <3> QED BY <3>1 DEF NoWrite
  <2>2. owed.rows \in Seq(Row)
    BY DEF TypeOK
  <2> QED BY <1>6, <2>1, <2>2 DEF CompleteWrite, TypeOK, pass, network, history
<1>7. ASSUME NEW o \in Ops, BecomeDue(o) PROVE TypeOK'
  <2>1. CASE \E i \in DOMAIN queue : queue' = [queue EXCEPT ![i].wait = FALSE] /\ UNCHANGED failed
    <3>1. queue' \in Seq(Row) /\ failed' = failed
      BY <1>0, <2>1, DueRows
    <3> QED BY <1>7, <3>1 DEF BecomeDue, TypeOK, pass, network, history
  <2>2. CASE \E i \in DOMAIN failed : failed' = [failed EXCEPT ![i].wait = FALSE] /\ UNCHANGED queue
    <3>1. failed' \in Seq(Row) /\ queue' = queue
      BY <1>0, <2>2, DueRows
    <3> QED BY <1>7, <3>1 DEF BecomeDue, TypeOK, pass, network, history
  <2> QED BY <1>7, <2>1, <2>2 DEF BecomeDue
<1>8. CASE StartPass \/ RunSyncNow
  BY <1>4, <1>8 DEF StartPass, RunSyncNow, BeginPass, TypeOK, network, history
<1>9. Parked \in SUBSET Ops
  BY <1>0, IdsType DEF Parked
<1>10. CASE ProbeContract
  BY <1>9, <1>10 DEF ProbeContract, TypeOK, At, disk, network, history
<1>11. CASE ContractAnswer
  <2>1. Unparked(Keep(failed, Parked \cap stale)) \in Seq(Row)
    BY <1>0, KeepRows, UnparkedRows
  <2>2. Requeue(Unparked(Keep(failed, Parked \cap stale))) =>
          queue' \in Seq(Row) /\ owed' \in [file : {"none", "queue", "failed"}, rows : Seq(Row)]
    BY <1>0, <2>1, RequeueRows
  <2> QED BY <1>11, <2>2 DEF ContractAnswer, TypeOK, At, network, history
<1>12. CASE LoadQueue
  <2>1. Normalized \in Seq(Row)
    BY <1>0, NormalizedRows
  <2>2. failedIds' \in SUBSET Ops
    BY <1>0, <1>12, IdsType DEF LoadQueue, Seeded
  <2>3. priorIds' \in SUBSET Ops /\ priorManual' \in SUBSET Ops
    BY <1>12, <2>2 DEF LoadQueue
  <2> QED BY <1>12, <2>1, <2>2, <2>3 DEF LoadQueue, TypeOK, At, network, history
<1>13. CASE PauseOffline
  <2>1. Absorb(pending, completed, dead, {}) \in Seq(Row)
    BY <1>0, AbsorbRows
  <2> QED BY <1>13, <2>1 DEF PauseOffline, TypeOK, At, network, history
<1>14. CASE DetectCycle
  BY <1>14 DEF DetectCycle, TypeOK, At, disk, network, history
<1>15. CASE DeadLetterCycle
  <2>1. CASE pending = <<>>
    <3> DEFINE none == <<>>
    <3>0. none \in Seq(Row) /\ none = <<>>
      OBVIOUS
    <3> HIDE DEF none
    <3>1. Absorb(none, completed, dead, {}) \in Seq(Row)
      BY <1>0, <3>0, AbsorbRows
    <3> QED BY <1>15, <2>1, <3>0, <3>1 DEF DeadLetterCycle, TypeOK, At, network, history
  <2>2. CASE pending # <<>>
    <3> DEFINE head == Head(pending)
               row == [head EXCEPT !.st = "pending", !.retry = MaxRetries, !.manual = TRUE]
               one == <<row>>
    <3>1. head \in Row /\ Tail(pending) \in Seq(Row)
      BY <1>0, <2>2, HeadTailRows
    <3> HIDE DEF head
    <3>2. row \in Row
      <4>1. MaxRetries \in Nat
        BY RetriesAssumption
      <4> QED BY <3>1, <4>1 DEF Row
    <3>3. /\ dead' = Append(dead, row) /\ failed' = MergeRows(failed, one)
          /\ failedIds' = failedIds \cup {row.id} /\ pending' = Tail(pending)
          /\ queue' = queue /\ pc' = pc
      BY <1>15, <2>2 DEF DeadLetterCycle, head
    <3> HIDE DEF row
    <3>4. one \in Seq(Row)
      BY <3>2, OneRow
    <3> HIDE DEF one
    <3>5. dead' \in Seq(Row) /\ failed' \in Seq(Row)
      BY <1>0, <3>2, <3>3, <3>4, AppendRows, MergeRowsRows
    <3>6. failedIds' \in SUBSET Ops
      BY <3>2, <3>3 DEF TypeOK, Row
    <3> QED BY <1>15, <3>1, <3>3, <3>5, <3>6 DEF DeadLetterCycle, TypeOK, network, history
  <2> QED BY <2>1, <2>2
<1>16. ASSUME NEW i \in DOMAIN pending
       PROVE  pending[i] \in Row /\ RemoveIndex(pending, i) \in Seq(Row)
  BY <1>0, RemoveIndexRows
<1>17. ASSUME NEW i \in DOMAIN pending, DeferRow(i) PROVE TypeOK'
  <2> DEFINE rotated == Append(RemoveIndex(pending, i), pending[i])
  <2>1. rotated \in Seq(Row)
    BY <1>16, AppendRows
  <2>2. \/ queue' = Absorb(rotated, completed, dead, {}) /\ pending' = queue'
           /\ pc' = "end"
        \/ pending' = rotated /\ queue' = queue /\ pc' = pc
    BY <1>17 DEF DeferRow
  <2> HIDE DEF rotated
  <2>3. Absorb(rotated, completed, dead, {}) \in Seq(Row)
    BY <1>0, <2>1, AbsorbRows
  <2>4. queue' \in Seq(Row) /\ pending' \in Seq(Row)
    BY <1>0, <2>1, <2>2, <2>3
  <2>5. deferred' \in Nat
    BY <1>17 DEF DeferRow, TypeOK
  <2> QED BY <1>17, <2>2, <2>4, <2>5 DEF DeferRow, LoopTop, At, TypeOK, network, history
<1>18. ASSUME NEW row \in Row, NEW rest \in Seq(Row), DeadLetter(row, rest)
       PROVE  /\ queue' \in Seq(Row) /\ failed' \in Seq(Row)
              /\ pending' \in Seq(Row) /\ dead' \in Seq(Row)
              /\ owed' \in [file : {"none", "queue", "failed"}, rows : Seq(Row)]
  <2>1. /\ dead' \in Seq(Row) /\ failed' \in Seq(Row) /\ pending' \in Seq(Row)
        /\ queue' = queue /\ owed' = [file |-> "queue", rows |-> pending']
    BY <1>0, <1>18, DeadLetterRows
  <2> QED BY <1>0, <2>1
<1>19. ASSUME NEW row \in Row, NEW rest \in Seq(Row), KeepQueued(row, rest)
       PROVE  /\ queue' \in Seq(Row) /\ failed' \in Seq(Row)
              /\ pending' \in Seq(Row) /\ dead' \in Seq(Row)
              /\ owed' \in [file : {"none", "queue", "failed"}, rows : Seq(Row)]
  <2>1. /\ pending' \in Seq(Row) /\ queue' = pending'
        /\ failed' = failed /\ owed' = owed /\ dead' = dead
    BY <1>0, <1>19, KeepQueuedRows
  <2> QED BY <1>0, <2>1 DEF TypeOK
<1>20. ASSUME NEW i \in DOMAIN pending, SkipDependent(i) PROVE TypeOK'
  <2> DEFINE row == pending[i]
             rest == RemoveIndex(pending, i)
             given == [row EXCEPT !.st = "pending", !.retry = MaxRetries, !.manual = TRUE]
             kept == Skipped(row)
  <2>1. DeadLetter(given, rest) \/ DeadLetter(kept, rest) \/ KeepQueued(kept, rest)
    BY <1>20 DEF SkipDependent
  <2>2. row \in Row /\ rest \in Seq(Row)
    BY <1>16
  <2> HIDE DEF row, rest
  <2>3. MaxRetries \in Nat
    BY RetriesAssumption
  <2>4. given \in Row /\ kept \in Row
    BY <2>2, <2>3 DEF Row, Skipped
  <2> HIDE DEF given, kept
  <2>5. /\ queue' \in Seq(Row) /\ failed' \in Seq(Row)
        /\ pending' \in Seq(Row) /\ dead' \in Seq(Row)
        /\ owed' \in [file : {"none", "queue", "failed"}, rows : Seq(Row)]
    BY <1>18, <1>19, <2>1, <2>2, <2>4
  <2> QED BY <1>20, <2>5 DEF SkipDependent, TypeOK, network, history
<1>21. ASSUME NEW i \in DOMAIN pending, Dispatch(i) PROVE TypeOK'
  <2> DEFINE row == pending[i]
             rest == RemoveIndex(pending, i)
             sent == [row EXCEPT !.st = "in_flight"]
             one == <<sent>>
             all == Absorb(rest, completed, dead, {row.id})
  <2>1. /\ pending' = all /\ inflight' = <<row>> /\ queue' = one \o all
        /\ wire' = wire \cup {row.id}
        /\ attempts' = [attempts EXCEPT ![row.id] = IF @ < MaxRetries THEN @ + 1 ELSE @]
    BY <1>21 DEF Dispatch
  <2>2. row \in Row /\ rest \in Seq(Row)
    BY <1>16
  <2> HIDE DEF row, rest
  <2>3. sent \in Row /\ row.id \in Ops
    BY <2>2 DEF Row
  <2> HIDE DEF sent
  <2>4. one \in Seq(Row) /\ <<row>> \in Seq(Row) /\ <<row>> # <<>>
    BY <2>2, <2>3
  <2>5. all \in Seq(Row)
    BY <1>0, <2>2, AbsorbRows
  <2> HIDE DEF one, all
  <2>6. one \o all \in Seq(Row)
    BY <2>4, <2>5, ConcatRows
  <2>7. attempts' \in [Ops -> 0..MaxRetries]
    BY <2>1, <2>3, RetriesAssumption DEF TypeOK
  <2>8. wire' \in SUBSET Ops
    BY <2>1, <2>3 DEF TypeOK
  <2>9. inflight' \in Seq(Row) /\ inflight' # <<>>
    BY <2>1, <2>4
  <2> QED BY <1>21, <2>1, <2>5, <2>6, <2>7, <2>8, <2>9 DEF Dispatch, TypeOK
<1>22. ASSUME NEW o \in Ops, ServerExecute(o) PROVE TypeOK'
  BY <1>22 DEF ServerExecute, TypeOK, disk, pass, history
<1>23. pc = "rpc" => Head(inflight) \in Row
  <2> SUFFICES ASSUME pc = "rpc" PROVE Head(inflight) \in Row
    OBVIOUS
  <2>1. inflight # <<>>
    BY DEF TypeOK
  <2> QED BY <1>0, <2>1, HeadTailRows
<1>24. CASE Succeed
  <2> DEFINE row == Head(inflight)
             mark == [row EXCEPT !.st = "committed"]
             one == <<mark>>
             done == completed \cup {row.id}
             rel == Release(pending, row.id)
             all == Absorb(rel, done, dead, {})
  <2>1. /\ completed' = done /\ confirmed' = confirmed \cup {row.id}
        /\ pending' = all /\ queue' = one \o all
        /\ owed' = [file |-> "queue", rows |-> all]
    BY <1>24 DEF Succeed, OweQueue
  <2>2. row \in Row
    BY <1>23, <1>24 DEF Succeed, At
  <2> HIDE DEF row
  <2>3. mark \in Row /\ row.id \in Ops
    BY <2>2 DEF Row
  <2> HIDE DEF mark
  <2>4. one \in Seq(Row)
    BY <2>3
  <2>5. rel \in Seq(Row)
    BY <1>0, ReleaseRows
  <2> HIDE DEF one, rel
  <2>6. all \in Seq(Row)
    BY <1>0, <2>5, AbsorbRows
  <2> HIDE DEF all
  <2>7. one \o all \in Seq(Row)
    BY <2>4, <2>6, ConcatRows
  <2>8. owed' \in [file : {"none", "queue", "failed"}, rows : Seq(Row)]
    BY <2>1, <2>6
  <2>9. inflight' \in Seq(Row)
    BY <1>24 DEF Succeed
  <2> QED BY <1>24, <2>1, <2>3, <2>6, <2>7, <2>8, <2>9 DEF Succeed, TypeOK, network
<1>25. ASSUME NEW verdict \in Verdicts, Fail(verdict) PROVE TypeOK'
  <2> DEFINE row == Head(inflight)
             next == Failure(row, verdict)
             parked == row.manual \/ verdict # "transient"
             retry == IF parked THEN MaxRetries ELSE row.retry + 1
             wait == verdict \in {"transient", "worded_refusal"}
             park == verdict = "contract_missing"
  <2>1. DeadLetter(next, pending) \/ KeepQueued(next, pending)
    BY <1>25 DEF Fail
  <2>2. row \in Row
    BY <1>23, <1>25 DEF Fail, At
  <2>3. next = [row EXCEPT !.st = "pending", !.manual = parked, !.retry = retry,
                           !.wait = wait, !.park = park]
    BY DEF Failure
  <2> HIDE DEF row, next
  <2>4. retry \in Nat /\ row.id \in Ops
    BY <2>2, RetriesAssumption DEF Row
  <2>5. parked \in BOOLEAN /\ wait \in BOOLEAN /\ park \in BOOLEAN
    OBVIOUS
  <2> HIDE DEF parked, retry, wait, park
  <2>6. next \in Row
    BY <2>2, <2>3, <2>4, <2>5 DEF Row
  <2>7. /\ queue' \in Seq(Row) /\ failed' \in Seq(Row)
        /\ pending' \in Seq(Row) /\ dead' \in Seq(Row)
        /\ owed' \in [file : {"none", "queue", "failed"}, rows : Seq(Row)]
    BY <1>0, <1>18, <1>19, <2>1, <2>6
  <2>8. /\ failedIds' = failedIds \cup {row.id} /\ inflight' = <<>> /\ pc' = "loop"
        /\ faults' \in 0..MaxFaults /\ wire' \in SUBSET Ops
        /\ UNCHANGED <<completed, priorIds, priorManual, deferred, stale, online,
                       applied, crashes, history>>
    BY <1>25, BoundsAssumption DEF Fail, TypeOK, row
  <2>9. inflight' \in Seq(Row)
    BY <2>8
  <2> QED BY <2>4, <2>7, <2>8, <2>9 DEF TypeOK, history
<1>26. CASE EndPass
  <2>1. Absorb(pending, completed, dead, {}) \in Seq(Row)
    BY <1>0, AbsorbRows
  <2>2. pending' \in Seq(Row)
    BY <1>26 DEF EndPass
  <2> QED BY <1>26, <2>1, <2>2 DEF EndPass, TypeOK, network, history
<1>27. <<>> \in Seq(Row) /\ NoWrite \in [file : {"none", "queue", "failed"}, rows : Seq(Row)]
  <2>1. <<>> \in Seq(Row)
    OBVIOUS
  <2> QED BY <2>1 DEF NoWrite
<1>28. CASE FinishPass
  <2>1. MergeRows(failed, dead) \in Seq(Row)
    BY <1>0, MergeRowsRows
  <2> QED BY <1>27, <1>28, <2>1 DEF FinishPass, ForgetPass, TypeOK, network, history
<1>29. CASE GoOffline
  <2>1. faults' \in 0..MaxFaults
    BY <1>29, BoundsAssumption DEF GoOffline, TypeOK
  <2>2. pc' = pc /\ inflight' = inflight /\ online' = FALSE
    BY <1>29 DEF GoOffline, pass
  <2> QED BY <1>29, <2>1, <2>2 DEF GoOffline, TypeOK, disk, pass, history
<1>30. CASE GoOnline
  BY <1>30 DEF GoOnline, TypeOK, disk, pass, history
<1>31. CASE Crash
  <2>1. pc' = "idle" /\ inflight' = <<>>
    BY <1>31 DEF Crash, ForgetPass
  <2>2. crashes' \in 0..MaxCrashes
    BY <1>31, BoundsAssumption DEF Crash, TypeOK
  <2>3. deferred' = 0 /\ 0 \in Nat
    BY <1>31 DEF Crash, ForgetPass
  <2>4. /\ pending' \in Seq(Row) /\ inflight' \in Seq(Row) /\ dead' \in Seq(Row)
        /\ owed' \in [file : {"none", "queue", "failed"}, rows : Seq(Row)]
    BY <1>27, <1>31 DEF Crash, ForgetPass
  <2>5. /\ completed' = {} /\ failedIds' = {} /\ priorIds' = {}
        /\ priorManual' = {} /\ stale' = {}
    BY <1>31 DEF Crash, ForgetPass
  <2>6. UNCHANGED <<queue, failed, online, wire, applied, faults, accepted,
                   confirmed, cleared, manager, attempts>>
    BY <1>31 DEF Crash, history
  <2> QED BY <2>1, <2>2, <2>3, <2>4, <2>5, <2>6 DEF TypeOK
<1>32. CASE UNCHANGED vars
  BY <1>32 DEF TypeOK, vars, disk, pass, network, history
<1> QED
  BY <1>1, <1>2, <1>3, <1>5, <1>6, <1>7, <1>8, <1>10, <1>11, <1>12, <1>13, <1>14,
     <1>15, <1>17, <1>20, <1>21, <1>22, <1>24, <1>25, <1>26, <1>28, <1>29, <1>30,
     <1>31, <1>32 DEF Next, PassStep

\* The variables keep their types (the shapes of the two files, of the pass's
\* working set and of the histories) in every reachable state.
THEOREM TypeCorrect == Spec => []TypeOK
BY TypeInit, TypeStep, PTL DEF Spec

-----------------------------------------------------------------------------
(* No accepted operation is lost *)

LEMMA CustodyInit == Init => ReplayCustody
BY NoRows DEF Init, ReplayCustody, CustodyAcrossWrites, HeldBack,
              CommittedRowsConfirmed, NoWrite

\* What a pass drops from the queue because it holds it completed or dead is
\* in the failed file or needs no custody.
LEMMA DroppedRowsSafe ==
  ASSUME ReplayCustody, NEW o \in completed \cup Ids(dead)
  PROVE  o \in Ids(failed) \cup confirmed \cup cleared \/ Undone(o)
BY DEF ReplayCustody, HeldBack

\* A section that returns rows to the queue keeps everything in custody, when
\* what it returns is not held dead by a pass that would erase it again.
LEMMA RequeueCustody ==
  ASSUME TypeOK, ReplayCustody, Settled,
         NEW rows \in Seq(Row), Requeue(rows), Ids(rows) \subseteq Ids(failed),
         \A r \in RowSet(rows) : r.st = "pending",
         \A o \in Ids(rows) \cap Ids(dead) : o \in cleared \cup confirmed \/ Undone(o)',
         \A o \in Ops : Undone(o) => Undone(o)',
         UNCHANGED <<failed, dead, accepted, confirmed, cleared>>
  PROVE  /\ CustodyAcrossWrites'
         /\ HeldBack(failed)' /\ HeldBack(owed.rows)'
         /\ owed'.file = "failed"
         /\ CommittedRowsConfirmed(queue)'
<1> DEFINE rest == Drop(failed, Ids(rows))
<1>1. /\ Ids(queue') = Ids(queue) \cup Ids(rows)
      /\ RowSet(queue') \subseteq RowSet(queue) \cup RowSet(rows)
      /\ owed' = [file |-> "failed", rows |-> rest]
      /\ Ids(rest) = Ids(failed) \ Ids(rows)
      /\ RowSet(rest) \subseteq RowSet(failed)
  BY RequeueRows DEF TypeOK
<1> HIDE DEF rest
<1>2. owed'.file = "failed" /\ owed'.rows = rest
  BY <1>1
<1>3. accepted \in SUBSET Ops /\ Ids(dead) \in SUBSET Ops
  BY IdsType DEF TypeOK
<1>4. \A o \in accepted : Custody(o, queue, failed) \/ Undone(o)
  BY DEF ReplayCustody, CustodyAcrossWrites
<1>5. CustodyAcrossWrites'
  <2>1. \A o \in accepted : Custody(o, queue, failed)' \/ Undone(o)'
    BY <1>1, <1>3, <1>4 DEF Custody
  <2>2. \A o \in accepted : Custody(o, queue, owed.rows)' \/ Undone(o)'
    BY <1>1, <1>2, <1>3, <1>4 DEF Custody
  <2> QED BY <1>2, <2>1, <2>2 DEF CustodyAcrossWrites
<1>6. HeldBack(failed)
  BY DEF ReplayCustody
<1>7. HeldBack(failed)'
  BY <1>3, <1>6 DEF HeldBack
<1>8. HeldBack(owed.rows)'
  BY <1>1, <1>2, <1>3, <1>6 DEF HeldBack
<1>9. CommittedRowsConfirmed(queue)'
  BY <1>1 DEF ReplayCustody, CommittedRowsConfirmed
<1> QED BY <1>2, <1>5, <1>7, <1>8, <1>9

\* Giving a row up keeps everything in custody: it is in the failed file
\* before the queue is written without it.
LEMMA DeadLetterCustody ==
  ASSUME TypeOK, ReplayCustody, Settled,
         NEW row \in Row, NEW rest \in Seq(Row), DeadLetter(row, rest),
         row.manual \/ row.wait,
         RowSet(rest) \subseteq RowSet(pending),
         UNCHANGED <<accepted, confirmed, cleared, manager, completed>>
  PROVE  /\ CustodyAcrossWrites' /\ HeldBack(failed)'
         /\ owed'.file = "queue"
         /\ CommittedRowsConfirmed(queue)' /\ CommittedRowsConfirmed(pending)'
         /\ CommittedRowsConfirmed(owed.rows)'
<1>1. /\ Ids(dead') = Ids(dead) \cup {row.id}
      /\ Ids(failed') = Ids(failed) \cup {row.id}
      /\ RowSet(failed') \subseteq {row} \cup {r \in RowSet(failed) : r.id # row.id}
      /\ queue' = queue
      /\ owed' = [file |-> "queue", rows |-> pending']
      /\ Ids(pending') = Ids(rest) \cup (Ids(queue) \ (completed \cup Ids(dead')))
      /\ RowSet(pending') \subseteq RowSet(rest) \cup RowSet(queue)
  BY DeadLetterRows DEF TypeOK
<1>2. owed'.file = "queue" /\ owed'.rows = pending'
  BY <1>1
<1>3. \A o \in accepted : Custody(o, queue, failed) \/ Undone(o)
  BY DEF ReplayCustody, CustodyAcrossWrites
<1>4. \A o : Undone(o)' = Undone(o)
  BY DEF Undone
<1>5. CustodyAcrossWrites'
  <2>1. \A o \in accepted : Custody(o, queue, failed)' \/ Undone(o)'
    BY <1>1, <1>3, <1>4 DEF Custody
  <2>2. \A o \in accepted : Custody(o, owed.rows, failed)' \/ Undone(o)'
    <3> SUFFICES ASSUME NEW o \in accepted, ~Undone(o)
                 PROVE  o \in Ids(pending') \cup Ids(failed') \cup confirmed \cup cleared
      BY <1>2, <1>4 DEF Custody
    <3>1. CASE o \in completed \cup Ids(dead)
      BY <1>1, <3>1, DroppedRowsSafe
    <3>2. CASE o = row.id
      BY <1>1, <3>2
    <3>3. CASE o \notin completed \cup Ids(dead) \cup {row.id}
      BY <1>1, <1>3, <3>3 DEF Custody
    <3> QED BY <3>1, <3>2, <3>3
  <2> QED BY <1>2, <2>1, <2>2 DEF CustodyAcrossWrites
<1>6. HeldBack(failed)'
  <2>1. HeldBack(failed)
    BY DEF ReplayCustody
  <2> SUFFICES ASSUME NEW o \in Ids(dead')
               PROVE  \/ o \in cleared \cup confirmed \/ Undone(o)
                      \/ /\ o \in Ids(failed')
                         /\ \A r \in RowSet(failed') : r.id = o => r.manual \/ r.wait
    BY <1>4 DEF HeldBack
  <2>2. CASE o = row.id
    BY <1>1, <2>2
  <2>3. CASE o # row.id
    BY <1>1, <2>1, <2>3 DEF HeldBack
  <2> QED BY <2>2, <2>3
<1>7. /\ CommittedRowsConfirmed(queue)' /\ CommittedRowsConfirmed(pending)'
      /\ CommittedRowsConfirmed(owed.rows)'
  BY <1>1, <1>2 DEF ReplayCustody, CommittedRowsConfirmed
<1> QED BY <1>2, <1>5, <1>6, <1>7

\* Writing the queue file with what the pass holds and what arrived keeps
\* everything in custody.
LEMMA QueueWriteCustody ==
  ASSUME TypeOK, ReplayCustody, Settled,
         Ids(queue) \ (completed \cup Ids(dead)) \subseteq Ids(queue'),
         UNCHANGED <<failed, owed, accepted, confirmed, cleared, manager>>
  PROVE  CustodyAcrossWrites'
<1>1. \A o \in accepted : Custody(o, queue, failed) \/ Undone(o)
  BY DEF ReplayCustody, CustodyAcrossWrites
<1>2. \A o : Undone(o)' = Undone(o)
  BY DEF Undone
<1>3. \A o \in accepted : Custody(o, queue, failed)' \/ Undone(o)'
  BY <1>1, <1>2, DroppedRowsSafe DEF Custody
<1>4. owed'.file = "none"
  BY DEF Settled
<1> QED BY <1>3, <1>4 DEF CustodyAcrossWrites

\* One case per action.
LEMMA CustodyStep == TypeOK /\ ReplayCustody /\ [Next]_vars => ReplayCustody'
<1> SUFFICES ASSUME TypeOK, ReplayCustody, [Next]_vars PROVE ReplayCustody'
  OBVIOUS
<1>0. /\ queue \in Seq(Row) /\ failed \in Seq(Row) /\ dead \in Seq(Row)
      /\ pending \in Seq(Row) /\ inflight \in Seq(Row)
  BY DEF TypeOK
<1>a. /\ CustodyAcrossWrites /\ completed \subseteq confirmed
      /\ pc \in {"idle", "contract", "probe", "load"} => dead = <<>>
      /\ HeldBack(failed) /\ (owed.file = "failed" => HeldBack(owed.rows))
      /\ CommittedRowsConfirmed(queue) /\ CommittedRowsConfirmed(pending)
      /\ CommittedRowsConfirmed(inflight)
      /\ (owed.file = "queue" => CommittedRowsConfirmed(owed.rows))
  BY DEF ReplayCustody
<1>b. Settled => owed.file = "none"
  BY DEF Settled
\* Nothing the invariant speaks of changes, except that dead is empty where
\* the pass has not begun its loop.
<1>c. ASSUME UNCHANGED <<queue, failed, owed, pending, inflight, dead, completed,
                        accepted, confirmed, cleared, manager>>,
             pc' \in {"idle", "contract", "probe", "load"} => dead = <<>>
      PROVE  ReplayCustody'
  BY <1>a, <1>c DEF ReplayCustody, CustodyAcrossWrites, Custody, Undone, HeldBack,
                   CommittedRowsConfirmed
<1>d. ASSUME Settled, UNCHANGED <<failed, owed, dead, cleared, confirmed, manager>>
      PROVE  HeldBack(failed)' /\ owed'.file = "none"
  BY <1>a, <1>b, <1>d DEF HeldBack, Undone
<1>1. ASSUME NEW o \in Ops, QueueOperation(o) PROVE ReplayCustody'
  <2>1. /\ Settled /\ accepted' = accepted \cup {o}
        /\ queue' = IF o \in Ids(queue) THEN queue ELSE Append(queue, NewRow(o))
        /\ UNCHANGED <<failed, owed, pc, pending, inflight, dead, completed,
                       confirmed, cleared, manager>>
    BY <1>1 DEF QueueOperation, Yielded, pass
  <2> DEFINE new == NewRow(o)
  <2>a. new \in Row /\ new.id = o
    BY NewRowType
  <2> HIDE DEF new
  <2>b. /\ Ids(Append(queue, new)) = Ids(queue) \cup {o}
        /\ RowSet(Append(queue, new)) = RowSet(queue) \cup {new}
    BY <1>0, <2>a, AppendRows
  <2>2. /\ Ids(queue') = Ids(queue) \cup {o}
        /\ RowSet(queue') \subseteq RowSet(queue) \cup {NewRow(o)}
    <3>1. CASE o \in Ids(queue)
      BY <2>1, <3>1
    <3>2. CASE o \notin Ids(queue)
      BY <2>1, <2>b, <3>2 DEF new
    <3> QED BY <3>1, <3>2
  <2>3. NewRow(o).st = "pending"
    BY DEF NewRow
  <2>4. HeldBack(failed)' /\ owed'.file = "none"
    BY <1>d, <2>1
  <2>5. CustodyAcrossWrites'
    BY <1>a, <2>1, <2>2, <2>4 DEF CustodyAcrossWrites, Custody, Undone
  <2>6. /\ CommittedRowsConfirmed(queue)' /\ CommittedRowsConfirmed(pending)'
        /\ CommittedRowsConfirmed(inflight)'
    BY <1>a, <2>1, <2>2, <2>3 DEF CommittedRowsConfirmed
  <2> QED BY <1>a, <2>1, <2>4, <2>5, <2>6 DEF ReplayCustody
<1>2. CASE RetrySyncItems
  <2>1. PICK ids \in SUBSET Ids(failed), elapsed \in BOOLEAN :
          /\ Requeue(Retried(Keep(failed, ids), elapsed))
          /\ manager' = [o \in Ops |->
               IF o \notin ids THEN manager[o]
               ELSE IF o \in Ids(dead) THEN "undone"
               ELSE IF manager[o] = "none" THEN "retried" ELSE manager[o]]
    BY <1>2 DEF RetrySyncItems
  <2> DEFINE kept == Keep(failed, ids)
             rows == Retried(kept, elapsed)
  <2>2. kept \in Seq(Row) /\ Ids(kept) = Ids(failed) \cap ids
    BY <1>0, KeepRows
  <2> HIDE DEF kept
  <2>3. /\ rows \in Seq(Row) /\ Ids(rows) = Ids(failed) \cap ids
        /\ \A r \in RowSet(rows) : r.st = "pending"
    BY <2>2, RetriedRows
  <2>4. Requeue(rows)
    BY <2>1 DEF kept
  <2> HIDE DEF rows
  <2>5. /\ Settled
        /\ UNCHANGED <<failed, pc, pending, inflight, dead, completed, accepted,
                       confirmed, cleared>>
    BY <1>2 DEF RetrySyncItems, Yielded, pass
  <2>6. \A o \in Ops : Undone(o) => Undone(o)'
    BY <2>1 DEF Undone
  <2>7. \A o \in Ids(rows) \cap Ids(dead) : Undone(o)'
    BY <1>0, <2>1, <2>3, IdsType DEF Undone
  <2>8. /\ CustodyAcrossWrites' /\ HeldBack(failed)' /\ HeldBack(owed.rows)'
        /\ owed'.file = "failed" /\ CommittedRowsConfirmed(queue)'
    BY <2>3, <2>4, <2>5, <2>6, <2>7, RequeueCustody
  <2>9. CommittedRowsConfirmed(pending)' /\ CommittedRowsConfirmed(inflight)'
    BY <1>a, <2>5 DEF CommittedRowsConfirmed
  <2> QED BY <1>a, <2>5, <2>8, <2>9 DEF ReplayCustody
<1>3. CASE ClearSyncFailed
  <2>1. PICK ids \in SUBSET Ids(failed) :
          failed' = Drop(failed, ids) /\ cleared' = cleared \cup ids
    BY <1>3 DEF ClearSyncFailed
  <2>2. /\ Settled
        /\ UNCHANGED <<queue, owed, pc, pending, inflight, dead, completed,
                       accepted, confirmed, manager>>
    BY <1>3 DEF ClearSyncFailed, Yielded, pass
  <2>3. Ids(failed') = Ids(failed) \ ids /\ RowSet(failed') \subseteq RowSet(failed)
    BY <1>0, <2>1, DropRows
  <2>4. owed'.file = "none"
    BY <1>b, <2>2
  <2>5. CustodyAcrossWrites'
    BY <1>a, <2>1, <2>2, <2>3, <2>4 DEF CustodyAcrossWrites, Custody, Undone
  <2>6. HeldBack(failed)'
    BY <1>a, <2>1, <2>2, <2>3 DEF HeldBack, Undone
  <2>7. /\ CommittedRowsConfirmed(queue)' /\ CommittedRowsConfirmed(pending)'
        /\ CommittedRowsConfirmed(inflight)'
    BY <1>a, <2>2 DEF CommittedRowsConfirmed
  <2> QED BY <1>a, <2>2, <2>4, <2>5, <2>6, <2>7 DEF ReplayCustody
\* The sweep never takes a row that the pass holds dead.
<1>4. ASSUME Settled, RequeueEligible,
             UNCHANGED <<failed, dead, accepted, confirmed, cleared, manager>>
      PROVE  /\ CustodyAcrossWrites' /\ HeldBack(failed)' /\ HeldBack(owed.rows)'
             /\ owed'.file = "failed" /\ CommittedRowsConfirmed(queue)'
  <2> DEFINE kept == Keep(failed, Eligible)
             rows == Swept(kept)
  <2>1. kept \in Seq(Row) /\ Ids(kept) = Ids(failed) \cap Eligible
    BY <1>0, KeepRows
  <2> HIDE DEF kept
  <2>2. /\ rows \in Seq(Row) /\ Ids(rows) = Ids(failed) \cap Eligible
        /\ \A r \in RowSet(rows) : r.st = "pending"
    BY <2>1, SweptRows
  <2>3. Requeue(rows)
    BY <1>4 DEF RequeueEligible, kept
  <2> HIDE DEF rows
  <2>4. \A o : Undone(o)' = Undone(o)
    BY <1>4 DEF Undone
  <2>5. ASSUME NEW o \in Ids(rows) \cap Ids(dead)
        PROVE  o \in cleared \cup confirmed \/ Undone(o)'
    <3> DEFINE r == RowOf(failed, o)
    <3>1. r \in RowSet(failed) /\ r.id = o
      BY <2>2, <2>5, RowOfId
    <3>2. ~r.manual /\ ~r.wait
      BY <2>2, <2>5 DEF Eligible
    <3> HIDE DEF r
    <3> QED BY <1>a, <2>4, <2>5, <3>1, <3>2 DEF HeldBack
  <2> QED BY <1>4, <2>2, <2>3, <2>4, <2>5, RequeueCustody
<1>5. CASE TimerSweep
  <2>1. /\ Settled /\ RequeueEligible
        /\ UNCHANGED <<failed, pc, pending, inflight, dead, completed, accepted,
                       confirmed, cleared, manager>>
    BY <1>5 DEF TimerSweep, Yielded, pass, history
  <2>2. CommittedRowsConfirmed(pending)' /\ CommittedRowsConfirmed(inflight)'
    BY <1>a, <2>1 DEF CommittedRowsConfirmed
  <2> QED BY <1>4, <1>a, <2>1, <2>2 DEF ReplayCustody
<1>6. CASE CompleteWrite
  <2>1. /\ ~Settled /\ owed' = NoWrite
        /\ UNCHANGED <<pc, pending, inflight, dead, completed, accepted,
                       confirmed, cleared, manager>>
        /\ \/ owed.file = "queue" /\ queue' = owed.rows /\ failed' = failed
           \/ owed.file # "queue" /\ failed' = owed.rows /\ queue' = queue
    BY <1>6 DEF CompleteWrite, pass, history
  <2>2. owed'.file = "none"
    BY <2>1 DEF NoWrite
  <2>3. CASE owed.file = "queue"
    <3>1. queue' = owed.rows /\ failed' = failed
      BY <2>1, <2>3
    <3> QED BY <1>a, <2>1, <2>2, <2>3, <3>1
            DEF ReplayCustody, CustodyAcrossWrites, Custody, Undone, HeldBack,
                CommittedRowsConfirmed
  <2>4. CASE owed.file = "failed"
    <3>1. failed' = owed.rows /\ queue' = queue
      BY <2>1, <2>4
    <3> QED BY <1>a, <2>1, <2>2, <2>4, <3>1
            DEF ReplayCustody, CustodyAcrossWrites, Custody, Undone, HeldBack,
                CommittedRowsConfirmed
  <2> QED BY <2>1, <2>3, <2>4 DEF Settled, TypeOK
<1>7. ASSUME NEW o \in Ops, BecomeDue(o) PROVE ReplayCustody'
  <2>1. /\ Settled
        /\ UNCHANGED <<owed, pc, pending, inflight, dead, completed, accepted,
                       confirmed, cleared, manager>>
    BY <1>7 DEF BecomeDue, Yielded, pass, history
  <2>2. /\ Ids(queue') = Ids(queue) /\ Ids(failed') = Ids(failed)
        /\ \A r \in RowSet(queue') : \E q \in RowSet(queue) : q.id = r.id /\ q.st = r.st
        /\ \A r \in RowSet(failed') : r.id \in Ids(dead) => r \in RowSet(failed)
    <3>1. CASE \E i \in DOMAIN queue : queue' = [queue EXCEPT ![i].wait = FALSE] /\ UNCHANGED failed
      <4>1. PICK i \in DOMAIN queue : queue' = [queue EXCEPT ![i].wait = FALSE] /\ failed' = failed
        BY <3>1
      <4> DEFINE due == [queue EXCEPT ![i].wait = FALSE]
      <4>2. /\ Ids(due) = Ids(queue)
            /\ \A r \in RowSet(due) : \E q \in RowSet(queue) : q.id = r.id /\ q.st = r.st
        BY <1>0, DueRows
      <4>3. queue' = due
        BY <4>1
      <4> HIDE DEF due
      <4> QED BY <4>1, <4>2, <4>3
    <3>2. CASE /\ o \notin Ids(dead) /\ UNCHANGED queue
               /\ \E i \in DOMAIN failed :
                    failed[i].id = o /\ failed' = [failed EXCEPT ![i].wait = FALSE]
      <4>1. PICK k \in DOMAIN failed :
              failed[k].id = o /\ failed' = [failed EXCEPT ![k].wait = FALSE]
        BY <3>2
      <4> DEFINE due == [failed EXCEPT ![k].wait = FALSE]
      <4>2. /\ Ids(due) = Ids(failed)
            /\ \A r \in RowSet(due) : r.id = failed[k].id \/ r \in RowSet(failed)
        BY <1>0, DueRows, OtherRows
      <4>3. failed' = due
        BY <4>1
      <4> HIDE DEF due
      <4> QED BY <3>2, <4>1, <4>2, <4>3
    <3> QED BY <1>7, <3>1, <3>2 DEF BecomeDue
  <2>3. owed'.file = "none"
    BY <2>1, <1>b
  <2>4. CustodyAcrossWrites'
    BY <1>a, <2>1, <2>2, <2>3 DEF CustodyAcrossWrites, Custody, Undone
  <2>5. HeldBack(failed)'
    BY <1>a, <2>1, <2>2 DEF HeldBack, Undone
  <2>6. /\ CommittedRowsConfirmed(queue)' /\ CommittedRowsConfirmed(pending)'
        /\ CommittedRowsConfirmed(inflight)'
    BY <1>a, <2>1, <2>2 DEF CommittedRowsConfirmed
  <2>7. pc' \in {"idle", "contract", "probe", "load"} => dead' = <<>>
    BY <1>a, <2>1
  <2> QED BY <1>a, <2>1, <2>3, <2>4, <2>5, <2>6, <2>7 DEF ReplayCustody
<1>8. CASE StartPass \/ RunSyncNow
  <2>1. /\ Settled /\ dead = <<>>
        /\ UNCHANGED <<failed, pending, inflight, dead, completed, accepted,
                       confirmed, cleared, manager>>
        /\ UNCHANGED <<queue, owed>> \/ RequeueEligible
    BY <1>8, <1>a DEF StartPass, RunSyncNow, BeginPass, At, history
  <2>2. CASE UNCHANGED <<queue, owed>>
    BY <1>c, <2>1, <2>2
  <2>3. CASE RequeueEligible
    <3>1. CommittedRowsConfirmed(pending)' /\ CommittedRowsConfirmed(inflight)'
      BY <1>a, <2>1 DEF CommittedRowsConfirmed
    <3> QED BY <1>4, <1>a, <2>1, <2>3, <3>1 DEF ReplayCustody
  <2> QED BY <2>1, <2>2, <2>3
<1>9. CASE ProbeContract
  BY <1>9, <1>a, <1>c DEF ProbeContract, At, disk, history
<1>10. CASE ContractAnswer
  <2>1. /\ Settled /\ dead = <<>>
        /\ UNCHANGED <<failed, pending, inflight, dead, completed, accepted,
                       confirmed, cleared, manager>>
        /\ \/ UNCHANGED <<queue, owed>>
           \/ Requeue(Unparked(Keep(failed, Parked \cap stale)))
    BY <1>10, <1>a DEF ContractAnswer, At, history
  <2>2. CASE UNCHANGED <<queue, owed>>
    BY <1>c, <2>1, <2>2
  <2>3. CASE Requeue(Unparked(Keep(failed, Parked \cap stale)))
    <3> DEFINE kept == Keep(failed, Parked \cap stale)
               rows == Unparked(kept)
    <3>1. kept \in Seq(Row) /\ Ids(kept) \subseteq Ids(failed)
      BY <1>0, KeepRows
    <3> HIDE DEF kept
    <3>2. /\ rows \in Seq(Row) /\ Ids(rows) \subseteq Ids(failed)
          /\ \A r \in RowSet(rows) : r.st = "pending"
      BY <3>1, UnparkedRows
    <3>3. Requeue(rows)
      BY <2>3 DEF kept
    <3> HIDE DEF rows
    <3>4. Ids(dead) = {} /\ \A o : Undone(o)' = Undone(o)
      BY <2>1, NoRows DEF Undone
    <3>5. /\ CustodyAcrossWrites' /\ HeldBack(failed)' /\ HeldBack(owed.rows)'
          /\ owed'.file = "failed" /\ CommittedRowsConfirmed(queue)'
      BY <2>1, <3>2, <3>3, <3>4, RequeueCustody
    <3>6. CommittedRowsConfirmed(pending)' /\ CommittedRowsConfirmed(inflight)'
      BY <1>a, <2>1 DEF CommittedRowsConfirmed
    <3> QED BY <1>a, <2>1, <3>5, <3>6 DEF ReplayCustody
  <2> QED BY <2>1, <2>2, <2>3
<1>11. CASE LoadQueue
  <2>1. /\ Settled /\ dead = <<>>
        /\ pending' = Normalized
        /\ queue' = queue \/ queue' = Normalized
        /\ UNCHANGED <<failed, owed, inflight, dead, completed, accepted,
                       confirmed, cleared, manager>>
    BY <1>11, <1>a DEF LoadQueue, At, history
  <2>2. /\ \A r \in RowSet(queue) : r.st # "committed" => r.id \in Ids(Normalized)
        /\ \A r \in RowSet(Normalized) : r.st = "pending"
    BY <1>0, NormalizedRows
  <2>3. \A o \in Ids(queue) : o \in Ids(queue') \/ o \in confirmed
    BY <1>a, <2>1, <2>2, IdsMember DEF CommittedRowsConfirmed
  <2>4. HeldBack(failed)' /\ owed'.file = "none"
    BY <1>d, <2>1
  <2>5. CustodyAcrossWrites'
    BY <1>a, <2>1, <2>3, <2>4 DEF CustodyAcrossWrites, Custody, Undone
  <2>6. /\ CommittedRowsConfirmed(queue)' /\ CommittedRowsConfirmed(pending)'
        /\ CommittedRowsConfirmed(inflight)'
    BY <1>a, <2>1, <2>2 DEF CommittedRowsConfirmed
  <2> QED BY <1>a, <2>1, <2>4, <2>5, <2>6 DEF ReplayCustody
\* The sections that write the queue file from the working set.
<1>e. ASSUME NEW rows \in Seq(Row), RowSet(rows) \subseteq RowSet(pending), Settled,
             queue' = Absorb(rows, completed, dead, {}),
             pending' = queue' \/ pending' = <<>>,
             pc' \notin {"idle", "contract", "probe", "load"},
             UNCHANGED <<failed, owed, inflight, dead, completed, accepted,
                        confirmed, cleared, manager>>
      PROVE  ReplayCustody'
  <2>1. /\ Ids(queue) \ (completed \cup Ids(dead)) \subseteq Ids(queue')
        /\ RowSet(queue') \subseteq RowSet(rows) \cup RowSet(queue)
    BY <1>0, <1>e, AbsorbRows
  <2>2. CustodyAcrossWrites'
    BY <1>e, <2>1, QueueWriteCustody
  <2>3. HeldBack(failed)' /\ owed'.file = "none"
    BY <1>d, <1>e
  <2>4. /\ CommittedRowsConfirmed(queue)' /\ CommittedRowsConfirmed(pending)'
        /\ CommittedRowsConfirmed(inflight)'
    BY <1>a, <1>e, <2>1, NoRows DEF CommittedRowsConfirmed
  <2> QED BY <1>a, <1>e, <2>2, <2>3, <2>4 DEF ReplayCustody
<1>12. CASE PauseOffline
  BY <1>0, <1>12, <1>e DEF PauseOffline, At, history
<1>13. CASE DetectCycle
  BY <1>13, <1>a, <1>c DEF DetectCycle, At, disk, history
<1>14. CASE EndPass
  BY <1>0, <1>14, <1>e DEF EndPass, At, history
<1>15. CASE DeadLetterCycle
  <2>1. CASE pending = <<>>
    <3> DEFINE none == <<>>
    <3>1. none \in Seq(Row) /\ RowSet(none) = {}
      BY NoRows
    <3>2. /\ Settled /\ queue' = Absorb(none, completed, dead, {}) /\ pending' = queue'
          /\ pc' = "end"
          /\ UNCHANGED <<failed, owed, inflight, dead, completed, accepted,
                         confirmed, cleared, manager>>
      BY <1>15, <2>1 DEF DeadLetterCycle, At, history
    <3> HIDE DEF none
    <3> QED BY <3>1, <3>2, <1>e
  <2>2. CASE pending # <<>>
    <3> DEFINE head == Head(pending)
               row == [head EXCEPT !.st = "pending", !.retry = MaxRetries, !.manual = TRUE]
               one == <<row>>
    <3>1. /\ head \in Row /\ Tail(pending) \in Seq(Row)
          /\ RowSet(Tail(pending)) \subseteq RowSet(pending)
      BY <1>0, <2>2, HeadTailRows
    <3>2. /\ Settled /\ pc' = "cycle"
          /\ dead' = Append(dead, row) /\ failed' = MergeRows(failed, one)
          /\ pending' = Tail(pending)
          /\ UNCHANGED <<queue, owed, inflight, completed, accepted, confirmed,
                         cleared, manager>>
      BY <1>15, <2>2 DEF DeadLetterCycle, At, history, head
    <3> HIDE DEF head
    <3>3. row \in Row /\ row.manual
      <4>1. MaxRetries \in Nat
        BY RetriesAssumption
      <4> QED BY <3>1, <4>1 DEF Row
    <3> HIDE DEF row
    <3>4. one \in Seq(Row) /\ RowSet(one) = {row} /\ Ids(one) = {row.id}
      BY <3>3, OneRow
    <3> HIDE DEF one
    <3>5. Ids(dead') = Ids(dead) \cup {row.id}
      BY <1>0, <3>2, <3>3, AppendRows
    <3>6. /\ Ids(failed') = Ids(failed) \cup {row.id}
          /\ RowSet(failed') \subseteq {row} \cup {r \in RowSet(failed) : r.id # row.id}
      BY <1>0, <3>2, <3>4, MergeRowsRows
    <3>7. owed'.file = "none"
      BY <1>b, <3>2
    <3>8. CustodyAcrossWrites'
      BY <1>a, <3>2, <3>6, <3>7 DEF CustodyAcrossWrites, Custody, Undone
    <3>9. HeldBack(failed)'
      <4>1. \A o : Undone(o)' = Undone(o)
        BY <3>2 DEF Undone
      <4> SUFFICES ASSUME NEW o \in Ids(dead')
                   PROVE  \/ o \in cleared \cup confirmed \/ Undone(o)
                          \/ /\ o \in Ids(failed')
                             /\ \A r \in RowSet(failed') : r.id = o => r.manual \/ r.wait
        BY <3>2, <4>1 DEF HeldBack
      <4>2. CASE o = row.id
        BY <3>3, <3>6, <4>2
      <4>3. CASE o # row.id
        BY <1>a, <3>5, <3>6, <4>3 DEF HeldBack
      <4> QED BY <4>2, <4>3
    <3>10. /\ CommittedRowsConfirmed(queue)' /\ CommittedRowsConfirmed(pending)'
           /\ CommittedRowsConfirmed(inflight)'
      BY <1>a, <3>1, <3>2 DEF CommittedRowsConfirmed
    <3> QED BY <1>a, <3>2, <3>7, <3>8, <3>9, <3>10 DEF ReplayCustody
  <2> QED BY <2>1, <2>2
<1>f. ASSUME NEW i \in DOMAIN pending
      PROVE  /\ pending[i] \in Row /\ pending[i] \in RowSet(pending)
             /\ RemoveIndex(pending, i) \in Seq(Row)
             /\ RowSet(RemoveIndex(pending, i)) \subseteq RowSet(pending)
  <2>1. pending[i] \in Row /\ pending[i] \in RowSet(pending)
    BY <1>0, RowSetMember
  <2>2. /\ RemoveIndex(pending, i) \in Seq(Row)
        /\ RowSet(pending) = RowSet(RemoveIndex(pending, i)) \cup {pending[i]}
    BY <1>0, RemoveIndexRows
  <2> QED BY <2>1, <2>2
<1>16. ASSUME NEW i \in DOMAIN pending, DeferRow(i) PROVE ReplayCustody'
  <2> DEFINE row == pending[i]
             rest == RemoveIndex(pending, i)
             rotated == Append(rest, row)
  <2>1. /\ Settled /\ pc = "loop"
        /\ UNCHANGED <<failed, owed, inflight, dead, completed, accepted,
                       confirmed, cleared, manager>>
        /\ \/ queue' = Absorb(rotated, completed, dead, {}) /\ pending' = queue'
              /\ pc' = "end"
           \/ pending' = rotated /\ queue' = queue /\ pc' = pc
    BY <1>16 DEF DeferRow, LoopTop, At, history
  <2>2. /\ row \in Row /\ row \in RowSet(pending) /\ rest \in Seq(Row)
        /\ RowSet(rest) \subseteq RowSet(pending)
    BY <1>f
  <2> HIDE DEF row, rest
  <2>3. rotated \in Seq(Row) /\ RowSet(rotated) \subseteq RowSet(pending)
    BY <2>2, AppendRows
  <2> HIDE DEF rotated
  <2>4. CASE queue' = Absorb(rotated, completed, dead, {}) /\ pending' = queue' /\ pc' = "end"
    BY <1>e, <2>1, <2>3, <2>4
  <2>5. CASE pending' = rotated /\ queue' = queue /\ pc' = pc
    <3>1. HeldBack(failed)' /\ owed'.file = "none"
      BY <1>d, <2>1
    <3>2. CustodyAcrossWrites'
      BY <1>a, <2>1, <2>5, <3>1 DEF CustodyAcrossWrites, Custody, Undone
    <3>3. /\ CommittedRowsConfirmed(queue)' /\ CommittedRowsConfirmed(pending)'
          /\ CommittedRowsConfirmed(inflight)'
      BY <1>a, <2>1, <2>3, <2>5 DEF CommittedRowsConfirmed
    <3> QED BY <1>a, <2>1, <2>5, <3>1, <3>2, <3>3 DEF ReplayCustody
  <2> QED BY <2>1, <2>4, <2>5
\* A row that leaves the loop for the failed file, or for the end of the queue.
<1>g. ASSUME NEW row \in Row, NEW rest \in Seq(Row), Settled, DeadLetter(row, rest),
             row.manual \/ row.wait, RowSet(rest) \subseteq RowSet(pending),
             pc' = "loop", inflight' = inflight \/ inflight' = <<>>,
             UNCHANGED <<accepted, confirmed, cleared, manager, completed>>
      PROVE  ReplayCustody'
  <2>1. /\ CustodyAcrossWrites' /\ HeldBack(failed)' /\ owed'.file = "queue"
        /\ CommittedRowsConfirmed(queue)' /\ CommittedRowsConfirmed(pending)'
        /\ CommittedRowsConfirmed(owed.rows)'
    BY <1>g, DeadLetterCustody
  <2>2. CommittedRowsConfirmed(inflight)'
    BY <1>a, <1>g, NoRows DEF CommittedRowsConfirmed
  <2> QED BY <1>a, <1>g, <2>1, <2>2 DEF ReplayCustody
<1>h. ASSUME NEW row \in Row, NEW rest \in Seq(Row), Settled, KeepQueued(row, rest),
             row.st = "pending", RowSet(rest) \subseteq RowSet(pending),
             pc' = "loop", inflight' = inflight \/ inflight' = <<>>,
             UNCHANGED <<accepted, confirmed, cleared, manager, completed>>
      PROVE  ReplayCustody'
  <2>1. /\ queue' = pending' /\ failed' = failed /\ owed' = owed /\ dead' = dead
        /\ Ids(queue) \ (completed \cup Ids(dead)) \subseteq Ids(queue')
        /\ RowSet(pending') \subseteq RowSet(rest) \cup {row} \cup RowSet(queue)
    BY <1>0, <1>h, KeepQueuedRows
  <2>2. CustodyAcrossWrites'
    BY <1>h, <2>1, QueueWriteCustody
  <2>3. HeldBack(failed)' /\ owed'.file = "none"
    BY <1>d, <1>h, <2>1
  <2>4. /\ CommittedRowsConfirmed(queue)' /\ CommittedRowsConfirmed(pending)'
        /\ CommittedRowsConfirmed(inflight)'
    BY <1>a, <1>h, <2>1, NoRows DEF CommittedRowsConfirmed
  <2> QED BY <1>a, <1>h, <2>1, <2>2, <2>3, <2>4 DEF ReplayCustody
<1>17. ASSUME NEW i \in DOMAIN pending, SkipDependent(i) PROVE ReplayCustody'
  <2> DEFINE row == pending[i]
             rest == RemoveIndex(pending, i)
             given == [row EXCEPT !.st = "pending", !.retry = MaxRetries, !.manual = TRUE]
             kept == Skipped(row)
  <2>1. DeadLetter(given, rest) \/ DeadLetter(kept, rest) \/ KeepQueued(kept, rest)
    BY <1>17 DEF SkipDependent
  <2>2. /\ Settled /\ pc' = "loop" /\ inflight' = inflight
        /\ UNCHANGED <<accepted, confirmed, cleared, manager, completed>>
    BY <1>17 DEF SkipDependent, LoopTop, At, history
  <2>3. row \in Row /\ rest \in Seq(Row) /\ RowSet(rest) \subseteq RowSet(pending)
    BY <1>f
  <2> HIDE DEF row, rest
  <2>4. MaxRetries \in Nat
    BY RetriesAssumption
  <2>5. given \in Row /\ given.manual /\ kept \in Row /\ kept.wait /\ kept.st = "pending"
    BY <2>3, <2>4 DEF Row, Skipped
  <2> HIDE DEF given, kept
  <2> QED BY <1>g, <1>h, <2>1, <2>2, <2>3, <2>5
<1>18. ASSUME NEW i \in DOMAIN pending, Dispatch(i) PROVE ReplayCustody'
  <2> DEFINE row == pending[i]
             rest == RemoveIndex(pending, i)
             sent == [row EXCEPT !.st = "in_flight"]
             one == <<sent>>
             all == Absorb(rest, completed, dead, {row.id})
             held == <<row>>
  <2>1. /\ Settled /\ pc' = "rpc"
        /\ pending' = all /\ inflight' = held /\ queue' = one \o all
        /\ UNCHANGED <<failed, owed, dead, completed, accepted, confirmed,
                       cleared, manager>>
    BY <1>18 DEF Dispatch, LoopTop, At
  <2>2. /\ row \in Row /\ row \in RowSet(pending) /\ rest \in Seq(Row)
        /\ RowSet(rest) \subseteq RowSet(pending)
    BY <1>f
  <2> HIDE DEF row, rest
  <2>3. sent \in Row /\ sent.id = row.id /\ sent.st = "in_flight"
    BY <2>2 DEF Row
  <2> HIDE DEF sent
  <2>4. /\ one \in Seq(Row) /\ RowSet(one) = {sent} /\ Ids(one) = {row.id}
        /\ RowSet(held) = {row}
    BY <2>2, <2>3, OneRow
  <2>5. /\ all \in Seq(Row)
        /\ Ids(all) = Ids(rest) \cup (Ids(queue) \ (completed \cup Ids(dead) \cup {row.id}))
        /\ RowSet(all) \subseteq RowSet(rest) \cup RowSet(queue)
    BY <1>0, <2>2, AbsorbRows
  <2> HIDE DEF one, all, held
  <2>6. /\ RowSet(one \o all) = RowSet(one) \cup RowSet(all)
        /\ Ids(one \o all) = Ids(one) \cup Ids(all)
    BY <2>4, <2>5, ConcatRows
  <2>7. Ids(queue) \ (completed \cup Ids(dead)) \subseteq Ids(queue')
    BY <2>1, <2>4, <2>5, <2>6
  <2>8. CustodyAcrossWrites'
    BY <2>1, <2>7, QueueWriteCustody
  <2>9. HeldBack(failed)' /\ owed'.file = "none"
    BY <1>d, <2>1
  <2>10. /\ CommittedRowsConfirmed(queue)' /\ CommittedRowsConfirmed(pending)'
         /\ CommittedRowsConfirmed(inflight)'
    BY <1>a, <2>1, <2>2, <2>3, <2>4, <2>5, <2>6 DEF CommittedRowsConfirmed
  <2> QED BY <1>a, <2>1, <2>8, <2>9, <2>10 DEF ReplayCustody
<1>19. ASSUME NEW o \in Ops, ServerExecute(o) PROVE ReplayCustody'
  BY <1>19, <1>a, <1>c DEF ServerExecute, disk, pass, history
<1>20. pc = "rpc" => Head(inflight) \in Row
  <2> SUFFICES ASSUME pc = "rpc" PROVE Head(inflight) \in Row
    OBVIOUS
  <2>1. inflight # <<>>
    BY DEF TypeOK
  <2> QED BY <1>0, <2>1, HeadTailRows
<1>21. CASE Succeed
  <2> DEFINE row == Head(inflight)
             mark == [row EXCEPT !.st = "committed"]
             one == <<mark>>
             done == completed \cup {row.id}
             rel == Release(pending, row.id)
             all == Absorb(rel, done, dead, {})
  <2>1. /\ Settled /\ pc' = "loop" /\ inflight' = <<>>
        /\ completed' = done /\ confirmed' = confirmed \cup {row.id}
        /\ pending' = all /\ queue' = one \o all
        /\ owed' = [file |-> "queue", rows |-> all]
        /\ UNCHANGED <<failed, dead, accepted, cleared, manager>>
    BY <1>21 DEF Succeed, OweQueue, At
  <2>2. row \in Row
    BY <1>20, <1>21 DEF Succeed, At
  <2> HIDE DEF row
  <2>3. mark \in Row /\ mark.id = row.id
    BY <2>2 DEF Row
  <2> HIDE DEF mark
  <2>4. one \in Seq(Row) /\ RowSet(one) = {mark} /\ Ids(one) = {row.id}
    BY <2>3, OneRow
  <2>5. /\ rel \in Seq(Row)
        /\ \A r \in RowSet(rel) : \E q \in RowSet(pending) : q.id = r.id /\ q.st = r.st
    BY <1>0, ReleaseRows
  <2> HIDE DEF one, rel
  <2>6. /\ all \in Seq(Row)
        /\ Ids(all) = Ids(rel) \cup (Ids(queue) \ (done \cup Ids(dead) \cup {}))
        /\ RowSet(all) \subseteq RowSet(rel) \cup RowSet(queue)
    BY <1>0, <2>5, AbsorbRows
  <2> HIDE DEF all
  <2>7. /\ RowSet(one \o all) = RowSet(one) \cup RowSet(all)
        /\ Ids(one \o all) = Ids(one) \cup Ids(all)
    BY <2>4, <2>6, ConcatRows
  <2>8. owed'.file = "queue" /\ owed'.rows = all
    BY <2>1
  <2>9. CustodyAcrossWrites'
    <3>1. \A o : Undone(o)' = Undone(o)
      BY <2>1 DEF Undone
    <3>2. \A o \in Ids(queue) : o \in Ids(all) \/ o \in Ids(failed) \cup confirmed'
                                                  \cup cleared \/ Undone(o)
      BY <2>1, <2>6, DroppedRowsSafe
    <3>3. \A o \in accepted : \/ o \in Ids(all) \cup Ids(failed) \cup confirmed' \cup cleared
                              \/ Undone(o)
      BY <1>a, <2>1, <3>2 DEF CustodyAcrossWrites, Custody
    <3> QED BY <2>1, <2>7, <2>8, <3>1, <3>3 DEF CustodyAcrossWrites, Custody
  <2>10. HeldBack(failed)'
    BY <1>a, <2>1 DEF HeldBack, Undone
  <2>11. /\ CommittedRowsConfirmed(queue)' /\ CommittedRowsConfirmed(pending)'
         /\ CommittedRowsConfirmed(inflight)' /\ CommittedRowsConfirmed(owed.rows)'
    BY <1>a, <2>1, <2>3, <2>4, <2>5, <2>6, <2>7, <2>8, NoRows DEF CommittedRowsConfirmed
  <2>12. completed' \subseteq confirmed'
    BY <1>a, <2>1
  <2> QED BY <1>a, <2>1, <2>8, <2>9, <2>10, <2>11, <2>12 DEF ReplayCustody
<1>22. ASSUME NEW verdict \in Verdicts, Fail(verdict) PROVE ReplayCustody'
  <2> DEFINE row == Head(inflight)
             next == Failure(row, verdict)
             parked == row.manual \/ verdict # "transient"
             retry == IF parked THEN MaxRetries ELSE row.retry + 1
             wait == verdict \in {"transient", "worded_refusal"}
             park == verdict = "contract_missing"
  <2>1. DeadLetter(next, pending) \/ KeepQueued(next, pending)
    BY <1>22 DEF Fail
  <2>2. row \in Row
    BY <1>20, <1>22 DEF Fail, At
  <2>3. next = [row EXCEPT !.st = "pending", !.manual = parked, !.retry = retry,
                           !.wait = wait, !.park = park]
    BY DEF Failure
  <2>4. /\ Settled /\ pc' = "loop" /\ inflight' = <<>>
        /\ UNCHANGED <<accepted, confirmed, cleared, manager, completed>>
    BY <1>22 DEF Fail, At, history
  <2> HIDE DEF row, next
  <2>5. retry \in Nat
    BY <2>2, RetriesAssumption DEF Row
  <2>6. parked \in BOOLEAN /\ wait \in BOOLEAN /\ park \in BOOLEAN /\ (parked \/ wait)
    OBVIOUS
  <2> HIDE DEF parked, retry, wait, park
  <2>7. next \in Row /\ next.st = "pending" /\ (next.manual \/ next.wait)
    BY <2>2, <2>3, <2>5, <2>6 DEF Row
  <2> QED BY <1>0, <1>g, <1>h, <2>1, <2>4, <2>7
<1>23. CASE FinishPass
  <2>1. /\ Settled /\ failed' = MergeRows(failed, dead)
        /\ pending' = <<>> /\ inflight' = <<>> /\ dead' = <<>> /\ completed' = {}
        /\ UNCHANGED <<queue, owed, accepted, confirmed, cleared, manager>>
    BY <1>23 DEF FinishPass, ForgetPass, At, history
  <2>2. Ids(failed') = Ids(failed) \cup Ids(dead)
    BY <1>0, <2>1, MergeRowsRows
  <2>3. owed'.file = "none"
    BY <1>b, <2>1
  <2>4. CustodyAcrossWrites'
    BY <1>a, <2>1, <2>2, <2>3 DEF CustodyAcrossWrites, Custody, Undone
  <2>5. /\ HeldBack(failed)' /\ CommittedRowsConfirmed(queue)'
        /\ CommittedRowsConfirmed(pending)' /\ CommittedRowsConfirmed(inflight)'
    BY <1>a, <2>1, NoRows DEF HeldBack, CommittedRowsConfirmed
  <2> QED BY <2>1, <2>3, <2>4, <2>5 DEF ReplayCustody
<1>24. CASE GoOffline
  BY <1>24, <1>a, <1>c DEF GoOffline, disk, pass, history
<1>25. CASE GoOnline
  BY <1>25, <1>a, <1>c DEF GoOnline, disk, pass, history
<1>26. CASE Crash
  <2>1. /\ owed' = NoWrite /\ pending' = <<>> /\ inflight' = <<>> /\ dead' = <<>>
        /\ completed' = {}
        /\ UNCHANGED <<queue, failed, accepted, confirmed, cleared, manager>>
    BY <1>26 DEF Crash, ForgetPass, history
  <2>2. owed'.file = "none"
    BY <2>1 DEF NoWrite
  <2>3. CustodyAcrossWrites'
    BY <1>a, <2>1, <2>2 DEF CustodyAcrossWrites, Custody, Undone
  <2>4. /\ HeldBack(failed)' /\ CommittedRowsConfirmed(queue)'
        /\ CommittedRowsConfirmed(pending)' /\ CommittedRowsConfirmed(inflight)'
    BY <1>a, <2>1, NoRows DEF HeldBack, CommittedRowsConfirmed
  <2> QED BY <2>1, <2>2, <2>3, <2>4 DEF ReplayCustody
<1>27. CASE UNCHANGED vars
  BY <1>27, <1>a, <1>c DEF vars, disk, pass, network, history
<1> QED
  BY <1>1, <1>2, <1>3, <1>5, <1>6, <1>7, <1>8, <1>9, <1>10, <1>11, <1>12, <1>13,
     <1>14, <1>15, <1>16, <1>17, <1>18, <1>19, <1>21, <1>22, <1>23, <1>24, <1>25,
     <1>26, <1>27 DEF Next, PassStep

\* The strengthening holds in every reachable state.
THEOREM CustodyInvariant == Spec => []ReplayCustody
<1>1. Init => TypeOK /\ ReplayCustody
  BY TypeInit, CustodyInit
<1>2. TypeOK /\ ReplayCustody /\ [Next]_vars => (TypeOK /\ ReplayCustody)'
  BY TypeStep, CustodyStep
<1> QED BY <1>1, <1>2, PTL DEF Spec

\* No accepted operation is lost, for every set of operations, dependency
\* relation and bound, wherever crashes fall.
THEOREM NoLoss == Spec => []NoOperationLost
<1>1. ReplayCustody => NoOperationLost
  BY DEF ReplayCustody, CustodyAcrossWrites, NoOperationLost
<1> QED BY <1>1, CustodyInvariant, PTL
=============================================================================
