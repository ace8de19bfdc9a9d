----------------------- MODULE SyncQueueReplayProofs ------------------------
(***************************************************************************)
(* Proofs about what the replay engine sends, for every set of operations, *)
(* dependency relation, retry budget and bound: it works on one copy of an *)
(* operation, charges the budget for attempts only, respects dependencies, *)
(* and, while the process lives, never sends what is confirmed or waits    *)
(* for review.                                                             *)
(***************************************************************************)
EXTENDS SyncQueueProofs

-----------------------------------------------------------------------------
(* One copy of each operation *)

\* The rows rewritten on their way back to the queue, the ones a pass starts
\* from and the ones whose wait is over keep their ids, and so their number.
LEMMA RewritesDistinct ==
  ASSUME NEW s \in Seq(Row), DistinctIds(s)
  PROVE  /\ \A elapsed \in BOOLEAN : DistinctIds(Retried(s, elapsed))
         /\ DistinctIds(Swept(s)) /\ DistinctIds(Unparked(s))
         /\ \A o : DistinctIds(Release(s, o))
         /\ \A i \in DOMAIN s : DistinctIds([s EXCEPT ![i].wait = FALSE])
<1>1. ASSUME NEW elapsed \in BOOLEAN PROVE DistinctIds(Retried(s, elapsed))
  <2> DEFINE t == Retried(s, elapsed)
  <2>1. DOMAIN t = DOMAIN s
    BY DEF Retried
  <2>2. \A i \in DOMAIN s : t[i].id = s[i].id
    <3> TAKE i \in DOMAIN s
    <3>1. s[i] \in Row
      OBVIOUS
    <3> QED BY <3>1 DEF Retried, Row
  <2> HIDE DEF t
  <2> QED BY <2>1, <2>2, RewrittenDistinct DEF t
<1>2. DistinctIds(Swept(s))
  <2> DEFINE t == Swept(s)
  <2>1. DOMAIN t = DOMAIN s
    BY DEF Swept
  <2>2. \A i \in DOMAIN s : t[i].id = s[i].id
    <3> TAKE i \in DOMAIN s
    <3>1. s[i] \in Row
      OBVIOUS
    <3> QED BY <3>1 DEF Swept, Row
  <2> HIDE DEF t
  <2> QED BY <2>1, <2>2, RewrittenDistinct DEF t
<1>3. DistinctIds(Unparked(s))
  <2> DEFINE t == Unparked(s)
  <2>1. DOMAIN t = DOMAIN s
    BY DEF Unparked
  <2>2. \A i \in DOMAIN s : t[i].id = s[i].id
    BY DEF Unparked, NewRow
  <2> HIDE DEF t
  <2> QED BY <2>1, <2>2, RewrittenDistinct DEF t
<1>4. ASSUME NEW o PROVE DistinctIds(Release(s, o))
  <2> DEFINE t == Release(s, o)
  <2>1. DOMAIN t = DOMAIN s
    BY DEF Release
  <2>2. \A i \in DOMAIN s : t[i].id = s[i].id
    <3> TAKE i \in DOMAIN s
    <3>1. s[i] \in Row /\ (t[i] = [s[i] EXCEPT !.wait = FALSE] \/ t[i] = s[i])
      BY DEF Release
    <3> HIDE DEF t
    <3> QED BY <3>1 DEF Row
  <2> HIDE DEF t
  <2> QED BY <2>1, <2>2, RewrittenDistinct DEF t
<1>5. ASSUME NEW i \in DOMAIN s PROVE DistinctIds([s EXCEPT ![i].wait = FALSE])
  <2> DEFINE t == [s EXCEPT ![i].wait = FALSE]
  <2>1. DOMAIN t = DOMAIN s
    OBVIOUS
  <2>2. \A j \in DOMAIN s : t[j].id = s[j].id
    <3> TAKE j \in DOMAIN s
    <3>1. s[j] \in Row /\ t[j] = IF j = i THEN [s[i] EXCEPT !.wait = FALSE] ELSE s[j]
      OBVIOUS
    <3> HIDE DEF t
    <3> QED BY <3>1 DEF Row
  <2> HIDE DEF t
  <2> QED BY <2>1, <2>2, RewrittenDistinct DEF t
<1> QED BY <1>1, <1>2, <1>3, <1>4, <1>5

LEMMA NormalizedDistinct ==
  ASSUME queue \in Seq(Row), DistinctIds(queue)
  PROVE  DistinctIds(Normalized)
<1> DEFINE kept == SelectAt(queue, Live)
           t == Normalized
<1>1. kept \in Seq(Row) /\ DistinctIds(kept)
  BY SelectAtRows, SelectAtDistinct DEF Live
<1>2. DOMAIN t = DOMAIN kept
  BY DEF Normalized
<1>3. \A i \in DOMAIN kept : t[i] = [kept[i] EXCEPT !.st = "pending"]
  BY DEF Normalized
<1> HIDE DEF t, kept
<1>4. \A i \in DOMAIN kept : t[i].id = kept[i].id
  <2> TAKE i \in DOMAIN kept
  <2>1. kept[i] \in Row
    BY <1>1
  <2> QED BY <1>3, <2>1 DEF Row
<1>5. DistinctIds(t)
  BY <1>1, <1>2, <1>4, RewrittenDistinct
<1> QED BY <1>5 DEF t

LEMMA AbsorbDistinct ==
  ASSUME queue \in Seq(Row), DistinctIds(queue),
         NEW rows \in Seq(Row), DistinctIds(rows), NEW done, NEW dl, NEW other
  PROVE  DistinctIds(Absorb(rows, done, dl, other))
<1> DEFINE seen == Ids(rows) \cup done \cup Ids(dl) \cup other
           new == NewArrivals(queue, seen)
<1>1. Absorb(rows, done, dl, other) = rows \o new
  BY DEF Absorb
<1>2. Ids(rows) \subseteq seen
  OBVIOUS
<1> HIDE DEF seen
<1>3. new \in Seq(Row) /\ Ids(new) = Ids(queue) \ seen /\ DistinctIds(new)
  BY DropRows, DropDistinct DEF NewArrivals
<1> HIDE DEF new
<1> QED BY <1>1, <1>2, <1>3, ConcatDistinct

LEMMA RequeueDistinct ==
  ASSUME queue \in Seq(Row), failed \in Seq(Row), NEW rows \in Seq(Row),
         DistinctIds(queue), DistinctIds(failed), DistinctIds(rows), Requeue(rows)
  PROVE  DistinctIds(queue') /\ DistinctIds(owed'.rows)
<1> DEFINE new == Drop(rows, Ids(queue))
           rest == Drop(failed, Ids(rows))
<1>1. new \in Seq(Row) /\ Ids(new) = Ids(rows) \ Ids(queue) /\ DistinctIds(new)
  BY DropRows, DropDistinct
<1>2. DistinctIds(rest)
  BY DropDistinct
<1>3. queue' = queue \o new /\ owed'.rows = rest
  BY DEF Requeue, OweFailed
<1> HIDE DEF new, rest
<1>4. DistinctIds(queue \o new)
  BY <1>1, ConcatDistinct
<1> QED BY <1>2, <1>3, <1>4

\* What a failed attempt leaves of its row.
LEMMA FailureRow ==
  ASSUME NEW row \in Row, NEW verdict \in Verdicts
  PROVE  LET next == Failure(row, verdict)
         IN /\ next \in Row /\ next.id = row.id
            /\ next.retry = MaxRetries \/ next.retry = row.retry + 1
            /\ next.manual \/ next.wait
<1> DEFINE parked == row.manual \/ verdict # "transient"
           retry == IF parked THEN MaxRetries ELSE row.retry + 1
           wait == verdict \in {"transient", "worded_refusal"}
           park == verdict = "contract_missing"
           next == Failure(row, verdict)
<1>1. next = [row EXCEPT !.st = "pending", !.manual = parked, !.retry = retry,
                         !.wait = wait, !.park = park]
  BY DEF Failure
<1>2. retry \in Nat /\ (retry = MaxRetries \/ retry = row.retry + 1)
  BY RetriesAssumption DEF Row
<1>3. parked \in BOOLEAN /\ wait \in BOOLEAN /\ park \in BOOLEAN /\ (parked \/ wait)
  OBVIOUS
<1> HIDE DEF parked, retry, wait, park, next
<1>4. /\ next \in Row /\ next.id = row.id /\ next.retry = retry
      /\ (next.manual \/ next.wait)
  BY <1>1, <1>2, <1>3 DEF Row
<1> QED BY <1>2, <1>4 DEF next

\* SingleCopies, array by array.
Copies ==
  /\ DistinctIds(queue) /\ DistinctIds(failed) /\ DistinctIds(owed.rows)
  /\ DistinctIds(dead) /\ DistinctIds(inflight) /\ DistinctIds(pending)
  /\ Ids(inflight) \cap Ids(pending) = {}
  /\ Ids(dead) \cap (Ids(inflight) \cup Ids(pending)) = {}
  /\ pc # "rpc" => inflight = <<>>

LEMMA CopiesAreSingle ==
  ASSUME inflight \in Seq(Row), pending \in Seq(Row)
  PROVE  SingleCopies <=> Copies
<1>1. DistinctIds(inflight \o pending) <=>
        /\ DistinctIds(inflight) /\ DistinctIds(pending)
        /\ Ids(inflight) \cap Ids(pending) = {}
  BY ConcatDistinct
<1>2. Ids(inflight \o pending) = Ids(inflight) \cup Ids(pending)
  BY ConcatRows
<1> QED BY <1>1, <1>2 DEF SingleCopies, NoDuplicateRows, Copies

LEMMA CopiesInit == Init => Copies
BY DistinctNone, NoRows DEF Init, Copies, NoWrite

\* One case per action; <1>a to <1>g are what several of them do.
LEMMA CopiesStep == TypeOK /\ ReplayCustody /\ Copies /\ [Next]_vars => Copies'
<1> SUFFICES ASSUME TypeOK, ReplayCustody, Copies, [Next]_vars PROVE Copies'
  OBVIOUS
<1>0. /\ queue \in Seq(Row) /\ failed \in Seq(Row) /\ dead \in Seq(Row)
      /\ pending \in Seq(Row) /\ inflight \in Seq(Row) /\ owed.rows \in Seq(Row)
  BY DEF TypeOK
<1>a. /\ DistinctIds(queue) /\ DistinctIds(failed) /\ DistinctIds(owed.rows)
      /\ DistinctIds(dead) /\ DistinctIds(inflight) /\ DistinctIds(pending)
      /\ Ids(inflight) \cap Ids(pending) = {}
      /\ Ids(dead) \cap (Ids(inflight) \cup Ids(pending)) = {}
      /\ (pc # "rpc" => inflight = <<>>)
  BY DEF Copies
\* The pass is left alone.
<1>b. ASSUME DistinctIds(queue'), DistinctIds(failed'), DistinctIds(owed'.rows),
             UNCHANGED <<pending, inflight, dead>>, pc' # "rpc" => inflight = <<>>
      PROVE  Copies'
  BY <1>a, <1>b DEF Copies
<1>c. ASSUME NEW rows \in Seq(Row), DistinctIds(rows), Requeue(rows),
             UNCHANGED <<failed, pending, inflight, dead>>, pc' # "rpc" => inflight = <<>>
      PROVE  Copies'
  <2>1. DistinctIds(queue') /\ DistinctIds(owed'.rows)
    BY <1>0, <1>a, <1>c, RequeueDistinct
  <2> QED BY <1>a, <1>b, <1>c, <2>1
\* The pass writes the queue from its rows.
<1>d. ASSUME NEW rows \in Seq(Row), DistinctIds(rows), Ids(rows) \subseteq Ids(pending),
             queue' = Absorb(rows, completed, dead, {}), inflight = <<>>,
             pending' = queue' \/ pending' = <<>>,
             UNCHANGED <<failed, owed, inflight, dead>>
      PROVE  Copies'
  <2>1. DistinctIds(queue')
    BY <1>0, <1>a, <1>d, AbsorbDistinct
  <2>2. Ids(queue') = Ids(rows) \cup (Ids(queue) \ (completed \cup Ids(dead) \cup {}))
    BY <1>0, <1>d, AbsorbRows
  <2>3. DistinctIds(pending') /\ Ids(pending') \cap Ids(dead) = {}
    BY <1>a, <1>d, <2>1, <2>2, NoRows, DistinctNone
  <2> QED BY <1>a, <1>d, <2>1, <2>3, NoRows DEF Copies
\* The pass gives a row up, or puts it back.
<1>e. ASSUME NEW row \in Row, NEW rest \in Seq(Row), DistinctIds(rest),
             Ids(rest) \cap Ids(dead) = {}, row.id \notin Ids(rest) \cup Ids(dead),
             inflight' = <<>>, DeadLetter(row, rest) \/ KeepQueued(row, rest)
      PROVE  Copies'
  <2>1. CASE DeadLetter(row, rest)
    <3> DEFINE one == <<row>>
               dl == dead'
    <3>1. /\ dl = Append(dead, row) /\ failed' = MergeRows(failed, one)
          /\ pending' = Absorb(rest, completed, dl, {}) /\ queue' = queue
          /\ owed' = [file |-> "queue", rows |-> pending']
      BY <2>1 DEF DeadLetter, OweQueue
    <3>2. one \in Seq(Row) /\ DistinctIds(one)
      BY OneRow, DistinctOne
    <3> HIDE DEF one, dl
    <3>3. DistinctIds(failed')
      BY <1>0, <1>a, <3>1, <3>2, MergeRowsDistinct
    <3>4. DistinctIds(dl) /\ Ids(dl) = Ids(dead) \cup {row.id}
      BY <1>0, <1>a, <1>e, <3>1, AppendRows, AppendDistinct
    <3>5. DistinctIds(pending')
      BY <1>0, <1>a, <1>e, <3>1, AbsorbDistinct
    <3>6. Ids(pending') = Ids(rest) \cup (Ids(queue) \ (completed \cup Ids(dl) \cup {}))
      BY <1>0, <3>1, AbsorbRows
    <3>7. Ids(pending') \cap Ids(dl) = {}
      BY <1>e, <3>4, <3>6
    <3>8. DistinctIds(owed'.rows)
      BY <3>1, <3>5
    <3> QED BY <1>a, <1>e, <3>1, <3>3, <3>4, <3>5, <3>7, <3>8, NoRows, DistinctNone DEF Copies, dl
  <2>2. CASE KeepQueued(row, rest)
    <3> DEFINE rows == Append(rest, row)
    <3>1. /\ pending' = Absorb(rows, completed, dead, {}) /\ queue' = pending'
          /\ failed' = failed /\ owed' = owed /\ dead' = dead
      BY <2>2 DEF KeepQueued
    <3>2. rows \in Seq(Row) /\ Ids(rows) = Ids(rest) \cup {row.id} /\ DistinctIds(rows)
      BY <1>e, AppendRows, AppendDistinct
    <3> HIDE DEF rows
    <3>3. DistinctIds(pending')
      BY <1>0, <1>a, <3>1, <3>2, AbsorbDistinct
    <3>4. Ids(pending') = Ids(rows) \cup (Ids(queue) \ (completed \cup Ids(dead) \cup {}))
      BY <1>0, <3>1, <3>2, AbsorbRows
    <3>5. Ids(pending') \cap Ids(dead) = {}
      BY <1>e, <3>2, <3>4
    <3> QED BY <1>a, <1>e, <3>1, <3>3, <3>5, NoRows, DistinctNone DEF Copies
  <2> QED BY <1>e, <2>1, <2>2
<1>f. ASSUME NEW ids PROVE Keep(failed, ids) \in Seq(Row) /\ DistinctIds(Keep(failed, ids))
  BY <1>0, <1>a, KeepRows, KeepDistinct
<1>1. ASSUME NEW o \in Ops, QueueOperation(o) PROVE Copies'
  <2> DEFINE new == NewRow(o)
  <2>1. /\ queue' = IF o \in Ids(queue) THEN queue ELSE Append(queue, new)
        /\ UNCHANGED <<failed, owed, pc, pending, inflight, dead>>
    BY <1>1 DEF QueueOperation, pass
  <2>2. new \in Row /\ new.id = o
    BY NewRowType
  <2> HIDE DEF new
  <2>3. o \notin Ids(queue) => DistinctIds(Append(queue, new))
    BY <1>0, <1>a, <2>2, AppendDistinct
  <2> QED BY <1>a, <1>b, <2>1, <2>3
<1>2. CASE RetrySyncItems
  <2>1. PICK ids \in SUBSET Ids(failed), elapsed \in BOOLEAN :
          Requeue(Retried(Keep(failed, ids), elapsed))
    BY <1>2 DEF RetrySyncItems
  <2> DEFINE kept == Keep(failed, ids)
             rows == Retried(kept, elapsed)
  <2>2. kept \in Seq(Row) /\ DistinctIds(kept)
    BY <1>f
  <2> HIDE DEF kept
  <2>3. rows \in Seq(Row) /\ DistinctIds(rows)
    BY <2>2, RetriedRows, RewritesDistinct
  <2>4. Requeue(rows)
    BY <2>1 DEF kept
  <2> HIDE DEF rows
  <2> QED BY <1>2, <1>a, <1>c, <2>3, <2>4 DEF RetrySyncItems, pass
<1>3. CASE ClearSyncFailed
  <2>1. PICK ids : failed' = Drop(failed, ids)
    BY <1>3 DEF ClearSyncFailed
  <2>2. DistinctIds(failed')
    BY <1>0, <1>a, <2>1, DropDistinct
  <2> QED BY <1>3, <1>a, <1>b, <2>2 DEF ClearSyncFailed, pass
<1>g. ASSUME RequeueEligible, UNCHANGED <<failed, pending, inflight, dead>>,
             pc' # "rpc" => inflight = <<>>
      PROVE  Copies'
  <2> DEFINE kept == Keep(failed, Eligible)
             rows == Swept(kept)
  <2>1. kept \in Seq(Row) /\ DistinctIds(kept)
    BY <1>f
  <2> HIDE DEF kept
  <2>2. rows \in Seq(Row) /\ DistinctIds(rows)
    BY <2>1, SweptRows, RewritesDistinct
  <2>3. Requeue(rows)
    BY <1>g DEF RequeueEligible, kept
  <2> HIDE DEF rows
  <2> QED BY <1>c, <1>g, <2>2, <2>3
<1>4. CASE TimerSweep
  BY <1>4, <1>a, <1>g DEF TimerSweep, pass
<1>5. CASE CompleteWrite
  <2>1. DistinctIds(NoWrite.rows)
    BY DistinctNone DEF NoWrite
  <2> QED BY <1>5, <1>a, <1>b, <2>1 DEF CompleteWrite, pass
<1>6. ASSUME NEW o \in Ops, BecomeDue(o) PROVE Copies'
  <2>a. /\ queue' = queue
           \/ \E i \in DOMAIN queue : queue' = [queue EXCEPT ![i].wait = FALSE]
        /\ failed' = failed
           \/ \E i \in DOMAIN failed : failed' = [failed EXCEPT ![i].wait = FALSE]
    BY <1>6 DEF BecomeDue
  <2>b. /\ \A i \in DOMAIN queue : DistinctIds([queue EXCEPT ![i].wait = FALSE])
        /\ \A i \in DOMAIN failed : DistinctIds([failed EXCEPT ![i].wait = FALSE])
    BY <1>0, <1>a, RewritesDistinct
  <2>1. DistinctIds(queue') /\ DistinctIds(failed')
    BY <1>a, <2>a, <2>b
  <2> QED BY <1>6, <1>a, <1>b, <2>1 DEF BecomeDue, pass
<1>7. CASE StartPass \/ RunSyncNow
  <2>1. /\ pc = "idle" /\ UNCHANGED <<failed, pending, inflight, dead>>
        /\ UNCHANGED <<queue, owed>> \/ RequeueEligible
    BY <1>7 DEF StartPass, RunSyncNow, BeginPass, At
  <2> QED BY <1>a, <1>b, <1>g, <2>1
<1>8. CASE ProbeContract
  BY <1>8, <1>a, <1>b DEF ProbeContract, At, disk
<1>9. CASE ContractAnswer
  <2> DEFINE kept == Keep(failed, Parked \cap stale)
             rows == Unparked(kept)
  <2>1. /\ pc = "probe" /\ UNCHANGED <<failed, pending, inflight, dead>>
        /\ UNCHANGED <<queue, owed>> \/ Requeue(rows)
    BY <1>9 DEF ContractAnswer, At
  <2>2. kept \in Seq(Row) /\ DistinctIds(kept)
    BY <1>f
  <2> HIDE DEF kept
  <2>3. rows \in Seq(Row) /\ DistinctIds(rows)
    BY <2>2, UnparkedRows, RewritesDistinct
  <2> HIDE DEF rows
  <2> QED BY <1>a, <1>b, <1>c, <2>1, <2>3
<1>10. CASE LoadQueue
  <2>1. /\ pc = "load" /\ pending' = Normalized
        /\ queue' = queue \/ queue' = Normalized
        /\ UNCHANGED <<failed, owed, inflight, dead>>
    BY <1>10 DEF LoadQueue, At
  <2>2. DistinctIds(Normalized)
    BY <1>0, <1>a, NormalizedDistinct
  <2>3. dead = <<>> /\ inflight = <<>>
    BY <1>a, <2>1 DEF ReplayCustody
  <2> QED BY <1>a, <2>1, <2>2, <2>3, NoRows, DistinctNone DEF Copies
<1>11. CASE PauseOffline
  BY <1>0, <1>11, <1>a, <1>d DEF PauseOffline, At
<1>12. CASE DetectCycle
  BY <1>12, <1>a, <1>b DEF DetectCycle, At, disk
<1>13. CASE EndPass
  BY <1>0, <1>13, <1>a, <1>d DEF EndPass, At
<1>14. CASE DeadLetterCycle
  <2>1. CASE pending = <<>>
    <3> DEFINE none == <<>>
    <3>1. none \in Seq(Row) /\ DistinctIds(none) /\ Ids(none) = {}
      BY NoRows, DistinctNone
    <3>2. /\ queue' = Absorb(none, completed, dead, {}) /\ pending' = queue' /\ pc = "cycle"
          /\ UNCHANGED <<failed, owed, inflight, dead>>
      BY <1>14, <2>1 DEF DeadLetterCycle, At
    <3> HIDE DEF none
    <3> QED BY <1>a, <1>d, <3>1, <3>2
  <2>2. CASE pending # <<>>
    <3> DEFINE head == Head(pending)
               rest == Tail(pending)
               row == [head EXCEPT !.st = "pending", !.retry = MaxRetries, !.manual = TRUE]
               one == <<row>>
    <3>1. /\ head \in Row /\ rest \in Seq(Row) /\ head.id \in Ids(pending)
          /\ DistinctIds(rest) /\ Ids(rest) = Ids(pending) \ {head.id}
      BY <1>0, <1>a, <2>2, HeadTailRows, HeadTailDistinct
    <3>2. /\ pc = "cycle" /\ pc' = pc
          /\ dead' = Append(dead, row) /\ failed' = MergeRows(failed, one)
          /\ pending' = rest /\ UNCHANGED <<queue, owed, inflight>>
      BY <1>14, <2>2 DEF DeadLetterCycle, At
    <3> HIDE DEF head, rest
    <3>3. row \in Row /\ row.id = head.id
      <4>1. MaxRetries \in Nat
        BY RetriesAssumption
      <4> QED BY <3>1, <4>1 DEF Row
    <3> HIDE DEF row
    <3>4. one \in Seq(Row) /\ DistinctIds(one)
      BY <3>3, OneRow, DistinctOne
    <3> HIDE DEF one
    <3>5. DistinctIds(failed')
      BY <1>0, <1>a, <3>2, <3>4, MergeRowsDistinct
    <3>6. head.id \notin Ids(dead)
      BY <1>a, <3>1
    <3>7. DistinctIds(dead') /\ Ids(dead') = Ids(dead) \cup {head.id}
      BY <1>0, <1>a, <3>2, <3>3, <3>6, AppendRows, AppendDistinct
    <3>8. inflight = <<>> /\ Ids(inflight) = {}
      BY <1>a, <3>2, NoRows
    <3> QED BY <1>a, <3>1, <3>2, <3>5, <3>7, <3>8 DEF Copies
  <2> QED BY <2>1, <2>2
<1>h. ASSUME NEW i \in DOMAIN pending
      PROVE  /\ pending[i] \in Row /\ pending[i].id \in Ids(pending)
             /\ RemoveIndex(pending, i) \in Seq(Row) /\ DistinctIds(RemoveIndex(pending, i))
             /\ Ids(RemoveIndex(pending, i)) = Ids(pending) \ {pending[i].id}
  <2>1. pending[i] \in Row /\ pending[i].id \in Ids(pending)
    BY <1>0 DEF Ids
  <2>2. /\ RemoveIndex(pending, i) \in Seq(Row) /\ DistinctIds(RemoveIndex(pending, i))
        /\ Ids(RemoveIndex(pending, i)) = Ids(pending) \ {pending[i].id}
    BY <1>0, <1>a, RemoveIndexRows, RemoveIndexDistinct
  <2> QED BY <2>1, <2>2
<1>15. ASSUME NEW i \in DOMAIN pending, DeferRow(i) PROVE Copies'
  <2> DEFINE row == pending[i]
             rest == RemoveIndex(pending, i)
             rotated == Append(rest, row)
  <2>1. /\ pc = "loop" /\ UNCHANGED <<failed, owed, inflight, dead>>
        /\ \/ queue' = Absorb(rotated, completed, dead, {}) /\ pending' = queue'
           \/ pending' = rotated /\ queue' = queue
    BY <1>15 DEF DeferRow, LoopTop, At
  <2>2. /\ row \in Row /\ rest \in Seq(Row) /\ DistinctIds(rest)
        /\ row.id \in Ids(pending) /\ Ids(rest) = Ids(pending) \ {row.id}
    BY <1>h
  <2> HIDE DEF row, rest
  <2>3. rotated \in Seq(Row) /\ DistinctIds(rotated) /\ Ids(rotated) = Ids(pending)
    BY <2>2, AppendRows, AppendDistinct
  <2> HIDE DEF rotated
  <2>4. inflight = <<>>
    BY <1>a, <2>1
  <2>5. CASE queue' = Absorb(rotated, completed, dead, {}) /\ pending' = queue'
    BY <1>d, <2>1, <2>3, <2>4, <2>5
  <2>6. CASE pending' = rotated /\ queue' = queue
    BY <1>a, <2>1, <2>3, <2>4, <2>6 DEF Copies
  <2> QED BY <2>1, <2>5, <2>6
<1>16. ASSUME NEW i \in DOMAIN pending, SkipDependent(i) PROVE Copies'
  <2> DEFINE row == pending[i]
             rest == RemoveIndex(pending, i)
             given == [row EXCEPT !.st = "pending", !.retry = MaxRetries, !.manual = TRUE]
             kept == Skipped(row)
  <2>1. DeadLetter(given, rest) \/ DeadLetter(kept, rest) \/ KeepQueued(kept, rest)
    BY <1>16 DEF SkipDependent
  <2>2. inflight' = <<>>
    BY <1>16, <1>a DEF SkipDependent, LoopTop, At
  <2>3. /\ row \in Row /\ rest \in Seq(Row) /\ DistinctIds(rest)
        /\ row.id \in Ids(pending) /\ Ids(rest) = Ids(pending) \ {row.id}
    BY <1>h
  <2> HIDE DEF row, rest
  <2>4. MaxRetries \in Nat
    BY RetriesAssumption
  <2>5. given \in Row /\ given.id = row.id /\ kept \in Row /\ kept.id = row.id
    BY <2>3, <2>4 DEF Row, Skipped
  <2> HIDE DEF given, kept
  <2>6. /\ Ids(rest) \cap Ids(dead) = {}
        /\ row.id \notin Ids(rest) \cup Ids(dead)
    BY <1>a, <2>3
  <2> QED BY <1>e, <2>1, <2>2, <2>3, <2>5, <2>6
<1>17. ASSUME NEW i \in DOMAIN pending, Dispatch(i) PROVE Copies'
  <2> DEFINE row == pending[i]
             rest == RemoveIndex(pending, i)
             sent == [row EXCEPT !.st = "in_flight"]
             all == Absorb(rest, completed, dead, {row.id})
             held == <<row>>
  <2>1. /\ pc' = "rpc" /\ pending' = all /\ inflight' = held /\ queue' = <<sent>> \o all
        /\ UNCHANGED <<failed, owed, dead>>
    BY <1>17 DEF Dispatch
  <2>2. /\ row \in Row /\ rest \in Seq(Row) /\ DistinctIds(rest)
        /\ row.id \in Ids(pending) /\ Ids(rest) = Ids(pending) \ {row.id}
    BY <1>h
  <2> HIDE DEF row, rest
  <2>3. sent \in Row /\ sent.id = row.id
    BY <2>2 DEF Row
  <2> HIDE DEF sent
  <2>4. /\ all \in Seq(Row) /\ DistinctIds(all)
        /\ Ids(all) = Ids(rest) \cup (Ids(queue) \ (completed \cup Ids(dead) \cup {row.id}))
    BY <1>0, <1>a, <2>2, AbsorbRows, AbsorbDistinct
  <2>5. DistinctIds(held) /\ Ids(held) = {row.id}
    BY <2>2, OneRow, DistinctOne
  <2> HIDE DEF all, held
  <2>6. row.id \notin Ids(all) /\ Ids(all) \cap Ids(dead) = {} /\ row.id \notin Ids(dead)
    BY <1>a, <2>2, <2>4
  <2>7. DistinctIds(queue')
    BY <2>1, <2>3, <2>4, <2>6, FrontDistinct
  <2> QED BY <1>a, <2>1, <2>4, <2>5, <2>6, <2>7 DEF Copies
<1>18. ASSUME NEW o \in Ops, ServerExecute(o) PROVE Copies'
  BY <1>18, <1>a, <1>b DEF ServerExecute, disk, pass
<1>i. pc = "rpc" => Head(inflight) \in Row /\ Head(inflight).id \in Ids(inflight)
  <2> SUFFICES ASSUME pc = "rpc"
               PROVE  Head(inflight) \in Row /\ Head(inflight).id \in Ids(inflight)
    OBVIOUS
  <2>1. inflight # <<>>
    BY DEF TypeOK
  <2> QED BY <1>0, <2>1, HeadTailRows
<1>19. CASE Succeed
  <2> DEFINE row == Head(inflight)
             mark == [row EXCEPT !.st = "committed"]
             done == completed \cup {row.id}
             rel == Release(pending, row.id)
             all == Absorb(rel, done, dead, {})
  <2>1. /\ inflight' = <<>> /\ pending' = all /\ queue' = <<mark>> \o all
        /\ owed' = [file |-> "queue", rows |-> all] /\ UNCHANGED <<failed, dead>>
    BY <1>19 DEF Succeed, OweQueue
  <2>2. row \in Row /\ row.id \in Ids(inflight)
    BY <1>i, <1>19 DEF Succeed, At
  <2> HIDE DEF row
  <2>3. mark \in Row /\ mark.id = row.id
    BY <2>2 DEF Row
  <2> HIDE DEF mark
  <2>4. rel \in Seq(Row) /\ Ids(rel) = Ids(pending) /\ DistinctIds(rel)
    BY <1>0, <1>a, ReleaseRows, RewritesDistinct
  <2> HIDE DEF rel
  <2>5. /\ all \in Seq(Row) /\ DistinctIds(all)
        /\ Ids(all) = Ids(rel) \cup (Ids(queue) \ (done \cup Ids(dead) \cup {}))
    BY <1>0, <1>a, <2>4, AbsorbRows, AbsorbDistinct
  <2> HIDE DEF all
  <2>6. row.id \notin Ids(all) /\ Ids(all) \cap Ids(dead) = {}
    BY <1>a, <2>2, <2>4, <2>5
  <2>7. DistinctIds(queue')
    BY <2>1, <2>3, <2>5, <2>6, FrontDistinct
  <2>8. DistinctIds(owed'.rows)
    BY <2>1, <2>5
  <2> QED BY <1>a, <2>1, <2>5, <2>6, <2>7, <2>8, NoRows, DistinctNone DEF Copies
<1>20. ASSUME NEW verdict \in Verdicts, Fail(verdict) PROVE Copies'
  <2> DEFINE row == Head(inflight)
             next == Failure(row, verdict)
  <2>1. (DeadLetter(next, pending) \/ KeepQueued(next, pending)) /\ inflight' = <<>>
    BY <1>20 DEF Fail
  <2>2. row \in Row /\ row.id \in Ids(inflight)
    BY <1>i, <1>20 DEF Fail, At
  <2> HIDE DEF row
  <2>3. next \in Row /\ next.id = row.id
    BY <2>2, FailureRow
  <2> HIDE DEF next
  <2>4. /\ Ids(pending) \cap Ids(dead) = {}
        /\ next.id \notin Ids(pending) \cup Ids(dead)
    BY <1>a, <2>2, <2>3
  <2> QED BY <1>0, <1>a, <1>e, <2>1, <2>3, <2>4
<1>21. CASE FinishPass
  <2>1. /\ failed' = MergeRows(failed, dead)
        /\ pending' = <<>> /\ inflight' = <<>> /\ dead' = <<>>
        /\ UNCHANGED <<queue, owed>>
    BY <1>21 DEF FinishPass, ForgetPass
  <2>2. DistinctIds(failed')
    BY <1>0, <1>a, <2>1, MergeRowsDistinct
  <2> QED BY <1>a, <2>1, <2>2, NoRows, DistinctNone DEF Copies
<1>22. CASE GoOffline \/ GoOnline
  BY <1>22, <1>a, <1>b DEF GoOffline, GoOnline, disk, pass
<1>23. CASE Crash
  <2>1. /\ owed'.rows = <<>> /\ pending' = <<>> /\ inflight' = <<>> /\ dead' = <<>>
        /\ UNCHANGED <<queue, failed>>
    BY <1>23 DEF Crash, ForgetPass, NoWrite
  <2> QED BY <1>a, <2>1, NoRows, DistinctNone DEF Copies
<1>24. CASE UNCHANGED vars
  BY <1>24, <1>a, <1>b DEF vars, disk, pass
<1> QED
  BY <1>1, <1>2, <1>3, <1>4, <1>5, <1>6, <1>7, <1>8, <1>9, <1>10, <1>11, <1>12,
     <1>13, <1>14, <1>15, <1>16, <1>17, <1>18, <1>19, <1>20, <1>21, <1>22, <1>23,
     <1>24 DEF Next, PassStep

LEMMA CopiesInvariant == Spec => []Copies
<1>1. Init => TypeOK /\ ReplayCustody /\ Copies
  BY TypeInit, CustodyInit, CopiesInit
<1>2. TypeOK /\ ReplayCustody /\ Copies /\ [Next]_vars => (TypeOK /\ ReplayCustody /\ Copies)'
  BY TypeStep, CustodyStep, CopiesStep
<1> QED BY <1>1, <1>2, PTL DEF Spec

\* The queue, the failed file and the rows a pass works on never hold an
\* operation twice, wherever arrivals, sweeps, reviews and crashes fall.
THEOREM OneCopy == Spec => []SingleCopies
<1>1. TypeOK /\ Copies => SingleCopies
  BY CopiesAreSingle DEF TypeOK
<1> QED BY <1>1, TypeCorrect, CopiesInvariant, PTL

\* ... which is NoDuplicateRows and what it rests on.
THEOREM NoDuplicates == Spec => []NoDuplicateRows
<1>1. SingleCopies => NoDuplicateRows
  BY DEF SingleCopies
<1> QED BY <1>1, OneCopy, PTL

-----------------------------------------------------------------------------
(* The retry budget *)

AllSpent(s) == \A r \in RowSet(s) : Spent(r)

\* Rows that keep their ids and charges.
LEMMA RewrittenSpent ==
  ASSUME NEW s, NEW t, DOMAIN t = DOMAIN s, AllSpent(s),
         \A i \in DOMAIN s : t[i].id = s[i].id /\ t[i].retry = s[i].retry
  PROVE  AllSpent(t)
<1> SUFFICES ASSUME NEW i \in DOMAIN s PROVE Spent(t[i])
  BY DEF AllSpent, RowSet
<1>1. Spent(s[i])
  BY DEF AllSpent, RowSet
<1> QED BY <1>1 DEF Spent

LEMMA DueSpent ==
  ASSUME NEW s \in Seq(Row), NEW i \in DOMAIN s, AllSpent(s)
  PROVE  AllSpent([s EXCEPT ![i].wait = FALSE])
<1> DEFINE t == [s EXCEPT ![i].wait = FALSE]
<1>1. DOMAIN t = DOMAIN s
  OBVIOUS
<1>2. \A j \in DOMAIN s : t[j].id = s[j].id /\ t[j].retry = s[j].retry
  <2> TAKE j \in DOMAIN s
  <2>1. s[j] \in Row /\ t[j] = IF j = i THEN [s[i] EXCEPT !.wait = FALSE] ELSE s[j]
    OBVIOUS
  <2> HIDE DEF t
  <2> QED BY <2>1 DEF Row
<1> HIDE DEF t
<1> QED BY <1>1, <1>2, RewrittenSpent DEF t

LEMMA ReleaseSpent ==
  ASSUME NEW s \in Seq(Row), NEW o, AllSpent(s)
  PROVE  AllSpent(Release(s, o))
<1> DEFINE t == Release(s, o)
<1>1. DOMAIN t = DOMAIN s
  BY DEF Release
<1>2. \A i \in DOMAIN s : t[i].id = s[i].id /\ t[i].retry = s[i].retry
  <2> TAKE i \in DOMAIN s
  <2>1. s[i] \in Row /\ (t[i] = [s[i] EXCEPT !.wait = FALSE] \/ t[i] = s[i])
    BY DEF Release
  <2> HIDE DEF t
  <2> QED BY <2>1 DEF Row
<1> HIDE DEF t
<1> QED BY <1>1, <1>2, RewrittenSpent DEF t

LEMMA NormalizedSpent ==
  ASSUME queue \in Seq(Row), AllSpent(queue)
  PROVE  AllSpent(Normalized)
<1> DEFINE kept == SelectAt(queue, Live)
           t == Normalized
<1>1. kept \in Seq(Row) /\ RowSet(kept) = {queue[k] : k \in Live}
  BY SelectAtRows DEF Live
<1>2. AllSpent(kept)
  BY <1>1 DEF AllSpent, RowSet, Live
<1>3. DOMAIN t = DOMAIN kept /\ \A i \in DOMAIN kept : t[i] = [kept[i] EXCEPT !.st = "pending"]
  BY DEF Normalized
<1> HIDE DEF t, kept
<1>4. \A i \in DOMAIN kept : t[i].id = kept[i].id /\ t[i].retry = kept[i].retry
  <2> TAKE i \in DOMAIN kept
  <2>1. kept[i] \in Row
    BY <1>1
  <2> QED BY <1>3, <2>1 DEF Row
<1>5. AllSpent(t)
  BY <1>2, <1>3, <1>4, RewrittenSpent
<1> QED BY <1>5 DEF t

\* A row without a charge is within any budget.
LEMMA FreshSpent ==
  ASSUME TypeOK, NEW r \in Row, r.retry = 0
  PROVE  Spent(r)
<1>1. r.id \in Ops
  BY DEF Row
<1>2. attempts[r.id] \in Nat
  BY <1>1, RetriesAssumption DEF TypeOK
<1> QED BY <1>2 DEF Spent

LEMMA SweptSpent ==
  ASSUME TypeOK, NEW s \in Seq(Row)
  PROVE  AllSpent(Swept(s)) /\ AllSpent(Unparked(s))
<1>1. ASSUME NEW i \in DOMAIN s PROVE Spent(Swept(s)[i])
  <2>1. s[i] \in Row /\ Swept(s)[i] = [s[i] EXCEPT !.st = "pending", !.retry = 0]
    BY DEF Swept
  <2>2. Swept(s)[i] \in Row /\ Swept(s)[i].retry = 0
    <3> DEFINE zero == 0
    <3>1. zero \in Nat /\ Swept(s)[i] = [s[i] EXCEPT !.st = "pending", !.retry = zero]
      BY <2>1
    <3> HIDE DEF zero
    <3>2. Swept(s)[i] \in Row /\ Swept(s)[i].retry = zero
      BY <2>1, <3>1 DEF Row
    <3> QED BY <3>2 DEF zero
  <2> QED BY <2>2, FreshSpent
<1>2. ASSUME NEW i \in DOMAIN s PROVE Spent(Unparked(s)[i])
  <2>1. s[i].id \in Ops /\ Unparked(s)[i] = NewRow(s[i].id)
    <3>1. s[i] \in Row
      OBVIOUS
    <3> QED BY <3>1 DEF Row, Unparked
  <2>2. Unparked(s)[i] \in Row /\ Unparked(s)[i].retry = 0
    BY <2>1, NewRowType DEF NewRow
  <2> QED BY <2>2, FreshSpent
<1>3. DOMAIN Swept(s) = DOMAIN s /\ DOMAIN Unparked(s) = DOMAIN s
  BY DEF Swept, Unparked
<1> QED BY <1>1, <1>2, <1>3 DEF AllSpent, RowSet

\* The attempt of the row in flight can still be charged.
Chargeable(r) ==
  r.retry < attempts[r.id] \/ attempts[r.id] = MaxRetries \/ manager[r.id] # "none"

LEMMA BudgetParts ==
  BudgetKept <=>
    /\ AllSpent(queue) /\ AllSpent(pending) /\ AllSpent(inflight)
    /\ owed.file = "queue" => AllSpent(owed.rows)
    /\ \A r \in RowSet(inflight) : Chargeable(r)
BY DEF BudgetKept, AllSpent, Chargeable

LEMMA BudgetInit == Init => BudgetKept
BY NoRows DEF Init, BudgetKept, NoWrite

LEMMA BudgetStep == TypeOK /\ BudgetKept /\ [Next]_vars => BudgetKept'
<1> SUFFICES ASSUME TypeOK, BudgetKept, [Next]_vars PROVE BudgetKept'
  OBVIOUS
<1>0. /\ queue \in Seq(Row) /\ failed \in Seq(Row) /\ dead \in Seq(Row)
      /\ pending \in Seq(Row) /\ inflight \in Seq(Row) /\ owed.rows \in Seq(Row)
  BY DEF TypeOK
<1>a. /\ AllSpent(queue) /\ AllSpent(pending) /\ AllSpent(inflight)
      /\ (owed.file = "queue" => AllSpent(owed.rows))
      /\ \A r \in RowSet(inflight) : Chargeable(r)
  BY BudgetParts
<1>b. Settled => owed.file # "queue"
  BY DEF Settled
\* No attempt is made, and the manager forgets nothing.
<1>c. ASSUME attempts' = attempts, \A o : manager[o] # "none" => manager'[o] # "none"
      PROVE  /\ \A r : (Spent(r) => Spent(r)') /\ (Chargeable(r) => Chargeable(r)')
             /\ \A s : AllSpent(s) => \A r \in RowSet(s) : Spent(r)'
  BY <1>c DEF Spent, Chargeable, AllSpent
\* Rows that were within the budget are put elsewhere.
<1>d. ASSUME UNCHANGED <<attempts, manager>>,
             \A r \in RowSet(queue') \cup RowSet(pending') : Spent(r),
             owed'.file = "queue" => \A r \in RowSet(owed'.rows) : Spent(r),
             RowSet(inflight') \subseteq RowSet(inflight)
      PROVE  BudgetKept'
  <2>1. /\ \A r : Spent(r) => Spent(r)'
        /\ \A r \in RowSet(inflight) : Spent(r) /\ Chargeable(r) /\ Chargeable(r)'
    BY <1>a, <1>c, <1>d DEF AllSpent
  <2> QED BY <1>d, <2>1 DEF BudgetKept, Chargeable
<1>e. \A r \in RowSet(queue) \cup RowSet(pending) \cup RowSet(inflight) : Spent(r)
  BY <1>a DEF AllSpent
\* Rows return from the failed file.
<1>f. ASSUME NEW rows \in Seq(Row), AllSpent(rows), Requeue(rows),
             UNCHANGED <<pending, inflight, attempts, manager>>
      PROVE  BudgetKept'
  <2>1. RowSet(queue') \subseteq RowSet(queue) \cup RowSet(rows) /\ owed'.file = "failed"
    <3>1. /\ RowSet(queue') \subseteq RowSet(queue) \cup RowSet(rows)
          /\ owed' = [file |-> "failed", rows |-> Drop(failed, Ids(rows))]
      BY <1>0, <1>f, RequeueRows
    <3> QED BY <3>1
  <2> QED BY <1>d, <1>e, <1>f, <2>1 DEF AllSpent
<1>g. ASSUME NEW ids PROVE Keep(failed, ids) \in Seq(Row)
  BY <1>0, KeepRows
\* The pass writes the queue from its rows.
<1>h. ASSUME NEW rows \in Seq(Row), RowSet(rows) \subseteq RowSet(pending), Settled,
             queue' = Absorb(rows, completed, dead, {}),
             pending' = queue' \/ pending' = <<>>,
             UNCHANGED <<owed, inflight, attempts, manager>>
      PROVE  BudgetKept'
  <2>1. RowSet(queue') \subseteq RowSet(rows) \cup RowSet(queue)
    BY <1>0, <1>h, AbsorbRows
  <2> QED BY <1>b, <1>d, <1>e, <1>h, <2>1, NoRows
\* The pass gives a row up, or puts it back.
<1>i. ASSUME NEW row \in Row, NEW rest \in Seq(Row), RowSet(rest) \subseteq RowSet(pending),
             Settled, DeadLetter(row, rest) \/ (KeepQueued(row, rest) /\ Spent(row)),
             RowSet(inflight') \subseteq RowSet(inflight), UNCHANGED <<attempts, manager>>
      PROVE  BudgetKept'
  <2>1. CASE DeadLetter(row, rest)
    <3>1. /\ queue' = queue /\ owed' = [file |-> "queue", rows |-> pending']
          /\ RowSet(pending') \subseteq RowSet(rest) \cup RowSet(queue)
      BY <1>0, <1>i, <2>1, DeadLetterRows
    <3>2. owed'.rows = pending'
      BY <3>1
    <3> QED BY <1>d, <1>e, <1>i, <3>1, <3>2
  <2>2. CASE KeepQueued(row, rest) /\ Spent(row)
    <3>1. /\ queue' = pending' /\ owed' = owed
          /\ RowSet(pending') \subseteq RowSet(rest) \cup {row} \cup RowSet(queue)
      BY <1>0, <1>i, <2>2, KeepQueuedRows
    <3> QED BY <1>b, <1>d, <1>e, <1>i, <2>2, <3>1
  <2> QED BY <1>i, <2>1, <2>2
<1>1. ASSUME NEW o \in Ops, QueueOperation(o) PROVE BudgetKept'
  <2> DEFINE new == NewRow(o)
  <2>1. /\ queue' = IF o \in Ids(queue) THEN queue ELSE Append(queue, new)
        /\ Settled /\ UNCHANGED <<owed, pending, inflight, attempts, manager>>
    BY <1>1 DEF QueueOperation, pass, Yielded
  <2>2. new \in Row /\ new.retry = 0
    BY NewRowType DEF NewRow
  <2> HIDE DEF new
  <2>3. RowSet(Append(queue, new)) = RowSet(queue) \cup {new} /\ Spent(new)
    BY <1>0, <2>2, AppendRows, FreshSpent
  <2> QED BY <1>b, <1>d, <1>e, <2>1, <2>3
<1>2. CASE RetrySyncItems
  <2>1. PICK ids \in SUBSET Ids(failed), elapsed \in BOOLEAN :
          /\ Requeue(Retried(Keep(failed, ids), elapsed))
          /\ manager' = [o \in Ops |->
               IF o \notin ids THEN manager[o]
               ELSE IF o \in Ids(dead) THEN "undone"
               ELSE IF manager[o] = "none" THEN "retried" ELSE manager[o]]
    BY <1>2 DEF RetrySyncItems
  <2> DEFINE kept == Keep(failed, ids)
             rows == Retried(kept, elapsed)
  <2>2. kept \in Seq(Row) /\ Ids(kept) = Ids(failed) \cap ids
    BY <1>0, KeepRows
  <2> HIDE DEF kept
  <2>3. rows \in Seq(Row) /\ Ids(rows) = Ids(failed) \cap ids
    BY <2>2, RetriedRows
  <2>4. Requeue(rows)
    BY <2>1 DEF kept
  <2> HIDE DEF rows
  <2>5. RowSet(queue') \subseteq RowSet(queue) \cup RowSet(rows) /\ owed'.file = "failed"
    <3>1. /\ RowSet(queue') \subseteq RowSet(queue) \cup RowSet(rows)
          /\ owed' = [file |-> "failed", rows |-> Drop(failed, Ids(rows))]
      BY <1>0, <2>3, <2>4, RequeueRows
    <3> QED BY <3>1
  <2>6. UNCHANGED <<pending, inflight, attempts>>
    BY <1>2 DEF RetrySyncItems, pass
  <2>7. \A o \in Ops : manager[o] # "none" => manager'[o] # "none"
    BY <2>1 DEF TypeOK
  <2>8. \A r \in Row : (Spent(r) => Spent(r)') /\ (Chargeable(r) => Chargeable(r)')
    <3>1. \A r \in Row : r.id \in Ops
      BY DEF Row
    <3> QED BY <2>6, <2>7, <3>1 DEF Spent, Chargeable
  <2>9. \A r \in RowSet(rows) : Spent(r)'
    <3>1. \A r \in RowSet(rows) : r.id \in ids /\ r.id \in Ops
      BY <1>0, <2>3, IdsMember, IdsType
    <3>2. \A o \in Ops : o \in ids => manager'[o] # "none"
      BY <2>1 DEF TypeOK
    <3> QED BY <3>1, <3>2 DEF Spent
  <2>10. RowSet(queue) \cup RowSet(pending) \cup RowSet(inflight) \subseteq Row
    BY <1>0, RowSetType
  <2>11. \A r \in RowSet(inflight) : Chargeable(r)'
    BY <1>a, <2>8, <2>10
  <2> QED BY <1>e, <2>5, <2>6, <2>8, <2>9, <2>10, <2>11 DEF BudgetKept, Chargeable
<1>3. CASE ClearSyncFailed
  BY <1>3, <1>b, <1>d, <1>e DEF ClearSyncFailed, pass, Yielded
<1>j. ASSUME RequeueEligible, UNCHANGED <<pending, inflight, attempts, manager>>
      PROVE  BudgetKept'
  <2> DEFINE rows == Swept(Keep(failed, Eligible))
  <2>1. rows \in Seq(Row) /\ AllSpent(rows)
    BY <1>g, SweptRows, SweptSpent
  <2>2. Requeue(rows)
    BY <1>j DEF RequeueEligible
  <2> HIDE DEF rows
  <2> QED BY <1>f, <1>j, <2>1, <2>2
<1>4. CASE TimerSweep
  BY <1>4, <1>j DEF TimerSweep, pass, history
<1>5. CASE CompleteWrite
  <2>1. /\ owed'.file = "none" /\ UNCHANGED <<pending, inflight, attempts, manager>>
        /\ (owed.file = "queue" /\ queue' = owed.rows) \/ queue' = queue
    BY <1>5 DEF CompleteWrite, NoWrite, pass, history
  <2> QED BY <1>a, <1>d, <1>e, <2>1 DEF AllSpent
<1>6. ASSUME NEW o \in Ops, BecomeDue(o) PROVE BudgetKept'
  <2>1. AllSpent(queue')
    BY <1>0, <1>6, <1>a, DueSpent DEF BecomeDue
  <2>2. Settled /\ UNCHANGED <<owed, pending, inflight, attempts, manager>>
    BY <1>6 DEF BecomeDue, Yielded, pass, history
  <2> QED BY <1>b, <1>d, <1>e, <2>1, <2>2 DEF AllSpent
<1>7. CASE StartPass \/ RunSyncNow
  <2>1. /\ Settled /\ UNCHANGED <<pending, inflight, attempts, manager>>
        /\ UNCHANGED <<queue, owed>> \/ RequeueEligible
    BY <1>7 DEF StartPass, RunSyncNow, BeginPass, At, history
  <2> QED BY <1>b, <1>d, <1>e, <1>j, <2>1
<1>8. CASE ProbeContract
  BY <1>8, <1>b, <1>d, <1>e DEF ProbeContract, At, disk, history
<1>9. CASE ContractAnswer
  <2> DEFINE rows == Unparked(Keep(failed, Parked \cap stale))
  <2>1. /\ Settled /\ UNCHANGED <<pending, inflight, attempts, manager>>
        /\ UNCHANGED <<queue, owed>> \/ Requeue(rows)
    BY <1>9 DEF ContractAnswer, At, history
  <2>2. rows \in Seq(Row) /\ AllSpent(rows)
    BY <1>g, UnparkedRows, SweptSpent
  <2> HIDE DEF rows
  <2> QED BY <1>b, <1>d, <1>e, <1>f, <2>1, <2>2
<1>10. CASE LoadQueue
  <2>1. /\ Settled /\ pending' = Normalized /\ (queue' = queue \/ queue' = Normalized)
        /\ UNCHANGED <<owed, inflight, attempts, manager>>
    BY <1>10 DEF LoadQueue, At, history
  <2>2. AllSpent(Normalized)
    BY <1>0, <1>a, NormalizedSpent
  <2> QED BY <1>b, <1>d, <1>e, <2>1, <2>2 DEF AllSpent
<1>11. CASE PauseOffline
  BY <1>0, <1>11, <1>h DEF PauseOffline, At, history
<1>12. CASE DetectCycle
  BY <1>12, <1>b, <1>d, <1>e DEF DetectCycle, At, disk, history
<1>13. CASE EndPass
  BY <1>0, <1>13, <1>h DEF EndPass, At, history
<1>14. CASE DeadLetterCycle
  <2>1. CASE pending = <<>>
    <3> DEFINE none == <<>>
    <3>1. none \in Seq(Row) /\ RowSet(none) = {}
      BY NoRows
    <3>2. /\ Settled /\ queue' = Absorb(none, completed, dead, {}) /\ pending' = queue'
          /\ UNCHANGED <<owed, inflight, attempts, manager>>
      BY <1>14, <2>1 DEF DeadLetterCycle, At, history
    <3> HIDE DEF none
    <3> QED BY <1>h, <3>1, <3>2
  <2>2. CASE pending # <<>>
    <3>1. /\ Settled /\ pending' = Tail(pending)
          /\ UNCHANGED <<queue, owed, inflight, attempts, manager>>
      BY <1>14, <2>2 DEF DeadLetterCycle, At, history
    <3>2. RowSet(Tail(pending)) \subseteq RowSet(pending)
      BY <1>0, <2>2, HeadTailRows
    <3> QED BY <1>b, <1>d, <1>e, <3>1, <3>2
  <2> QED BY <2>1, <2>2
<1>k. ASSUME NEW i \in DOMAIN pending
      PROVE  /\ pending[i] \in Row /\ pending[i] \in RowSet(pending)
             /\ RemoveIndex(pending, i) \in Seq(Row)
             /\ RowSet(RemoveIndex(pending, i)) \subseteq RowSet(pending)
  <2>1. pending[i] \in Row /\ pending[i] \in RowSet(pending)
    BY <1>0, RowSetMember
  <2>2. /\ RemoveIndex(pending, i) \in Seq(Row)
        /\ RowSet(pending) = RowSet(RemoveIndex(pending, i)) \cup {pending[i]}
    BY <1>0, RemoveIndexRows
  <2> QED BY <2>1, <2>2
<1>15. ASSUME NEW i \in DOMAIN pending, DeferRow(i) PROVE BudgetKept'
  <2> DEFINE row == pending[i]
             rest == RemoveIndex(pending, i)
             rotated == Append(rest, row)
  <2>1. /\ Settled /\ UNCHANGED <<owed, inflight, attempts, manager>>
        /\ \/ queue' = Absorb(rotated, completed, dead, {}) /\ pending' = queue'
           \/ pending' = rotated /\ queue' = queue
    BY <1>15 DEF DeferRow, LoopTop, At, history
  <2>2. /\ row \in Row /\ row \in RowSet(pending) /\ rest \in Seq(Row)
        /\ RowSet(rest) \subseteq RowSet(pending)
    BY <1>k
  <2> HIDE DEF row, rest
  <2>3. rotated \in Seq(Row) /\ RowSet(rotated) \subseteq RowSet(pending)
    BY <2>2, AppendRows
  <2> HIDE DEF rotated
  <2>4. CASE queue' = Absorb(rotated, completed, dead, {}) /\ pending' = queue'
    BY <1>h, <2>1, <2>3, <2>4
  <2>5. CASE pending' = rotated /\ queue' = queue
    BY <1>b, <1>d, <1>e, <2>1, <2>3, <2>5
  <2> QED BY <2>1, <2>4, <2>5
<1>16. ASSUME NEW i \in DOMAIN pending, SkipDependent(i) PROVE BudgetKept'
  <2> DEFINE row == pending[i]
             rest == RemoveIndex(pending, i)
             given == [row EXCEPT !.st = "pending", !.retry = MaxRetries, !.manual = TRUE]
             kept == Skipped(row)
  <2>1. DeadLetter(given, rest) \/ DeadLetter(kept, rest) \/ KeepQueued(kept, rest)
    BY <1>16 DEF SkipDependent
  <2>2. Settled /\ UNCHANGED <<inflight, attempts, manager>>
    BY <1>16 DEF SkipDependent, LoopTop, At, history
  <2>3. /\ row \in Row /\ row \in RowSet(pending) /\ rest \in Seq(Row)
        /\ RowSet(rest) \subseteq RowSet(pending)
    BY <1>k
  <2>4. Spent(row)
    BY <1>e, <2>3
  <2> HIDE DEF row, rest
  <2>5. MaxRetries \in Nat
    BY RetriesAssumption
  <2>6. given \in Row /\ kept \in Row /\ kept.id = row.id /\ kept.retry = row.retry
    BY <2>3, <2>5 DEF Row, Skipped
  <2> HIDE DEF given, kept
  <2>7. Spent(kept)
    BY <2>4, <2>6 DEF Spent
  <2> QED BY <1>i, <2>1, <2>2, <2>3, <2>6, <2>7
<1>17. ASSUME NEW i \in DOMAIN pending, Dispatch(i) PROVE BudgetKept'
  <2> DEFINE row == pending[i]
             rest == RemoveIndex(pending, i)
             sent == [row EXCEPT !.st = "in_flight"]
             one == <<sent>>
             all == Absorb(rest, completed, dead, {row.id})
             held == <<row>>
  <2>1. /\ Settled /\ pending' = all /\ inflight' = held /\ queue' = one \o all
        /\ attempts' = [attempts EXCEPT ![row.id] = IF @ < MaxRetries THEN @ + 1 ELSE @]
        /\ UNCHANGED <<owed, manager>>
    BY <1>17 DEF Dispatch, LoopTop, At
  <2>2. /\ row \in Row /\ row \in RowSet(pending) /\ rest \in Seq(Row)
        /\ RowSet(rest) \subseteq RowSet(pending)
    BY <1>k
  <2>3. Spent(row)
    BY <1>e, <2>2
  <2> HIDE DEF row, rest
  <2>4. sent \in Row /\ sent.id = row.id /\ sent.retry = row.retry /\ row.id \in Ops
        /\ row.retry \in Nat
    BY <2>2 DEF Row
  <2> HIDE DEF sent
  <2>5. /\ one \in Seq(Row) /\ RowSet(one) = {sent} /\ RowSet(held) = {row}
    BY <2>2, <2>4, OneRow
  <2>6. all \in Seq(Row) /\ RowSet(all) \subseteq RowSet(rest) \cup RowSet(queue)
    BY <1>0, <2>2, AbsorbRows
  <2> HIDE DEF one, all, held
  <2>7. RowSet(one \o all) = RowSet(one) \cup RowSet(all)
    BY <2>5, <2>6, ConcatRows
  <2>8. \A o \in Ops : attempts[o] \in 0..MaxRetries /\ attempts'[o] \in Nat
                       /\ attempts[o] <= attempts'[o]
    BY <2>1, RetriesAssumption DEF TypeOK
  <2>9. \A r \in Row : Spent(r) => Spent(r)'
    <3>1. \A r \in Row : r.id \in Ops /\ r.retry \in Nat
      BY DEF Row
    <3> QED BY <2>1, <2>8, <3>1, RetriesAssumption DEF Spent
  <2>10. attempts'[row.id] = attempts[row.id] + 1 \/ attempts'[row.id] = MaxRetries
    BY <2>1, <2>4, <2>8, RetriesAssumption DEF TypeOK
  <2>11. \/ row.retry < attempts'[row.id] \/ attempts'[row.id] = MaxRetries
         \/ manager'[row.id] # "none"
    <3>1. CASE manager[row.id] # "none"
      BY <2>1, <3>1
    <3>2. CASE row.retry <= attempts[row.id]
      <4>1. attempts[row.id] \in Nat /\ attempts'[row.id] \in Nat
        BY <2>4, <2>8, RetriesAssumption
      <4> QED BY <2>4, <2>10, <3>2, <4>1
    <3> QED BY <2>3, <3>1, <3>2 DEF Spent
  <2>12. RowSet(queue) \cup RowSet(pending) \subseteq Row /\ Spent(sent)
    BY <1>0, <2>3, <2>4, RowSetType DEF Spent
  <2>13. \A r \in RowSet(queue') \cup RowSet(pending') \cup RowSet(inflight') : Spent(r)'
    BY <1>e, <2>1, <2>2, <2>3, <2>4, <2>5, <2>6, <2>7, <2>9, <2>12
  <2>14. \A r \in RowSet(inflight') : r = row
    BY <2>1, <2>5
  <2> QED BY <1>b, <2>1, <2>11, <2>13, <2>14 DEF BudgetKept
<1>18. ASSUME NEW o \in Ops, ServerExecute(o) PROVE BudgetKept'
  <2>1. UNCHANGED <<queue, owed, pending, inflight, attempts, manager>>
    BY <1>18 DEF ServerExecute, disk, pass, history
  <2> QED BY <1>a, <1>d, <1>e, <2>1 DEF AllSpent
<1>l. pc = "rpc" => Head(inflight) \in Row /\ Head(inflight) \in RowSet(inflight)
  <2> SUFFICES ASSUME pc = "rpc"
               PROVE  Head(inflight) \in Row /\ Head(inflight) \in RowSet(inflight)
    OBVIOUS
  <2>1. inflight # <<>>
    BY DEF TypeOK
  <2> QED BY <1>0, <2>1, HeadTailRows
<1>19. CASE Succeed
  <2> DEFINE row == Head(inflight)
             mark == [row EXCEPT !.st = "committed"]
             one == <<mark>>
             done == completed \cup {row.id}
             rel == Release(pending, row.id)
             all == Absorb(rel, done, dead, {})
  <2>1. /\ inflight' = <<>> /\ pending' = all /\ queue' = one \o all
        /\ owed' = [file |-> "queue", rows |-> all] /\ UNCHANGED <<attempts, manager>>
    BY <1>19 DEF Succeed, OweQueue
  <2>2. row \in Row /\ Spent(row)
    BY <1>e, <1>l, <1>19 DEF Succeed, At
  <2> HIDE DEF row
  <2>3. mark \in Row /\ mark.id = row.id /\ mark.retry = row.retry
    BY <2>2 DEF Row
  <2> HIDE DEF mark
  <2>4. one \in Seq(Row) /\ RowSet(one) = {mark} /\ Spent(mark)
    BY <2>2, <2>3, OneRow DEF Spent
  <2>5. rel \in Seq(Row) /\ AllSpent(rel)
    BY <1>0, <1>a, ReleaseRows, ReleaseSpent
  <2> HIDE DEF one, rel
  <2>6. all \in Seq(Row) /\ RowSet(all) \subseteq RowSet(rel) \cup RowSet(queue)
    BY <1>0, <2>5, AbsorbRows
  <2> HIDE DEF all
  <2>7. RowSet(one \o all) = RowSet(one) \cup RowSet(all)
    BY <2>4, <2>6, ConcatRows
  <2>8. owed'.rows = all
    BY <2>1
  <2> QED BY <1>d, <1>e, <2>1, <2>4, <2>5, <2>6, <2>7, <2>8, NoRows DEF AllSpent
<1>20. ASSUME NEW verdict \in Verdicts, Fail(verdict) PROVE BudgetKept'
  <2> DEFINE row == Head(inflight)
             next == Failure(row, verdict)
  <2>1. /\ \/ DeadLetter(next, pending)
           \/ KeepQueued(next, pending) /\ ~(next.retry >= MaxRetries)
        /\ Settled /\ inflight' = <<>> /\ UNCHANGED <<attempts, manager>>
    BY <1>20 DEF Fail, At, history
  <2>2. row \in Row /\ Spent(row) /\ Chargeable(row)
    BY <1>a, <1>e, <1>l, <1>20 DEF Fail, At
  <2> HIDE DEF row
  <2>3. /\ next \in Row /\ next.id = row.id
        /\ next.retry = MaxRetries \/ next.retry = row.retry + 1
    BY <2>2, FailureRow
  <2> HIDE DEF next
  <2>4. ASSUME ~(next.retry >= MaxRetries) PROVE Spent(next)
    <3>1. row.retry \in Nat /\ row.id \in Ops
      BY <2>2 DEF Row
    <3>2. attempts[row.id] \in 0..MaxRetries
      BY <3>1 DEF TypeOK
    <3>3. next.retry = row.retry + 1
      BY <2>3, <2>4, RetriesAssumption
    <3>4. \/ next.retry <= attempts[row.id] \/ manager[row.id] # "none"
      BY <2>2, <2>4, <3>1, <3>2, <3>3, RetriesAssumption DEF Chargeable
    <3> QED BY <2>3, <3>4 DEF Spent
  <2> QED BY <1>0, <1>i, <2>1, <2>3, <2>4, NoRows
<1>21. CASE FinishPass
  <2>1. /\ Settled /\ pending' = <<>> /\ inflight' = <<>>
        /\ UNCHANGED <<queue, owed, attempts, manager>>
    BY <1>21 DEF FinishPass, ForgetPass, At, history
  <2> QED BY <1>b, <1>d, <1>e, <2>1, NoRows
<1>22. CASE GoOffline \/ GoOnline
  BY <1>22, <1>b, <1>d, <1>e DEF GoOffline, GoOnline, disk, pass, history, Yielded
<1>23. CASE Crash
  <2>1. /\ owed'.file = "none" /\ pending' = <<>> /\ inflight' = <<>>
        /\ UNCHANGED <<queue, attempts, manager>>
    BY <1>23 DEF Crash, ForgetPass, NoWrite, history
  <2> QED BY <1>d, <1>e, <2>1, NoRows
<1>24. CASE UNCHANGED vars
  <2>1. UNCHANGED <<queue, owed, pending, inflight, attempts, manager>>
    BY <1>24 DEF vars, disk, pass, history
  <2> QED BY <1>a, <1>d, <1>e, <2>1 DEF AllSpent
<1> QED
  BY <1>1, <1>2, <1>3, <1>4, <1>5, <1>6, <1>7, <1>8, <1>9, <1>10, <1>11, <1>12,
     <1>13, <1>14, <1>15, <1>16, <1>17, <1>18, <1>19, <1>20, <1>21, <1>22, <1>23,
     <1>24 DEF Next, PassStep

\* Every row that may come back to the queue has spent no more than its
\* dispatches.
THEOREM BudgetInvariant == Spec => []BudgetKept
<1>1. Init => TypeOK /\ BudgetKept
  BY TypeInit, BudgetInit
<1>2. TypeOK /\ BudgetKept /\ [Next]_vars => (TypeOK /\ BudgetKept)'
  BY TypeStep, BudgetStep
<1> QED BY <1>1, <1>2, PTL DEF Spec

\* Waits behind a parent, outages, sweeps and crashes never use the retry
\* budget up, for every budget and dependency relation.
THEOREM OnlyAttemptsCharged == Spec => []BudgetSpentByAttempts
<1>1. BudgetKept => BudgetSpentByAttempts
  BY DEF BudgetKept, BudgetSpentByAttempts, Spent, RowSet
<1> QED BY <1>1, BudgetInvariant, PTL

-----------------------------------------------------------------------------
(* What a step does to the identities in the files and in the pass *)

\* The history that the dependency and review properties speak about.
record == <<accepted, applied, confirmed, cleared, manager>>

\* A caller's operation arrives in the queue.
Arrival(o) ==
  /\ Settled /\ pc' = pc
  /\ o \in Ops /\ o \notin accepted /\ (ParentsFirst => Deps[o] \subseteq accepted)
  /\ Ids(queue') = Ids(queue) \cup {o} /\ accepted' = accepted \cup {o}
  /\ UNCHANGED <<failed, owed, pending, inflight, dead, completed, failedIds,
                 applied, confirmed, cleared, manager>>

\* The operations R of the failed file return to the queue.  One that the pass
\* holds dead does so by an undone retry, or lost what held it back.
Return(R) ==
  /\ Settled /\ R \subseteq Ids(failed) /\ pc # "cycle" /\ pc' # "cycle"
  /\ pc' = pc \/ pc' \in {"contract", "load"}
  /\ Ids(queue') = Ids(queue) \cup R
  /\ owed'.file = "failed" /\ Ids(owed'.rows) = Ids(failed) \ R
  /\ RowSet(owed'.rows) \subseteq RowSet(failed)
  /\ \A o \in R \cap Ids(dead) :
       Undone(o)' \/ \E r \in RowSet(failed) : r.id = o /\ ~r.manual /\ ~r.wait
  /\ \A o \in Ops : Undone(o) => Undone(o)'
  /\ UNCHANGED <<failed, pending, inflight, dead, completed, failedIds,
                 accepted, applied, confirmed, cleared>>

\* The manager clears the operations C.
Clearing(C) ==
  /\ Settled /\ pc' = pc /\ C \subseteq Ids(failed)
  /\ Ids(failed') = Ids(failed) \ C /\ RowSet(failed') \subseteq RowSet(failed)
  /\ cleared' = cleared \cup C
  /\ UNCHANGED <<queue, owed, pending, inflight, dead, completed, failedIds,
                 accepted, applied, confirmed, manager>>

\* The owed write is made.
SecondWrite ==
  /\ pc' = pc /\ owed'.file = "none" /\ Ids(owed'.rows) = {}
  /\ \/ owed.file = "queue" /\ queue' = owed.rows /\ failed' = failed
     \/ owed.file = "failed" /\ failed' = owed.rows /\ queue' = queue
  /\ UNCHANGED <<pending, inflight, dead, completed, failedIds, record>>

\* No operation moves: time, the link, the server, a turn of the pass.
Quiet ==
  /\ Ids(queue') = Ids(queue) /\ Ids(failed') = Ids(failed)
  /\ Ids(pending') = Ids(pending)
  /\ \A r \in RowSet(failed') : r.id \in Ids(dead) => r \in RowSet(failed)
  /\ failed' = failed \/ Settled
  /\ \/ pc' = pc
     \/ pc' \in {"contract", "probe", "load"} /\ pc # "cycle" /\ Settled
     \/ pc = "loop" /\ pc' = "cycle" /\ Settled
  /\ applied \subseteq applied'
  /\ UNCHANGED <<owed, inflight, dead, completed, failedIds, accepted,
                 confirmed, cleared, manager>>

\* A pass takes the queue over; it leaves out what is committed.
Loading ==
  /\ Settled /\ pc = "load" /\ inflight = <<>> /\ dead = <<>>
  /\ Ids(pending') \subseteq Ids(queue) /\ Ids(queue) \ Ids(pending') \subseteq confirmed
  /\ Ids(queue') \subseteq Ids(queue)
  /\ \/ pc' = "loop" /\ failedIds' = Ids(failed)
     \/ pc' = "idle" /\ failedIds' = {} /\ Ids(pending') = {}
  /\ UNCHANGED <<failed, owed, inflight, dead, completed, record>>

\* The pass writes the queue, with what arrived there in the meantime.
QueueWrite ==
  /\ Settled /\ pc \in {"loop", "cycle", "end"} /\ pc' \in {"loop", "end", "refresh"}
  /\ Ids(inflight) = {}
  /\ Ids(queue') = Ids(pending) \cup (Ids(queue) \ (completed \cup Ids(dead)))
  /\ Ids(pending') = Ids(queue') \/ Ids(pending') = {}
  /\ UNCHANGED <<failed, owed, inflight, dead, completed, failedIds, record>>

\* The row of o in the failed file is new and held back, the others are old.
HeldAlone(o) ==
  \A r \in RowSet(failed') : IF r.id = o THEN r.manual \/ r.wait ELSE r \in RowSet(failed)

\* A member of a dependency cycle is parked for the manager.
CycleGivenUp(o) ==
  /\ Settled /\ pc = "cycle" /\ pc' = pc /\ o \in Ids(pending)
  /\ Ids(pending') = Ids(pending) \ {o} /\ Ids(dead') = Ids(dead) \cup {o}
  /\ Ids(failed') = Ids(failed) \cup {o} /\ HeldAlone(o)
  /\ failedIds' = failedIds \cup {o}
  /\ UNCHANGED <<queue, owed, inflight, completed, record>>

\* A failed or skipped operation is parked for the manager.
Parking(o) ==
  /\ Settled /\ pc \in {"loop", "rpc"} /\ pc' = "loop"
  /\ o \in Ids(pending) \cup Ids(inflight) /\ Ids(inflight') = {}
  /\ pc = "loop" => FailedDeps(o) # {}
  /\ GivenUp = o
  /\ Ids(pending') = ((Ids(pending) \cup Ids(inflight)) \ {o})
                       \cup (Ids(queue) \ (completed \cup Ids(dead) \cup {o}))
  /\ owed'.file = "queue" /\ Ids(owed'.rows) = Ids(pending')
  /\ Ids(dead') = Ids(dead) \cup {o}
  /\ Ids(failed') = Ids(failed) \cup {o} /\ HeldAlone(o)
  /\ failedIds' \in {failedIds, failedIds \cup {o}}
  /\ UNCHANGED <<queue, completed, record>>

\* A failed or skipped operation stays in the queue.
PutBack(o) ==
  /\ Settled /\ pc \in {"loop", "rpc"} /\ pc' = "loop"
  /\ o \in Ids(pending) \cup Ids(inflight) /\ Ids(inflight') = {}
  /\ Ids(pending') = Ids(pending) \cup Ids(inflight)
                       \cup (Ids(queue) \ (completed \cup Ids(dead)))
  /\ queue' = pending'
  /\ failedIds' \in {failedIds, failedIds \cup {o}}
  /\ UNCHANGED <<failed, owed, dead, completed, record>>

\* A ready operation is sent.
Sending(o) ==
  /\ Settled /\ pc = "loop" /\ pc' = "rpc" /\ Ids(inflight) = {}
  /\ o \in Ids(pending) /\ Ids(inflight') = {o} /\ Sent = o
  /\ FailedDeps(o) = {}
  /\ \A d \in Deps[o] : d \in failedIds \cup completed \/ d \notin Ids(pending)
  /\ Ids(pending') = (Ids(pending) \ {o})
                       \cup (Ids(queue) \ (completed \cup Ids(dead) \cup {o}))
  /\ Ids(queue') = {o} \cup Ids(pending')
  /\ UNCHANGED <<failed, owed, dead, completed, failedIds, record>>

\* The operation in flight is confirmed.
Success(o) ==
  /\ Settled /\ pc = "rpc" /\ pc' = "loop"
  /\ o \in Ids(inflight) /\ Ids(inflight) = {o} /\ Ids(inflight') = {} /\ o \in applied
  /\ Ids(pending') = Ids(pending)
                       \cup (Ids(queue) \ (completed \cup {o} \cup Ids(dead)))
  /\ Ids(queue') = {o} \cup Ids(pending')
  /\ owed'.file = "queue" /\ Ids(owed'.rows) = Ids(pending')
  /\ completed' = completed \cup {o} /\ confirmed' = confirmed \cup {o}
  /\ UNCHANGED <<failed, dead, failedIds, accepted, applied, cleared, manager>>

\* The pass is over, or the process died.
Forgotten ==
  /\ pc' = "idle" /\ Ids(pending') = {} /\ Ids(inflight') = {} /\ Ids(dead') = {}
  /\ completed' = {} /\ failedIds' = {}
  /\ UNCHANGED <<queue, record>>
Flush ==
  /\ Settled /\ pc = "refresh" /\ Forgotten
  /\ Ids(failed') = Ids(failed) \cup Ids(dead) /\ UNCHANGED owed
Death ==
  /\ Forgotten /\ owed'.file = "none" /\ Ids(owed'.rows) = {} /\ UNCHANGED failed
  /\ crashes' = crashes + 1

Effect ==
  \/ \E o \in Ops : Arrival(o) \/ CycleGivenUp(o) \/ Parking(o) \/ PutBack(o)
                    \/ Sending(o) \/ Success(o)
  \/ \E R \in SUBSET Ops : Return(R) \/ Clearing(R)
  \/ SecondWrite \/ Quiet \/ Loading \/ QueueWrite \/ Flush \/ Death

\* Rows that leave the failed file, whoever sends them back.
LEMMA ReturnEffect ==
  ASSUME TypeOK, Settled, NEW ids, NEW rows \in Seq(Row), Requeue(rows),
         Ids(rows) = Ids(failed) \cap ids, pc # "cycle", pc' # "cycle",
         pc' = pc \/ pc' \in {"contract", "load"},
         \A o \in Ids(rows) \cap Ids(dead) :
           Undone(o)' \/ \E r \in RowSet(failed) : r.id = o /\ ~r.manual /\ ~r.wait,
         \A o \in Ops : Undone(o) => Undone(o)',
         UNCHANGED <<failed, pending, inflight, dead, completed, failedIds,
                     accepted, applied, confirmed, cleared>>
  PROVE  \E R \in SUBSET Ops : Return(R)
<1> DEFINE R == Ids(rows)
<1>1. queue \in Seq(Row) /\ failed \in Seq(Row)
  BY DEF TypeOK
<1>2. R \in SUBSET Ops /\ R \subseteq Ids(failed)
  BY <1>1, IdsType
<1>3. /\ Ids(queue') = Ids(queue) \cup R
      /\ owed' = [file |-> "failed", rows |-> Drop(failed, R)]
      /\ Ids(Drop(failed, R)) = Ids(failed) \ R
      /\ RowSet(Drop(failed, R)) \subseteq RowSet(failed)
  BY <1>1, RequeueRows
<1>4. owed'.file = "failed" /\ owed'.rows = Drop(failed, R)
  BY <1>3
<1>5. Return(R)
  BY <1>2, <1>3, <1>4 DEF Return
<1> QED BY <1>2, <1>5

LEMMA SweepEffect ==
  ASSUME TypeOK, Settled, RequeueEligible, pc # "cycle", pc' # "cycle",
         pc' = pc \/ pc' \in {"contract", "load"},
         UNCHANGED <<failed, pending, inflight, dead, completed, failedIds, record>>
  PROVE  \E R \in SUBSET Ops : Return(R)
<1> DEFINE kept == Keep(failed, Eligible)
           rows == Swept(kept)
<1>1. kept \in Seq(Row) /\ Ids(kept) = Ids(failed) \cap Eligible
  BY KeepRows DEF TypeOK
<1> HIDE DEF kept
<1>2. rows \in Seq(Row) /\ Ids(rows) = Ids(failed) \cap Eligible
  BY <1>1, SweptRows
<1>3. Requeue(rows)
  BY DEF RequeueEligible, kept
<1> HIDE DEF rows
<1>4. \A o \in Ids(rows) : \E r \in RowSet(failed) : r.id = o /\ ~r.manual /\ ~r.wait
  BY <1>2, RowOfId DEF Eligible
<1>5. \A o \in Ops : Undone(o) => Undone(o)'
  BY DEF Undone, record
<1>6. UNCHANGED <<accepted, applied, confirmed, cleared>>
  BY DEF record
<1> QED BY <1>2, <1>3, <1>4, <1>5, <1>6, ReturnEffect

\* The pass writes the queue from rows that carry its ids.
LEMMA QueueWriteEffect ==
  ASSUME TypeOK, Settled, NEW rows \in Seq(Row), Ids(rows) = Ids(pending),
         pc \in {"loop", "cycle", "end"}, pc' \in {"loop", "end", "refresh"},
         Ids(inflight) = {},
         queue' = Absorb(rows, completed, dead, {}), pending' = queue' \/ pending' = <<>>,
         UNCHANGED <<failed, owed, inflight, dead, completed, failedIds, record>>
  PROVE  QueueWrite
<1>1. Ids(queue') = Ids(rows) \cup (Ids(queue) \ (completed \cup Ids(dead) \cup {}))
  BY AbsorbRows DEF TypeOK
<1>2. Ids(queue') = Ids(pending) \cup (Ids(queue) \ (completed \cup Ids(dead)))
  BY <1>1
<1> QED BY <1>2, NoRows DEF QueueWrite

\* The pass gives up one of its operations, or puts it back.
LEMMA ParkingEffect ==
  ASSUME TypeOK, Settled, pc \in {"loop", "rpc"}, pc' = "loop",
         NEW row \in Row, NEW rest \in Seq(Row), NEW o \in Ops, row.id = o,
         o \in Ids(pending) \cup Ids(inflight),
         Ids(rest) = (Ids(pending) \cup Ids(inflight)) \ {o},
         Ids(inflight') = {}, pc = "loop" => FailedDeps(o) # {},
         failedIds' \in {failedIds, failedIds \cup {o}},
         UNCHANGED <<completed, record>>,
         \/ DeadLetter(row, rest) /\ (row.manual \/ row.wait)
         \/ KeepQueued(row, rest)
  PROVE  Parking(o) \/ PutBack(o)
<1>0. queue \in Seq(Row) /\ failed \in Seq(Row) /\ dead \in Seq(Row)
  BY DEF TypeOK
<1>1. CASE DeadLetter(row, rest) /\ (row.manual \/ row.wait)
  <2>1. /\ Ids(dead') = Ids(dead) \cup {o} /\ Ids(failed') = Ids(failed) \cup {o}
        /\ RowSet(failed') \subseteq {row} \cup {r \in RowSet(failed) : r.id # o}
        /\ queue' = queue /\ owed' = [file |-> "queue", rows |-> pending']
        /\ Ids(pending') = Ids(rest) \cup (Ids(queue) \ (completed \cup Ids(dead')))
    BY <1>0, <1>1, DeadLetterRows
  <2>2. owed'.file = "queue" /\ owed'.rows = pending'
    BY <2>1
  <2>3. HeldAlone(o)
    BY <1>1, <2>1 DEF HeldAlone
  <2>4. Ids(pending') = ((Ids(pending) \cup Ids(inflight)) \ {o})
                          \cup (Ids(queue) \ (completed \cup Ids(dead) \cup {o}))
    BY <2>1
  <2>5. GivenUp = o
    <3>1. dead' = Append(dead, row)
      BY <1>1 DEF DeadLetter
    <3> QED BY <1>0, <3>1 DEF GivenUp
  <2>6. Parking(o)
    BY <2>1, <2>2, <2>3, <2>4, <2>5 DEF Parking
  <2> QED BY <2>6
<1>2. CASE KeepQueued(row, rest)
  <2>1. /\ queue' = pending' /\ UNCHANGED <<failed, owed, dead>>
        /\ Ids(pending') = Ids(rest) \cup {o} \cup (Ids(queue) \ (completed \cup Ids(dead)))
    BY <1>0, <1>2, KeepQueuedRows
  <2>2. Ids(pending') = Ids(pending) \cup Ids(inflight)
                          \cup (Ids(queue) \ (completed \cup Ids(dead)))
    BY <2>1
  <2>3. PutBack(o)
    BY <2>1, <2>2 DEF PutBack
  <2> QED BY <2>3
<1> QED BY <1>1, <1>2

\* At most one operation is in flight.
OneInFlight == \A a, b \in Ids(inflight) : a = b

LEMMA OneInFlightInit == Init => OneInFlight
BY NoRows DEF Init, OneInFlight

LEMMA OneInFlightStep == OneInFlight /\ [Next]_vars => OneInFlight'
<1> SUFFICES ASSUME OneInFlight, [Next]_vars PROVE OneInFlight'
  OBVIOUS
<1>1. ASSUME inflight' = inflight \/ inflight' = <<>> PROVE OneInFlight'
  BY <1>1, NoRows DEF OneInFlight
<1>2. ASSUME NEW o \in Ops, QueueOperation(o) \/ BecomeDue(o) \/ ServerExecute(o)
      PROVE  inflight' = inflight
  BY <1>2 DEF QueueOperation, BecomeDue, ServerExecute, pass
<1>3. CASE RetrySyncItems \/ ClearSyncFailed \/ TimerSweep \/ CompleteWrite
  BY <1>1, <1>3 DEF RetrySyncItems, ClearSyncFailed, TimerSweep, CompleteWrite, pass
<1>4. CASE StartPass \/ RunSyncNow \/ ProbeContract \/ ContractAnswer \/ LoadQueue
  BY <1>1, <1>4 DEF StartPass, RunSyncNow, BeginPass, ProbeContract, ContractAnswer, LoadQueue
<1>5. CASE PauseOffline \/ DetectCycle \/ DeadLetterCycle \/ EndPass
  BY <1>1, <1>5 DEF PauseOffline, DetectCycle, DeadLetterCycle, EndPass
<1>6. ASSUME NEW i \in DOMAIN pending, DeferRow(i) \/ SkipDependent(i)
      PROVE  inflight' = inflight
  BY <1>6 DEF DeferRow, SkipDependent
<1>7. ASSUME NEW i \in DOMAIN pending, Dispatch(i) PROVE OneInFlight'
  <2> DEFINE row == pending[i]
  <2>1. inflight' = <<row>>
    BY <1>7 DEF Dispatch
  <2>2. Ids(<<row>>) = {row.id}
    BY DEF Ids
  <2> QED BY <2>1, <2>2 DEF OneInFlight
<1>8. CASE Succeed \/ (\E verdict \in Verdicts : Fail(verdict)) \/ FinishPass \/ Crash
  BY <1>1, <1>8 DEF Succeed, Fail, FinishPass, Crash, ForgetPass
<1>9. CASE GoOffline \/ GoOnline \/ UNCHANGED vars
  BY <1>1, <1>9 DEF GoOffline, GoOnline, pass, vars
<1> QED BY <1>1, <1>2, <1>3, <1>4, <1>5, <1>6, <1>7, <1>8, <1>9 DEF Next, PassStep

\* Every step has one of these effects.
LEMMA StepEffect ==
  TypeOK /\ ReplayCustody /\ Copies /\ OneInFlight /\ [Next]_vars => Effect
<1> SUFFICES ASSUME TypeOK, ReplayCustody, Copies, OneInFlight, [Next]_vars
             PROVE  Effect
  OBVIOUS
<1>0. /\ queue \in Seq(Row) /\ failed \in Seq(Row) /\ dead \in Seq(Row)
      /\ pending \in Seq(Row) /\ inflight \in Seq(Row) /\ owed.rows \in Seq(Row)
  BY DEF TypeOK
<1>a. /\ DistinctIds(queue) /\ DistinctIds(failed) /\ DistinctIds(inflight)
      /\ DistinctIds(pending) /\ Ids(inflight) \cap Ids(pending) = {}
      /\ (pc # "rpc" => inflight = <<>>)
  BY DEF Copies
<1>b. pc # "rpc" => Ids(inflight) = {}
  BY <1>a, NoRows
<1>c. pc \in {"idle", "contract", "probe", "load"} => dead = <<>>
  BY DEF ReplayCustody
<1>d. ASSUME UNCHANGED <<queue, failed, owed, inflight, dead, completed, failedIds,
                         accepted, confirmed, cleared, manager>>,
             Ids(pending') = Ids(pending), applied \subseteq applied',
             \/ pc' = pc
             \/ pc' \in {"contract", "probe", "load"} /\ pc # "cycle" /\ Settled
             \/ pc = "loop" /\ pc' = "cycle" /\ Settled
      PROVE  Effect
  <2>1. Quiet
    BY <1>d DEF Quiet
  <2> QED BY <2>1 DEF Effect
<1>1. ASSUME NEW o \in Ops, QueueOperation(o) PROVE Effect
  <2> DEFINE new == NewRow(o)
  <2>1. queue' = IF o \in Ids(queue) THEN queue ELSE Append(queue, new)
    BY <1>1 DEF QueueOperation
  <2>2. new \in Row /\ new.id = o
    BY NewRowType
  <2> HIDE DEF new
  <2>3. Ids(queue') = Ids(queue) \cup {o}
    BY <1>0, <2>1, <2>2, AppendRows
  <2>4. Arrival(o)
    BY <1>1, <2>3 DEF Arrival, QueueOperation, Yielded, pass, network
  <2> QED BY <2>4 DEF Effect
<1>2. CASE RetrySyncItems
  <2>1. PICK ids \in SUBSET Ids(failed), elapsed \in BOOLEAN :
          /\ Requeue(Retried(Keep(failed, ids), elapsed))
          /\ manager' = [o \in Ops |->
               IF o \notin ids THEN manager[o]
               ELSE IF o \in Ids(dead) THEN "undone"
               ELSE IF manager[o] = "none" THEN "retried" ELSE manager[o]]
    BY <1>2 DEF RetrySyncItems
  <2> DEFINE kept == Keep(failed, ids)
             rows == Retried(kept, elapsed)
  <2>2. kept \in Seq(Row) /\ Ids(kept) = Ids(failed) \cap ids
    BY <1>0, KeepRows
  <2> HIDE DEF kept
  <2>3. rows \in Seq(Row) /\ Ids(rows) = Ids(failed) \cap ids
    BY <2>2, RetriedRows
  <2>4. Requeue(rows)
    BY <2>1 DEF kept
  <2> HIDE DEF rows
  <2>5. \A o \in Ids(rows) \cap Ids(dead) : Undone(o)'
    BY <1>0, <2>1, <2>3, IdsType DEF Undone
  <2>6. \A o \in Ops : Undone(o) => Undone(o)'
    BY <2>1 DEF Undone
  <2>7. /\ Settled /\ pc' = pc /\ pc # "cycle"
        /\ UNCHANGED <<failed, pending, inflight, dead, completed, failedIds,
                       accepted, applied, confirmed, cleared>>
    BY <1>2 DEF RetrySyncItems, Yielded, pass, network
  <2>8. \E R \in SUBSET Ops : Return(R)
    BY <2>3, <2>4, <2>5, <2>6, <2>7, ReturnEffect
  <2> QED BY <2>8 DEF Effect
<1>3. CASE ClearSyncFailed
  <2>1. PICK ids \in SUBSET Ids(failed) :
          failed' = Drop(failed, ids) /\ cleared' = cleared \cup ids
    BY <1>3 DEF ClearSyncFailed
  <2>2. Ids(failed') = Ids(failed) \ ids /\ RowSet(failed') \subseteq RowSet(failed)
    BY <1>0, <2>1, DropRows
  <2>3. ids \in SUBSET Ops
    BY <1>0, IdsType
  <2>4. Clearing(ids)
    BY <1>3, <2>1, <2>2 DEF Clearing, ClearSyncFailed, Yielded, pass, network
  <2> QED BY <2>3, <2>4 DEF Effect
<1>4. CASE TimerSweep
  <2>1. /\ Settled /\ RequeueEligible /\ pc' = pc /\ pc # "cycle"
        /\ UNCHANGED <<failed, pending, inflight, dead, completed, failedIds, record>>
    BY <1>4 DEF TimerSweep, Yielded, pass, network, history, record
  <2> QED BY <2>1, SweepEffect DEF Effect
<1>5. CASE CompleteWrite
  <2>1. owed'.file = "none" /\ Ids(owed'.rows) = {}
    <3>1. owed'.file = "none" /\ owed'.rows = <<>>
      BY <1>5 DEF CompleteWrite, NoWrite
    <3> QED BY <3>1, NoRows
  <2>2. \/ owed.file = "queue" /\ queue' = owed.rows /\ failed' = failed
        \/ owed.file = "failed" /\ failed' = owed.rows /\ queue' = queue
    BY <1>5 DEF CompleteWrite, Settled, TypeOK
  <2>3. SecondWrite
    BY <1>5, <2>1, <2>2 DEF CompleteWrite, SecondWrite, pass, network, history, record
  <2> QED BY <2>3 DEF Effect
<1>6. ASSUME NEW o \in Ops, BecomeDue(o) PROVE Effect
  <2>1. /\ Settled /\ pc' = pc
        /\ UNCHANGED <<owed, pending, inflight, dead, completed, failedIds, record>>
    BY <1>6 DEF BecomeDue, Yielded, pass, network, history, record
  <2>2. CASE failed' = failed
             /\ \E i \in DOMAIN queue : queue' = [queue EXCEPT ![i].wait = FALSE]
    <3>1. Ids(queue') = Ids(queue)
      BY <1>0, <2>2, DueRows
    <3>2. Quiet
      BY <2>1, <2>2, <3>1 DEF Quiet, record
    <3> QED BY <3>2 DEF Effect
  <2>3. CASE /\ queue' = queue /\ o \notin Ids(dead)
             /\ \E i \in DOMAIN failed :
                  failed[i].id = o /\ failed' = [failed EXCEPT ![i].wait = FALSE]
    <3>1. PICK i \in DOMAIN failed :
            failed[i].id = o /\ failed' = [failed EXCEPT ![i].wait = FALSE]
      BY <2>3
    <3>2. Ids(failed') = Ids(failed)
      BY <1>0, <3>1, DueRows
    <3>3. \A r \in RowSet(failed') : r.id \in Ids(dead) => r \in RowSet(failed)
      BY <1>0, <2>3, <3>1, OtherRows
    <3>4. Quiet
      BY <2>1, <2>3, <3>2, <3>3 DEF Quiet, record
    <3> QED BY <3>4 DEF Effect
  <2> QED BY <1>6, <2>2, <2>3 DEF BecomeDue
<1>7. CASE StartPass \/ RunSyncNow
  <2>1. /\ Settled /\ pc = "idle" /\ pc' = "contract"
        /\ UNCHANGED <<queue, owed>> \/ RequeueEligible
        /\ UNCHANGED <<failed, pending, inflight, dead, completed, failedIds, record>>
    BY <1>7 DEF StartPass, RunSyncNow, BeginPass, At, network, history, record
  <2>2. RequeueEligible => Effect
    BY <2>1, SweepEffect DEF Effect
  <2> QED BY <1>d, <2>1, <2>2 DEF record
<1>8. CASE ProbeContract
  BY <1>8, <1>d DEF ProbeContract, At, disk, network, history
<1>9. CASE ContractAnswer
  <2> DEFINE back == Parked \cap stale
             kept == Keep(failed, back)
             rows == Unparked(kept)
  <2>1. /\ Settled /\ pc = "probe" /\ pc' = "load"
        /\ UNCHANGED <<queue, owed>> \/ Requeue(rows)
        /\ UNCHANGED <<failed, pending, inflight, dead, completed, failedIds, record>>
    BY <1>9 DEF ContractAnswer, At, network, history, record
  <2> HIDE DEF back
  <2>2. kept \in Seq(Row) /\ Ids(kept) = Ids(failed) \cap back
    BY <1>0, KeepRows
  <2> HIDE DEF kept
  <2>3. rows \in Seq(Row) /\ Ids(rows) = Ids(failed) \cap back
    BY <2>2, UnparkedRows
  <2> HIDE DEF rows
  <2>4. Ids(dead) = {}
    BY <1>c, <2>1, NoRows
  <2>5. \A o \in Ops : Undone(o) => Undone(o)'
    BY <2>1 DEF Undone, record
  <2>6. Requeue(rows) => \E R \in SUBSET Ops : Return(R)
    BY <2>1, <2>3, <2>4, <2>5, ReturnEffect DEF record
  <2>7. UNCHANGED <<queue, owed>> => Effect
    BY <1>d, <2>1 DEF record
  <2> QED BY <2>1, <2>6, <2>7 DEF Effect
<1>10. CASE LoadQueue
  <2>1. /\ Settled /\ pc = "load" /\ pending' = Normalized
        /\ queue' = queue \/ queue' = Normalized
        /\ pc' = IF queue = <<>> THEN "idle" ELSE "loop"
        /\ failedIds' = IF queue = <<>> THEN {} ELSE Ids(failed)
        /\ UNCHANGED <<failed, owed, inflight, dead, completed, record>>
    BY <1>10 DEF LoadQueue, At, Seeded, network, history, record
  <2>2. Ids(Normalized) \subseteq Ids(queue)
    BY <1>0, NormalizedRows
  <2>3. Ids(queue) \ Ids(Normalized) \subseteq confirmed
    <3>1. \A r \in RowSet(queue) : r.id \in Ids(Normalized) \/ r.id \in confirmed
      BY <1>0, NormalizedRows DEF ReplayCustody, CommittedRowsConfirmed
    <3> QED BY <3>1, IdsMember
  <2>4. dead = <<>> /\ inflight = <<>>
    BY <1>a, <1>c, <2>1
  <2>5. queue = <<>> => Ids(pending') = {}
    BY <2>1, <2>2, NoRows
  <2>6. Loading
    BY <2>1, <2>2, <2>3, <2>4, <2>5 DEF Loading
  <2> QED BY <2>6 DEF Effect
<1>11. CASE PauseOffline
  <2>1. QueueWrite
    BY <1>0, <1>b, <1>11, QueueWriteEffect DEF PauseOffline, At, network, history, record
  <2> QED BY <2>1 DEF Effect
<1>12. CASE DetectCycle
  BY <1>12, <1>d DEF DetectCycle, At, disk, network, history
<1>13. CASE EndPass
  <2>1. QueueWrite
    BY <1>0, <1>b, <1>13, QueueWriteEffect DEF EndPass, At, network, history, record
  <2> QED BY <2>1 DEF Effect
<1>14. CASE DeadLetterCycle
  <2>1. CASE pending = <<>>
    <3> DEFINE none == <<>>
    <3>1. none \in Seq(Row) /\ Ids(none) = Ids(pending)
      BY <2>1
    <3>2. /\ Settled /\ queue' = Absorb(none, completed, dead, {}) /\ pending' = queue'
          /\ pc = "cycle" /\ pc' = "end"
          /\ UNCHANGED <<failed, owed, inflight, dead, completed, failedIds, record>>
      BY <1>14, <2>1 DEF DeadLetterCycle, At, network, history, record
    <3> HIDE DEF none
    <3>3. QueueWrite
      BY <1>b, <3>1, <3>2, QueueWriteEffect
    <3> QED BY <3>3 DEF Effect
  <2>2. CASE pending # <<>>
    <3> DEFINE head == Head(pending)
               rest == Tail(pending)
               row == [head EXCEPT !.st = "pending", !.retry = MaxRetries, !.manual = TRUE]
               one == <<row>>
    <3>1. /\ head \in Row /\ head.id \in Ids(pending)
          /\ Ids(rest) = Ids(pending) \ {head.id}
      BY <1>0, <1>a, <2>2, HeadTailRows, HeadTailDistinct
    <3>2. /\ Settled /\ pc = "cycle" /\ pc' = pc
          /\ dead' = Append(dead, row) /\ failed' = MergeRows(failed, one)
          /\ failedIds' = failedIds \cup {row.id}
          /\ pending' = rest /\ UNCHANGED <<queue, owed, inflight, completed, record>>
      BY <1>14, <2>2 DEF DeadLetterCycle, At, network, history, record
    <3> HIDE DEF head, rest
    <3>3. row \in Row /\ row.id = head.id /\ row.manual
      <4>1. MaxRetries \in Nat
        BY RetriesAssumption
      <4> QED BY <3>1, <4>1 DEF Row
    <3> HIDE DEF row
    <3>4. one \in Seq(Row) /\ RowSet(one) = {row} /\ Ids(one) = {head.id}
      BY <3>3, OneRow
    <3> HIDE DEF one
    <3>5. /\ Ids(failed') = Ids(failed) \cup {head.id}
          /\ RowSet(failed') \subseteq {row} \cup {r \in RowSet(failed) : r.id # head.id}
      BY <1>0, <3>2, <3>4, MergeRowsRows
    <3>6. Ids(dead') = Ids(dead) \cup {head.id}
      BY <1>0, <3>2, <3>3, AppendRows
    <3>7. HeldAlone(head.id)
      BY <3>3, <3>5 DEF HeldAlone
    <3>8. CycleGivenUp(head.id) /\ head.id \in Ops
      BY <3>1, <3>2, <3>3, <3>5, <3>6, <3>7 DEF CycleGivenUp, Row
    <3> QED BY <3>8 DEF Effect
  <2> QED BY <2>1, <2>2
<1>e. ASSUME NEW i \in DOMAIN pending
      PROVE  /\ pending[i] \in Row /\ pending[i].id \in Ids(pending) /\ pending[i].id \in Ops
             /\ RemoveIndex(pending, i) \in Seq(Row)
             /\ Ids(RemoveIndex(pending, i)) = Ids(pending) \ {pending[i].id}
  <2>1. pending[i] \in Row /\ pending[i].id \in Ids(pending)
    BY <1>0 DEF Ids
  <2>2. /\ RemoveIndex(pending, i) \in Seq(Row)
        /\ Ids(RemoveIndex(pending, i)) = Ids(pending) \ {pending[i].id}
    BY <1>0, <1>a, RemoveIndexRows, RemoveIndexDistinct
  <2> QED BY <2>1, <2>2 DEF Row
<1>15. ASSUME NEW i \in DOMAIN pending, DeferRow(i) PROVE Effect
  <2> DEFINE row == pending[i]
             rest == RemoveIndex(pending, i)
             rotated == Append(rest, row)
  <2>1. /\ Settled /\ pc = "loop"
        /\ UNCHANGED <<failed, owed, inflight, dead, completed, failedIds, record>>
        /\ \/ queue' = Absorb(rotated, completed, dead, {}) /\ pending' = queue' /\ pc' = "end"
           \/ pending' = rotated /\ queue' = queue /\ pc' = pc
    BY <1>15 DEF DeferRow, LoopTop, At, network, history, record
  <2>2. /\ row \in Row /\ rest \in Seq(Row)
        /\ row.id \in Ids(pending) /\ Ids(rest) = Ids(pending) \ {row.id}
    BY <1>e
  <2> HIDE DEF row, rest
  <2>3. rotated \in Seq(Row) /\ Ids(rotated) = Ids(pending)
    BY <2>2, AppendRows
  <2> HIDE DEF rotated
  <2>4. CASE queue' = Absorb(rotated, completed, dead, {}) /\ pending' = queue' /\ pc' = "end"
    <3>1. QueueWrite
      BY <1>b, <2>1, <2>3, <2>4, QueueWriteEffect
    <3> QED BY <3>1 DEF Effect
  <2>5. CASE pending' = rotated /\ queue' = queue /\ pc' = pc
    BY <1>d, <2>1, <2>3, <2>5 DEF record
  <2> QED BY <2>1, <2>4, <2>5
<1>16. ASSUME NEW i \in DOMAIN pending, SkipDependent(i) PROVE Effect
  <2> DEFINE row == pending[i]
             rest == RemoveIndex(pending, i)
             given == [row EXCEPT !.st = "pending", !.retry = MaxRetries, !.manual = TRUE]
             kept == Skipped(row)
  <2>1. /\ DeadLetter(given, rest) \/ DeadLetter(kept, rest) \/ KeepQueued(kept, rest)
        /\ FailedDeps(row.id) # {}
    BY <1>16 DEF SkipDependent
  <2>2. /\ Settled /\ pc = "loop" /\ pc' = "loop" /\ Ids(inflight') = {} /\ Ids(inflight) = {}
        /\ UNCHANGED <<completed, failedIds, record>>
    BY <1>16, <1>b DEF SkipDependent, LoopTop, At, network, history, record
  <2>3. /\ row \in Row /\ rest \in Seq(Row) /\ row.id \in Ids(pending) /\ row.id \in Ops
        /\ Ids(rest) = Ids(pending) \ {row.id}
    BY <1>e
  <2> HIDE DEF row, rest
  <2>4. MaxRetries \in Nat
    BY RetriesAssumption
  <2>5. /\ given \in Row /\ given.id = row.id /\ given.manual
        /\ kept \in Row /\ kept.id = row.id /\ kept.wait
    BY <2>3, <2>4 DEF Row, Skipped
  <2> HIDE DEF given, kept
  <2>6. Ids(rest) = (Ids(pending) \cup Ids(inflight)) \ {row.id}
    BY <2>2, <2>3
  <2>7. Parking(row.id) \/ PutBack(row.id)
    <3>1. CASE DeadLetter(given, rest)
      BY <2>1, <2>2, <2>3, <2>5, <2>6, <3>1, ParkingEffect
    <3>2. CASE DeadLetter(kept, rest) \/ KeepQueued(kept, rest)
      BY <2>1, <2>2, <2>3, <2>5, <2>6, <3>2, ParkingEffect
    <3> QED BY <2>1, <3>1, <3>2
  <2> QED BY <2>3, <2>7 DEF Effect
<1>17. ASSUME NEW i \in DOMAIN pending, Dispatch(i) PROVE Effect
  <2> DEFINE row == pending[i]
             rest == RemoveIndex(pending, i)
             sent == [row EXCEPT !.st = "in_flight"]
             one == <<sent>>
             all == Absorb(rest, completed, dead, {row.id})
             held == <<row>>
  <2>1. /\ Settled /\ pc = "loop" /\ pc' = "rpc" /\ Ids(inflight) = {}
        /\ pending' = all /\ inflight' = held /\ queue' = one \o all
        /\ FailedDeps(row.id) = {} /\ Ready(i)
        /\ UNCHANGED <<failed, owed, dead, completed, failedIds, record>>
    BY <1>17, <1>b DEF Dispatch, LoopTop, Picked, At, record
  <2>2. \A d \in Deps[row.id] : d \in failedIds \cup completed \/ d \notin Ids(pending)
    BY <2>1 DEF Ready
  <2>3. /\ row \in Row /\ rest \in Seq(Row) /\ row.id \in Ids(pending) /\ row.id \in Ops
        /\ Ids(rest) = Ids(pending) \ {row.id}
    BY <1>e
  <2> HIDE DEF row, rest
  <2>4. sent \in Row /\ sent.id = row.id
    BY <2>3 DEF Row
  <2> HIDE DEF sent
  <2>5. one \in Seq(Row) /\ Ids(one) = {row.id} /\ Ids(held) = {row.id} /\ Head(held) = row
    BY <2>3, <2>4, OneRow
  <2>6. /\ all \in Seq(Row)
        /\ Ids(all) = Ids(rest) \cup (Ids(queue) \ (completed \cup Ids(dead) \cup {row.id}))
    BY <1>0, <2>3, AbsorbRows
  <2> HIDE DEF one, all, held
  <2>7. Ids(one \o all) = {row.id} \cup Ids(all)
    BY <2>5, <2>6, ConcatRows
  <2>8. Sending(row.id)
    BY <2>1, <2>2, <2>3, <2>5, <2>6, <2>7 DEF Sending, Sent
  <2> QED BY <2>3, <2>8 DEF Effect
<1>18. ASSUME NEW o \in Ops, ServerExecute(o) PROVE Effect
  BY <1>18, <1>d DEF ServerExecute, disk, pass, history
<1>f. ASSUME pc = "rpc"
      PROVE  /\ Head(inflight) \in Row /\ Head(inflight).id \in Ids(inflight)
             /\ Head(inflight).id \in Ops
  <2>1. inflight # <<>>
    BY <1>f DEF TypeOK
  <2>2. Head(inflight) \in Row /\ Head(inflight).id \in Ids(inflight)
    BY <1>0, <2>1, HeadTailRows
  <2> QED BY <2>2 DEF Row
<1>19. CASE Succeed
  <2> DEFINE row == Head(inflight)
             mark == [row EXCEPT !.st = "committed"]
             one == <<mark>>
             done == completed \cup {row.id}
             rel == Release(pending, row.id)
             all == Absorb(rel, done, dead, {})
  <2>1. /\ Settled /\ pc = "rpc" /\ pc' = "loop" /\ row.id \in applied
        /\ inflight' = <<>> /\ pending' = all /\ queue' = one \o all
        /\ owed' = [file |-> "queue", rows |-> all]
        /\ completed' = completed \cup {row.id} /\ confirmed' = confirmed \cup {row.id}
        /\ UNCHANGED <<failed, dead, failedIds, accepted, applied, cleared, manager>>
    BY <1>19 DEF Succeed, OweQueue, At, network
  <2>2. row \in Row /\ row.id \in Ids(inflight) /\ row.id \in Ops
    BY <1>f, <2>1
  <2> HIDE DEF row
  <2>3. mark \in Row /\ mark.id = row.id
    BY <2>2 DEF Row
  <2> HIDE DEF mark
  <2>4. /\ rel \in Seq(Row) /\ Ids(rel) = Ids(pending)
        /\ one \in Seq(Row) /\ Ids(one) = {row.id}
    BY <1>0, <2>3, ReleaseRows, OneRow
  <2> HIDE DEF rel, one
  <2>5. /\ all \in Seq(Row)
        /\ Ids(all) = Ids(rel) \cup (Ids(queue) \ (done \cup Ids(dead) \cup {}))
    BY <1>0, <2>4, AbsorbRows
  <2> HIDE DEF all
  <2>6. Ids(one \o all) = {row.id} \cup Ids(all)
    BY <2>4, <2>5, ConcatRows
  <2>7. owed'.file = "queue" /\ owed'.rows = all
    BY <2>1
  <2>8. Ids(inflight) = {row.id} /\ Ids(inflight') = {}
    BY <2>1, <2>2, NoRows DEF OneInFlight
  <2>9. Success(row.id)
    BY <2>1, <2>2, <2>4, <2>5, <2>6, <2>7, <2>8 DEF Success
  <2> QED BY <2>2, <2>9 DEF Effect
<1>20. ASSUME NEW verdict \in Verdicts, Fail(verdict) PROVE Effect
  <2> DEFINE row == Head(inflight)
             next == Failure(row, verdict)
  <2>1. /\ DeadLetter(next, pending) \/ KeepQueued(next, pending)
        /\ Settled /\ pc = "rpc" /\ pc' = "loop" /\ inflight' = <<>>
        /\ failedIds' = failedIds \cup {row.id}
        /\ UNCHANGED <<completed, applied, accepted, confirmed, cleared, manager>>
    BY <1>20 DEF Fail, At, history
  <2>2. row \in Row /\ row.id \in Ids(inflight) /\ row.id \in Ops
    BY <1>f, <2>1
  <2> HIDE DEF row
  <2>3. next \in Row /\ next.id = row.id /\ (next.manual \/ next.wait)
    BY <2>2, FailureRow
  <2> HIDE DEF next
  <2>4. Ids(inflight) = {row.id} /\ Ids(inflight') = {}
    BY <2>1, <2>2, NoRows DEF OneInFlight
  <2>5. Ids(pending) = (Ids(pending) \cup Ids(inflight)) \ {row.id}
    BY <1>a, <2>4
  <2>6. UNCHANGED <<completed, record>>
    BY <2>1 DEF record
  <2>7. Parking(row.id) \/ PutBack(row.id)
    BY <1>0, <2>1, <2>2, <2>3, <2>4, <2>5, <2>6, ParkingEffect
  <2> QED BY <2>2, <2>7 DEF Effect
<1>21. CASE FinishPass
  <2>1. /\ Settled /\ pc = "refresh" /\ pc' = "idle" /\ failed' = MergeRows(failed, dead)
        /\ pending' = <<>> /\ inflight' = <<>> /\ dead' = <<>>
        /\ completed' = {} /\ failedIds' = {}
        /\ UNCHANGED <<queue, owed, record>>
    BY <1>21 DEF FinishPass, ForgetPass, At, network, history, record
  <2>2. Ids(failed') = Ids(failed) \cup Ids(dead)
    BY <1>0, <2>1, MergeRowsRows
  <2>3. Flush
    BY <2>1, <2>2, NoRows DEF Flush, Forgotten
  <2> QED BY <2>3 DEF Effect
<1>22. CASE GoOffline \/ GoOnline
  BY <1>22, <1>d DEF GoOffline, GoOnline, disk, pass, history
<1>23. CASE Crash
  <2>1. /\ owed'.file = "none" /\ owed'.rows = <<>> /\ crashes' = crashes + 1
        /\ pc' = "idle" /\ pending' = <<>> /\ inflight' = <<>> /\ dead' = <<>>
        /\ completed' = {} /\ failedIds' = {}
        /\ UNCHANGED <<queue, failed, record>>
    BY <1>23 DEF Crash, ForgetPass, NoWrite, history, record
  <2>2. Death
    BY <2>1, NoRows DEF Death, Forgotten
  <2> QED BY <2>2 DEF Effect
<1>24. CASE UNCHANGED vars
  BY <1>24, <1>d DEF vars, disk, pass, network, history
<1> QED
  BY <1>1, <1>2, <1>3, <1>4, <1>5, <1>6, <1>7, <1>8, <1>9, <1>10, <1>11, <1>12,
     <1>13, <1>14, <1>15, <1>16, <1>17, <1>18, <1>19, <1>20, <1>21, <1>22, <1>23,
     <1>24 DEF Next, PassStep

-----------------------------------------------------------------------------
(* Parents before children *)

\* Every id the engine works on was queued by a caller, and what was
\* confirmed is on the server.
KnownRows ==
  /\ Ids(queue) \cup Ids(failed) \cup Ids(owed.rows) \subseteq accepted
  /\ Ids(pending) \cup Ids(inflight) \cup Ids(dead) \subseteq accepted
  /\ confirmed \subseteq applied \cap accepted

LEMMA KnownInit == Init => KnownRows
BY NoRows DEF Init, KnownRows, NoWrite

\* What is in custody of the engine was queued by a caller.
LEMMA KnownStep == TypeOK /\ KnownRows /\ Effect => KnownRows'
<1> SUFFICES ASSUME TypeOK, KnownRows, Effect PROVE KnownRows'
  OBVIOUS
<1>a. /\ Ids(queue) \subseteq accepted /\ Ids(failed) \subseteq accepted
      /\ Ids(owed.rows) \subseteq accepted /\ Ids(pending) \subseteq accepted
      /\ Ids(inflight) \subseteq accepted /\ Ids(dead) \subseteq accepted
      /\ confirmed \subseteq applied /\ confirmed \subseteq accepted
  BY DEF KnownRows
<1>1. ASSUME NEW o \in Ops, Arrival(o) PROVE KnownRows'
  BY <1>1, <1>a DEF Arrival, KnownRows
<1>2. ASSUME NEW o \in Ops, CycleGivenUp(o) PROVE KnownRows'
  BY <1>2, <1>a DEF CycleGivenUp, KnownRows, record
<1>3. ASSUME NEW o \in Ops, Parking(o) PROVE KnownRows'
  BY <1>3, <1>a DEF Parking, KnownRows, record
<1>4. ASSUME NEW o \in Ops, PutBack(o) PROVE KnownRows'
  BY <1>4, <1>a DEF PutBack, KnownRows, record
<1>5. ASSUME NEW o \in Ops, Sending(o) PROVE KnownRows'
  BY <1>5, <1>a DEF Sending, KnownRows, record
<1>6. ASSUME NEW o \in Ops, Success(o) PROVE KnownRows'
  BY <1>6, <1>a DEF Success, KnownRows
<1>7. ASSUME NEW R \in SUBSET Ops, Return(R) PROVE KnownRows'
  BY <1>7, <1>a DEF Return, KnownRows
<1>8. ASSUME NEW R \in SUBSET Ops, Clearing(R) PROVE KnownRows'
  BY <1>8, <1>a DEF Clearing, KnownRows
<1>9. CASE SecondWrite
  BY <1>9, <1>a DEF SecondWrite, KnownRows, record
<1>10. CASE Quiet
  BY <1>10, <1>a DEF Quiet, KnownRows
<1>11. CASE Loading
  BY <1>11, <1>a DEF Loading, KnownRows, record
<1>12. CASE QueueWrite
  BY <1>12, <1>a DEF QueueWrite, KnownRows, record
<1>13. CASE Flush
  BY <1>13, <1>a DEF Flush, Forgotten, KnownRows, record
<1>14. CASE Death
  BY <1>14, <1>a DEF Death, Forgotten, KnownRows, record
<1> QED BY <1>1, <1>2, <1>3, <1>4, <1>5, <1>6, <1>7, <1>8, <1>9, <1>10, <1>11,
           <1>12, <1>13, <1>14 DEF Effect

\* The rows a pass works on, and where it is when it does.
Draining == {"loop", "cycle", "rpc", "end", "refresh"}
Mine == Ids(pending) \cup Ids(inflight)

\* d is where a dependent of it in the pass can find it.
Found(d) ==
  \/ d \in Mine \cup failedIds \cup Ids(dead)
  \/ d \in applied \cup cleared \/ Undone(d)

LEMMA ParentsInit == Init => ParentsAccounted
BY NoRows DEF Init, ParentsAccounted, NoWrite

\* A parent of an operation in the queue file is in custody somewhere: the
\* pass that takes the operation over finds it.
LEMMA ParentOfArrival ==
  ASSUME TypeOK, ReplayCustody, KnownRows, ParentsAccounted,
         NEW o \in Ids(queue), NEW d \in Deps[o]
  PROVE  d \in Ids(queue) \cup Ids(failed) \cup applied \cup cleared \/ Undone(d)
<1>1. o \in accepted /\ d \in accepted
  BY DEF KnownRows, ParentsAccounted
<1> QED BY <1>1 DEF ReplayCustody, CustodyAcrossWrites, Custody, KnownRows

LEMMA ParentsStep ==
  ASSUME ParentsFirst
  PROVE  TypeOK /\ ReplayCustody /\ KnownRows /\ ParentsAccounted /\ Effect
           => ParentsAccounted'
<1> SUFFICES ASSUME TypeOK, ReplayCustody, KnownRows, ParentsAccounted, Effect
             PROVE  ParentsAccounted'
  OBVIOUS
<1>a. /\ \A o \in accepted : Deps[o] \subseteq accepted
      /\ pc \in Draining =>
           /\ Ids(failed) \subseteq failedIds \cup Ids(dead)
           /\ owed.file = "failed" => Ids(owed.rows) \subseteq failedIds \cup Ids(dead)
      /\ \A o \in Mine : \A d \in Deps[o] : Found(d)
  BY DEF ParentsAccounted, Draining, Mine, Found
<1>b. ASSUME \A o \in accepted' : Deps[o] \subseteq accepted',
             pc' \in Draining =>
               /\ Ids(failed') \subseteq failedIds' \cup Ids(dead')
               /\ owed'.file = "failed" => Ids(owed'.rows) \subseteq failedIds' \cup Ids(dead'),
             \A o \in Mine' : \A d \in Deps[o] : Found(d)'
      PROVE  ParentsAccounted'
  BY <1>b DEF ParentsAccounted, Draining, Mine, Found
\* The pass keeps its rows, but for those that are settled or dead, and what
\* it adds to them is in the queue file, with its parents.
<1>c. ASSUME accepted' = accepted, pc \in Draining, NEW gone \in SUBSET Ops,
             Mine' \subseteq Mine \cup Ids(queue),
             Mine \cup (Ids(queue) \ (completed \cup Ids(dead))) \subseteq Mine' \cup gone,
             gone \subseteq Ids(dead') \cup applied',
             Ids(dead) \subseteq Ids(dead'), failedIds \subseteq failedIds',
             UNCHANGED <<applied, cleared, manager>>
      PROVE  \A o \in Mine' : \A d \in Deps[o] : Found(d)'
  <2>1. completed \subseteq applied
    BY DEF ReplayCustody, KnownRows
  <2>2. \A d : Found(d) => Found(d)'
    BY <1>c DEF Found, Undone
  <2>3. \A d : d \in Ids(queue) \cup Ids(failed) \cup applied \cup cleared \/ Undone(d)
                 => Found(d)'
    BY <1>a, <1>c, <2>1 DEF Found, Undone
  <2> QED BY <1>a, <1>c, <2>2, <2>3, ParentOfArrival
<1>f. ASSUME accepted' = accepted, pc \in Draining,
             Mine' \subseteq Mine \cup Ids(queue),
             Mine \cup (Ids(queue) \ (completed \cup Ids(dead))) \subseteq Mine',
             Ids(dead') = Ids(dead), failedIds \subseteq failedIds',
             UNCHANGED <<applied, cleared, manager>>
      PROVE  \A o \in Mine' : \A d \in Deps[o] : Found(d)'
  <2> DEFINE gone == {}
  <2>1. gone \in SUBSET Ops /\ gone \subseteq Ids(dead') \cup applied'
        /\ Mine \cup (Ids(queue) \ (completed \cup Ids(dead))) \subseteq Mine' \cup gone
    BY <1>f
  <2> HIDE DEF gone
  <2> QED BY <1>c, <1>f, <2>1
\* The pass keeps its rows, and nothing it relies on is taken away.
<1>d. ASSUME Mine' = Mine, Ids(dead') = Ids(dead), failedIds' = failedIds,
             applied \subseteq applied', cleared \subseteq cleared',
             \A o \in Ops : Undone(o) => Undone(o)'
      PROVE  \A o \in Mine' : \A d \in Deps[o] : Found(d)'
  <2>1. \A o \in Mine : Deps[o] \subseteq Ops
    <3>1. Mine \in SUBSET Ops
      BY IdsType DEF Mine, TypeOK
    <3> QED BY <3>1, DepsAssumption
  <2> QED BY <1>a, <1>d, <2>1 DEF Found
<1>e. \A o \in Ops : manager' = manager => (Undone(o) => Undone(o)')
  BY DEF Undone
<1>1. ASSUME NEW o \in Ops, Arrival(o) PROVE ParentsAccounted'
  <2>1. \A q \in accepted' : Deps[q] \subseteq accepted'
    BY <1>1, <1>a DEF Arrival
  <2>2. \A q \in Mine' : \A d \in Deps[q] : Found(d)'
    BY <1>1, <1>d, <1>e DEF Arrival, Mine
  <2> QED BY <1>1, <1>a, <1>b, <2>1, <2>2 DEF Arrival
<1>2. ASSUME NEW o \in Ops, CycleGivenUp(o) PROVE ParentsAccounted'
  <2>1. pc \in Draining
    BY <1>2 DEF CycleGivenUp, Draining
  <2>2. \A q \in Mine' : \A d \in Deps[q] : Found(d)'
    <3>1. \A d : Found(d) => Found(d)'
      BY <1>2 DEF CycleGivenUp, Found, Mine, Undone, record
    <3>2. Mine' \subseteq Mine
      BY <1>2 DEF CycleGivenUp, Mine
    <3> QED BY <1>a, <3>1, <3>2
  <2> QED BY <1>2, <1>a, <1>b, <2>1, <2>2 DEF CycleGivenUp, record, Settled
<1>3. ASSUME NEW o \in Ops, Parking(o) PROVE ParentsAccounted'
  <2>1. pc \in Draining
    BY <1>3 DEF Parking, Draining
  <2> DEFINE gone == {o}
  <2>2. /\ Mine' = (Mine \ gone) \cup (Ids(queue) \ (completed \cup Ids(dead) \cup gone))
        /\ gone \subseteq Ids(dead') /\ Ids(dead) \subseteq Ids(dead')
        /\ failedIds \subseteq failedIds'
    BY <1>3 DEF Parking, Mine
  <2>3. UNCHANGED <<accepted, applied, cleared, manager>> /\ gone \in SUBSET Ops
    BY <1>3 DEF Parking, record
  <2> HIDE DEF gone
  <2>4. \A q \in Mine' : \A d \in Deps[q] : Found(d)'
    BY <1>c, <2>1, <2>2, <2>3
  <2> QED BY <1>3, <1>a, <1>b, <2>1, <2>2, <2>3, <2>4 DEF Parking, gone
<1>4. ASSUME NEW o \in Ops, PutBack(o) PROVE ParentsAccounted'
  <2>1. pc \in Draining /\ failedIds \subseteq failedIds'
    BY <1>4 DEF PutBack, Draining
  <2>2. /\ Mine' = Mine \cup (Ids(queue) \ (completed \cup Ids(dead)))
        /\ UNCHANGED <<dead, failed, owed, accepted, applied, cleared, manager>>
    BY <1>4 DEF PutBack, Mine, record
  <2>3. \A q \in Mine' : \A d \in Deps[q] : Found(d)'
    BY <1>f, <2>1, <2>2
  <2> QED BY <1>a, <1>b, <2>1, <2>2, <2>3
<1>5. ASSUME NEW o \in Ops, Sending(o) PROVE ParentsAccounted'
  <2>1. pc \in Draining
    BY <1>5 DEF Sending, Draining
  <2>2. /\ Mine' = Mine \cup (Ids(queue) \ (completed \cup Ids(dead) \cup {o}))
        /\ o \in Mine
        /\ UNCHANGED <<dead, failed, owed, failedIds, accepted, applied, cleared, manager>>
    BY <1>5 DEF Sending, Mine, record
  <2>3. \A q \in Mine' : \A d \in Deps[q] : Found(d)'
    BY <1>f, <2>1, <2>2
  <2> QED BY <1>a, <1>b, <2>1, <2>2, <2>3
<1>6. ASSUME NEW o \in Ops, Success(o) PROVE ParentsAccounted'
  <2>1. pc \in Draining
    BY <1>6 DEF Success, Draining
  <2> DEFINE gone == {o}
  <2>2. /\ Mine' \subseteq Mine \cup Ids(queue)
        /\ Mine \cup (Ids(queue) \ (completed \cup Ids(dead))) \subseteq Mine' \cup gone
        /\ gone \subseteq applied' /\ gone \in SUBSET Ops
    BY <1>6 DEF Success, Mine
  <2>3. UNCHANGED <<dead, failed, failedIds, accepted, applied, cleared, manager>>
        /\ owed'.file = "queue"
    BY <1>6 DEF Success
  <2> HIDE DEF gone
  <2>4. \A q \in Mine' : \A d \in Deps[q] : Found(d)'
    BY <1>c, <2>1, <2>2, <2>3
  <2> QED BY <1>a, <1>b, <2>1, <2>3, <2>4
<1>7. ASSUME NEW R \in SUBSET Ops, Return(R) PROVE ParentsAccounted'
  <2>1. \A q \in Mine' : \A d \in Deps[q] : Found(d)'
    BY <1>7, <1>d DEF Return, Mine
  <2>2. pc' \in Draining => pc \in Draining
    BY <1>7 DEF Return, Draining
  <2> QED BY <1>7, <1>a, <1>b, <2>1, <2>2 DEF Return
<1>8. ASSUME NEW R \in SUBSET Ops, Clearing(R) PROVE ParentsAccounted'
  <2>1. \A q \in Mine' : \A d \in Deps[q] : Found(d)'
    BY <1>8, <1>d, <1>e DEF Clearing, Mine
  <2> QED BY <1>8, <1>a, <1>b, <2>1 DEF Clearing, Settled
<1>9. CASE SecondWrite
  <2>1. \A q \in Mine' : \A d \in Deps[q] : Found(d)'
    BY <1>9, <1>d, <1>e DEF SecondWrite, Mine, record
  <2> QED BY <1>9, <1>a, <1>b, <2>1 DEF SecondWrite, record
<1>10. CASE Quiet
  <2>1. \A q \in Mine' : \A d \in Deps[q] : Found(d)'
    BY <1>10, <1>d, <1>e DEF Quiet, Mine
  <2>2. pc' \in Draining => pc \in Draining
    BY <1>10 DEF Quiet, Draining
  <2> QED BY <1>10, <1>a, <1>b, <2>1, <2>2 DEF Quiet
<1>11. CASE Loading
  <2>1. confirmed \subseteq applied
    BY DEF KnownRows
  <2>2. Ids(inflight) = {} /\ Ids(inflight') = {}
    BY <1>11, NoRows DEF Loading
  <2>3. \A q \in Mine' : \A d \in Deps[q] : Found(d)'
    <3>1. Mine' \subseteq Ids(queue)
      BY <1>11, <2>2 DEF Loading, Mine
    <3>2. CASE pc' = "loop" /\ failedIds' = Ids(failed)
      <4>1. \A d : d \in Ids(queue) \cup Ids(failed) \cup applied \cup cleared \/ Undone(d)
                     => Found(d)'
        BY <1>11, <2>1, <3>2 DEF Loading, Found, Mine, Undone, record
      <4> QED BY <3>1, <4>1, ParentOfArrival
    <3>3. CASE Ids(pending') = {}
      BY <2>2, <3>3 DEF Mine
    <3> QED BY <1>11, <3>2, <3>3 DEF Loading
  <2>4. pc' \in Draining => Ids(failed') \subseteq failedIds'
    BY <1>11 DEF Loading, Draining
  <2> QED BY <1>11, <1>a, <1>b, <2>3, <2>4 DEF Loading, record, Settled
<1>12. CASE QueueWrite
  <2>1. pc \in Draining
    BY <1>12 DEF QueueWrite, Draining
  <2>2. UNCHANGED <<dead, failed, owed, failedIds, accepted, applied, cleared, manager>>
    BY <1>12 DEF QueueWrite, record
  <2>3. \A q \in Mine' : \A d \in Deps[q] : Found(d)'
    <3>1. CASE Ids(pending') = Ids(queue')
      <4>1. Mine' = Mine \cup (Ids(queue) \ (completed \cup Ids(dead)))
        BY <1>12, <3>1 DEF QueueWrite, Mine
      <4> QED BY <1>f, <2>1, <2>2, <4>1
    <3>2. CASE Ids(pending') = {}
      BY <1>12, <3>2 DEF QueueWrite, Mine
    <3> QED BY <1>12, <3>1, <3>2 DEF QueueWrite
  <2> QED BY <1>a, <1>b, <2>1, <2>2, <2>3
<1>13. CASE Flush \/ Death
  <2>1. Mine' = {} /\ pc' \notin Draining /\ accepted' = accepted
    BY <1>13 DEF Flush, Death, Forgotten, Mine, Draining, record
  <2> QED BY <1>a, <1>b, <2>1
<1> QED BY <1>1, <1>2, <1>3, <1>4, <1>5, <1>6, <1>7, <1>8, <1>9, <1>10, <1>11,
           <1>12, <1>13 DEF Effect

\* What the effects of the steps rest on.
Engine == TypeOK /\ ReplayCustody /\ Copies /\ OneInFlight /\ KnownRows

LEMMA EngineInvariant == Spec => []Engine
<1>1. Init => Engine
  BY TypeInit, CustodyInit, CopiesInit, OneInFlightInit, KnownInit DEF Engine
<1>2. Engine /\ [Next]_vars => Engine'
  BY TypeStep, CustodyStep, CopiesStep, OneInFlightStep, StepEffect, KnownStep DEF Engine
<1> QED BY <1>1, <1>2, PTL DEF Spec

\* Nothing is in the files or in a pass that no caller has queued, and what
\* was confirmed is on the server.
THEOREM OnlyQueued == Spec => []KnownRows
<1>1. Engine => KnownRows
  BY DEF Engine
<1> QED BY <1>1, EngineInvariant, PTL

\* When callers queue parents first, a pass always knows where the parents of
\* its rows are.
THEOREM ParentsAlwaysAccounted ==
  ASSUME ParentsFirst
  PROVE  Spec => []ParentsAccounted
<1>1. Engine /\ ParentsAccounted /\ [Next]_vars => ParentsAccounted'
  BY StepEffect, ParentsStep DEF Engine
<1> QED BY <1>1, ParentsInit, EngineInvariant, PTL DEF Spec

\* No dependent is sent before its parents are complete on the server, across
\* outages, crashes and retries, but for the exceptions the property names.
THEOREM ParentsComeFirst ==
  ASSUME ParentsFirst
  PROVE  Spec => ParentsBeforeChildren
<1> DEFINE Respects == Sends => \A d \in Deps[Sent] \cap accepted :
                         d \in applied \cup cleared \/ Undone(d) \/ GivenUpUnsent(d)
<1>1. Engine /\ ParentsAccounted /\ [Next]_vars => [Respects]_vars
  <2> SUFFICES ASSUME Engine, ParentsAccounted, [Next]_vars, Sends PROVE Respects
    OBVIOUS
  <2>1. PICK o \in Ops : Sending(o)
    BY StepEffect DEF Engine, Effect, Sends, Arrival, CycleGivenUp, Parking, PutBack,
       Success, Return, Clearing, SecondWrite, Quiet, Loading, QueueWrite, Flush,
       Death, Forgotten
  <2>2. /\ Sent = o /\ o \in Ids(pending) /\ Ids(inflight) = {} /\ FailedDeps(o) = {}
        /\ \A d \in Deps[o] : d \in failedIds \cup completed \/ d \notin Ids(pending)
    BY <2>1 DEF Sending
  <2>3. completed \subseteq applied
    BY DEF Engine, ReplayCustody, KnownRows
  <2>4. ASSUME NEW d \in Deps[o]
        PROVE  d \in applied \cup cleared \/ Undone(d) \/ GivenUpUnsent(d)
    <3>1. CASE d \in failedIds \cup completed
      BY <2>2, <2>3, <3>1 DEF FailedDeps
    <3>2. CASE d \notin failedIds \cup completed
      BY <2>2, <3>2 DEF ParentsAccounted, GivenUpUnsent
    <3> QED BY <3>1, <3>2
  <2> QED BY <2>2, <2>4
<1> QED BY <1>1, EngineInvariant, ParentsAlwaysAccounted, PTL DEF Spec, ParentsBeforeChildren

-----------------------------------------------------------------------------
(* The promises of a living process *)

LEMMA WaitsInit == Init => WaitsOnce
BY NoRows DEF Init, WaitsOnce, ApartIfDone, NoWrite

\* Crashes are only counted up.
LEMMA StillLives == TypeOK /\ [Next]_vars /\ Lives' => Lives
<1> SUFFICES ASSUME TypeOK, [Next]_vars, Lives' PROVE Lives
  OBVIOUS
<1>1. CASE Crash
  BY <1>1 DEF Crash, Lives, TypeOK
<1>2. ASSUME NEW o \in Ops, QueueOperation(o) \/ BecomeDue(o) \/ ServerExecute(o)
      PROVE  crashes' = crashes
  BY <1>2 DEF QueueOperation, BecomeDue, ServerExecute, network
<1>3. CASE RetrySyncItems \/ ClearSyncFailed \/ TimerSweep \/ CompleteWrite
  BY <1>3 DEF RetrySyncItems, ClearSyncFailed, TimerSweep, CompleteWrite, network, Lives
<1>4. CASE StartPass \/ RunSyncNow \/ ProbeContract \/ ContractAnswer \/ LoadQueue
  BY <1>4 DEF StartPass, RunSyncNow, BeginPass, ProbeContract, ContractAnswer, LoadQueue,
     network, Lives
<1>5. CASE PauseOffline \/ DetectCycle \/ DeadLetterCycle \/ EndPass \/ FinishPass
  BY <1>5 DEF PauseOffline, DetectCycle, DeadLetterCycle, EndPass, FinishPass, network, Lives
<1>6. ASSUME NEW i \in DOMAIN pending, DeferRow(i) \/ SkipDependent(i) \/ Dispatch(i)
      PROVE  crashes' = crashes
  BY <1>6 DEF DeferRow, SkipDependent, Dispatch, network
<1>7. CASE Succeed \/ (\E verdict \in Verdicts : Fail(verdict))
  BY <1>7 DEF Succeed, Fail, network, Lives
<1>8. CASE GoOffline \/ GoOnline \/ UNCHANGED vars
  BY <1>8 DEF GoOffline, GoOnline, network, vars, Lives
<1> QED BY <1>1, <1>2, <1>3, <1>4, <1>5, <1>6, <1>7, <1>8 DEF Next, PassStep, Lives

\* An operation waits in one place: for replay or for review.
LEMMA WaitsStep == Engine /\ WaitsOnce /\ Effect /\ (Lives' => Lives) => WaitsOnce'
<1> SUFFICES ASSUME Engine, WaitsOnce, Effect, Lives, Lives' PROVE WaitsOnce'
  BY DEF WaitsOnce
<1>0. /\ Ids(dead) \cap (Ids(inflight) \cup Ids(pending)) = {}
      /\ Ids(inflight) \cap Ids(pending) = {}
  BY DEF Engine, Copies
<1>a. manager' = manager => \A o : Undone(o)' <=> Undone(o)
  BY DEF Undone
<1>1. ASSUME NEW o \in Ops, Arrival(o) PROVE WaitsOnce'
  BY <1>0, <1>a, <1>1 DEF Arrival, WaitsOnce, ApartIfDone, record, Settled, HeldAlone, Engine, KnownRows
<1>2. ASSUME NEW o \in Ops, CycleGivenUp(o) PROVE WaitsOnce'
  BY <1>0, <1>a, <1>2 DEF CycleGivenUp, WaitsOnce, ApartIfDone, record, Settled, HeldAlone
<1>3. ASSUME NEW o \in Ops, Parking(o) PROVE WaitsOnce'
  BY <1>0, <1>a, <1>3 DEF Parking, WaitsOnce, ApartIfDone, record, Settled, HeldAlone
<1>4. ASSUME NEW o \in Ops, PutBack(o) PROVE WaitsOnce'
  BY <1>0, <1>a, <1>4 DEF PutBack, WaitsOnce, ApartIfDone, record, Settled, HeldAlone
<1>5. ASSUME NEW o \in Ops, Sending(o) PROVE WaitsOnce'
  BY <1>0, <1>a, <1>5 DEF Sending, WaitsOnce, ApartIfDone, record, Settled, HeldAlone
<1>6. ASSUME NEW o \in Ops, Success(o) PROVE WaitsOnce'
  BY <1>0, <1>a, <1>6 DEF Success, WaitsOnce, ApartIfDone, record, Settled, HeldAlone
<1>7. ASSUME NEW R \in SUBSET Ops, Return(R) PROVE WaitsOnce'
  <2>1. /\ Ids(queue) \subseteq Ops /\ Ids(failed) \subseteq Ops /\ Ids(dead) \subseteq Ops
        /\ Ids(pending) \subseteq Ops /\ Ids(inflight) \subseteq Ops /\ confirmed \subseteq Ops
    BY IdsType DEF Engine, TypeOK
  <2>2. \A o \in Ops : Undone(o) => Undone(o)'
    BY <1>7 DEF Return
  <2>3. \A o \in R \cap Ids(dead) : Undone(o)'
    BY <1>7, <2>1, <2>2 DEF Return, WaitsOnce
  <2>4. \A o \in Ids(queue) \cap (Ids(failed) \cup Ids(dead) \cup confirmed) : Undone(o)'
    BY <1>7, <2>1, <2>2 DEF Return, WaitsOnce, ApartIfDone, Settled
  <2>5. /\ \A o \in (Ids(pending) \cup Ids(inflight)) \cap (Ids(failed) \cup confirmed) : Undone(o)'
        /\ \A o \in (Ids(failed) \cup Ids(dead)) \cap confirmed : Undone(o)'
        /\ \A o \in (failedIds \ completed) \cap confirmed : Undone(o)'
        /\ \A r \in RowSet(failed) : r.id \in Ids(dead) => r.manual \/ r.wait \/ Undone(r.id)'
    BY <2>1, <2>2 DEF WaitsOnce, ApartIfDone
  <2> QED BY <1>7, <2>3, <2>4, <2>5 DEF Return, WaitsOnce, ApartIfDone
<1>8. ASSUME NEW R \in SUBSET Ops, Clearing(R) PROVE WaitsOnce'
  BY <1>0, <1>a, <1>8 DEF Clearing, WaitsOnce, ApartIfDone, record, Settled
<1>9. CASE SecondWrite
  <2>1. CASE owed.file = "queue" /\ queue' = owed.rows /\ failed' = failed
    BY <1>a, <1>9, <2>1 DEF SecondWrite, WaitsOnce, ApartIfDone, record
  <2>2. CASE owed.file = "failed" /\ failed' = owed.rows /\ queue' = queue
    <3>1. RowSet(failed') \subseteq RowSet(failed)
      BY <2>2 DEF WaitsOnce
    <3>2. Ids(failed') \subseteq Ids(failed)
      BY <3>1, IdsMember
    <3> QED BY <1>a, <1>9, <2>2, <3>1, <3>2 DEF SecondWrite, WaitsOnce, ApartIfDone, record
  <2> QED BY <1>9, <2>1, <2>2 DEF SecondWrite
<1>10. CASE Quiet
  BY <1>0, <1>a, <1>10 DEF Quiet, WaitsOnce, ApartIfDone, record, Settled
<1>11. CASE Loading
  BY <1>0, <1>a, <1>11 DEF Loading, WaitsOnce, ApartIfDone, record, Settled
<1>12. CASE QueueWrite
  BY <1>0, <1>a, <1>12 DEF QueueWrite, WaitsOnce, ApartIfDone, record, Settled
<1>13. CASE Flush
  BY <1>0, <1>a, <1>13 DEF Flush, Forgotten, WaitsOnce, ApartIfDone, record, Settled
<1>14. CASE Death
  BY <1>14 DEF Death, Lives
<1> QED BY <1>1, <1>2, <1>3, <1>4, <1>5, <1>6, <1>7, <1>8, <1>9, <1>10, <1>11, <1>12, <1>13, <1>14 DEF Effect

\* While the process lives, an operation waits for replay or for review, and a
\* confirmed one for neither, but for undone retries.
THEOREM OneWait == Spec => []WaitsOnce
<1>1. Engine /\ WaitsOnce /\ [Next]_vars => WaitsOnce'
  BY StepEffect, WaitsStep, StillLives DEF Engine
<1> QED BY <1>1, WaitsInit, EngineInvariant, PTL DEF Spec

\* What a step sends was among the rows of the pass.
LEMMA SentFromPass ==
  ASSUME Engine, [Next]_vars, Sends
  PROVE  Sent \in Ids(pending)
<1>1. PICK o \in Ops : Sending(o)
  BY StepEffect DEF Engine, Effect, Sends, Arrival, CycleGivenUp, Parking, PutBack,
     Success, Return, Clearing, SecondWrite, Quiet, Loading, QueueWrite, Flush,
     Death, Forgotten
<1> QED BY <1>1 DEF Sending

\* An operation that waits for review is not sent.
THEOREM ReviewIsNotSent == Spec => NotSentWhileInReview
<1>1. Engine /\ WaitsOnce /\ [Next]_vars
        => [Lives /\ Sends => Sent \notin Ids(failed) \/ Undone(Sent)]_vars
  BY SentFromPass DEF WaitsOnce, ApartIfDone
<1> QED BY <1>1, EngineInvariant, OneWait, PTL DEF Spec, NotSentWhileInReview

\* A confirmed operation is not sent a second time.
THEOREM ConfirmedOnce == Spec => ConfirmedNotSentAgain
<1>1. Engine /\ WaitsOnce /\ [Next]_vars
        => [Lives /\ Sends => Sent \notin confirmed \/ Undone(Sent)]_vars
  BY SentFromPass DEF WaitsOnce, ApartIfDone
<1> QED BY <1>1, EngineInvariant, OneWait, PTL DEF Spec, ConfirmedNotSentAgain

\* A dependent is given up only behind a parent that is still open.
THEOREM GivenUpWithReason == Spec => GivenUpBehindOpenParent
<1> DEFINE Excused == Lives /\ GivesUp => \E d \in Deps[GivenUp] : d \notin confirmed \/ Undone(d)
<1>1. Engine /\ WaitsOnce /\ [Next]_vars => [Excused]_vars
  <2> SUFFICES ASSUME Engine, WaitsOnce, [Next]_vars, Lives, GivesUp PROVE Excused
    OBVIOUS
  <2>1. dead' # dead
    BY DEF GivesUp, Engine, TypeOK
  <2>2. PICK o \in Ops : Parking(o)
    BY <2>1, StepEffect DEF Engine, Effect, GivesUp, Arrival, CycleGivenUp, PutBack,
       Sending, Success, Return, Clearing, SecondWrite, Quiet, Loading, QueueWrite,
       Flush, Death, Forgotten
  <2>3. GivenUp = o /\ FailedDeps(o) # {}
    BY <2>2 DEF Parking, GivesUp
  <2>4. PICK d \in Deps[o] : d \in failedIds \ completed
    BY <2>3 DEF FailedDeps
  <2>5. d \notin confirmed \/ Undone(d)
    BY <2>4 DEF WaitsOnce, ApartIfDone
  <2> QED BY <2>3, <2>5
<1> QED BY <1>1, EngineInvariant, OneWait, PTL DEF Spec, GivenUpBehindOpenParent
=============================================================================
