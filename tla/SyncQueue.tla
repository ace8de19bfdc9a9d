----------------------------- MODULE SyncQueue ------------------------------
(***************************************************************************)
(* The desktop's offline replay engine: the two durable files, the replay  *)
(* pass with its in-memory working set, the manager's review actions, the  *)
(* automatic sweeps, the network and the server's receipt of operations,   *)
(* and crashes of the desktop process.                                     *)
(*                                                                         *)
(* JavaScript runs to completion between awaits, so one action is one      *)
(* synchronous section up to its first durable write.  A section that      *)
(* makes a second durable write leaves it in "owed": until it is done no   *)
(* other handler runs, but the process may crash.                          *)
(***************************************************************************)
EXTENDS Rows

CONSTANTS
  Ops,          \* operation identities (_queue_id)
  Deps,         \* Deps[o]: _depends_on and _depends_on_all of o
  Sales,        \* the create_pos_order_v3 operations
  MaxRetries,   \* MAX_SYNC_RETRIES (5 in the code)
  MaxFaults,    \* bound: transient failures plus losses of the link
  MaxCrashes,   \* bound: crashes of the desktop process
  ParentsFirst  \* callers queue a parent before its dependents

ASSUME DepsAssumption == Deps \in [Ops -> SUBSET Ops]
ASSUME SalesAssumption == Sales \subseteq Ops
ASSUME RetriesAssumption == MaxRetries \in Nat \ {0}
ASSUME BoundsAssumption == MaxFaults \in Nat /\ MaxCrashes \in Nat
ASSUME ParentsFirstAssumption == ParentsFirst \in BOOLEAN

VARIABLES
  queue, failed,            \* sync-queue.json and sync-failed.json
  owed,                     \* the second durable write of the current section
  pc,                       \* where the replay pass stands
  pending, inflight, dead,  \* the pass's working set (lost in a crash)
  completed, failedIds,     \* completedQueueIds and failedQueueIds
  priorIds, priorManual,    \* ids of _priorDeadLetter, all and manual-only
  deferred,                 \* deferredAttemptCount
  stale,                    \* the sales seen parked before the contract probe
  online, wire, applied,    \* the link, requests in transit, server effects
  faults, crashes,          \* counters of the bounds
  accepted, confirmed,      \* history: queued by a caller, answered "success"
  cleared, manager,         \* history: what the manager did with each one
  attempts                  \* history: dispatches, saturating at MaxRetries

disk == <<queue, failed, owed>>
pass == <<pc, pending, inflight, dead, completed, failedIds,
          priorIds, priorManual, deferred, stale>>
network == <<online, wire, applied, faults, crashes>>
history == <<accepted, confirmed, cleared, manager, attempts>>
vars == <<disk, pass, network, history>>

Row == [id : Ops, st : {"pending", "in_flight", "committed"},
        retry : Nat, manual : BOOLEAN, wait : BOOLEAN,
        park : BOOLEAN]

\* Mutant: the row is stored with a status that the replay does not know.
NewRowUnnormalised(o) == [id |-> o, st |-> "queued", retry |-> 0,
                          manual |-> FALSE, wait |-> FALSE, park |-> FALSE]

\* "wait" stands for _next_retry_at later than the pass start (and, in the
\* failed file, for lastAttemptedAt less than 30 minutes ago); "park" for the
\* outcome class CONTRACT_MISSING.
NewRow(o) == [id |-> o, st |-> "pending", retry |-> 0, manual |-> FALSE,
              wait |-> FALSE, park |-> FALSE]

NoWrite == [file |-> "none", rows |-> <<>>]
OweQueue(rows) == owed' = [file |-> "queue", rows |-> rows]
OweFailed(rows) == owed' = [file |-> "failed", rows |-> rows]

\* No section is half done; the process is at an await, so that any handler
\* may run.
Settled == owed.file = "none"
Yielded == Settled /\ pc \in {"idle", "probe", "rpc", "refresh"}
At(label) == Settled /\ pc = label

-----------------------------------------------------------------------------
(* The working set of a pass *)

\* Mutants: the disk is read without looking at what the pass has already
\* completed, is sending, has given up, or holds.
AbsorbCompleted(rows, done, dl, other) ==
  rows \o NewArrivals(queue, Ids(rows) \cup Ids(dl) \cup other)
AbsorbInFlight(rows, done, dl, other) ==
  rows \o NewArrivals(queue, Ids(rows) \cup done \cup Ids(dl))
AbsorbDead(rows, done, dl, other) ==
  rows \o NewArrivals(queue, Ids(rows) \cup done \cup other)
AbsorbAgain(rows, done, dl, other) ==
  rows \o NewArrivals(queue, done \cup Ids(dl) \cup other)

\* absorbNewDiskQueueArrivals: the rows to write, with every disk row that
\* this pass has neither completed nor dead-lettered.
Absorb(rows, done, dl, other) ==
  rows \o NewArrivals(queue, Ids(rows) \cup done \cup Ids(dl) \cup other)

\* Mutant: one settled dependency is enough.
ReadyByOneParent(i) ==
  Deps[pending[i].id] # {} => \E d \in Deps[pending[i].id] :
    d \in failedIds \cup completed \/ d \notin Ids(pending)

\* pickNextReadySyncItemIndex
Ready(i) == \A d \in Deps[pending[i].id] :
              d \in failedIds \cup completed \/ d \notin Ids(pending)
Picked(i) == i \in DOMAIN pending /\ Ready(i) /\ \A j \in 1..(i-1) : ~Ready(j)

\* Mutant: a completed dependency still counts as failed.
FailedDepsAll(o) == Deps[o]

\* The dependencies of o that failed in this pass and have not completed.
FailedDeps(o) == (Deps[o] \cap failedIds) \ completed

\* The picked row goes on to an attempt (or a skip): it is due.
LoopTop(i) == At("loop") /\ online /\ Picked(i)

ForgetPass ==
  /\ pending' = <<>> /\ inflight' = <<>> /\ dead' = <<>>
  /\ completed' = {} /\ failedIds' = {} /\ priorIds' = {}
  /\ priorManual' = {} /\ deferred' = 0 /\ stale' = {}

-----------------------------------------------------------------------------
(* Callers, the manager and the automatic sweep *)

\* queueOperation: a domain module stores a mutation for later replay.
QueueOperation(o) ==
  /\ Yielded
  /\ o \notin accepted
  /\ ParentsFirst => Deps[o] \subseteq accepted
  /\ accepted' = accepted \cup {o}
  /\ queue' = IF o \in Ids(queue) THEN queue ELSE Append(queue, NewRow(o))
  /\ UNCHANGED <<failed, owed, pass, network, confirmed, cleared, manager, attempts>>

\* Mutant: the rows stay in the failed file.
RequeueCopy(rows) ==
  queue' = queue \o Drop(rows, Ids(queue)) /\ OweFailed(failed)

\* Rows moved from the failed file to the queue: the destination is written
\* first and the source is owed.
Requeue(rows) ==
  /\ queue' = queue \o Drop(rows, Ids(queue))
  /\ OweFailed(Drop(failed, Ids(rows)))

\* The rows as they return to the queue: by the manager (one attempt is given
\* back, and a schedule that has passed no longer holds the row), by the
\* sweep (the budget starts afresh), or for a contract that was deployed.
Retried(rows, elapsed) ==
  [i \in DOMAIN rows |->
     [rows[i] EXCEPT !.st = "pending", !.wait = @ /\ ~elapsed,
                     !.retry = IF @ = 0 THEN 0 ELSE @ - 1]]
Swept(rows) ==
  [i \in DOMAIN rows |-> [rows[i] EXCEPT !.st = "pending", !.retry = 0]]
Unparked(rows) == [i \in DOMAIN rows |-> NewRow(rows[i].id)]

\* retrySyncItems: the manager returns failed rows to the queue.
RetrySyncItems ==
  /\ Yielded
  /\ \E ids \in (SUBSET Ids(failed)) \ {{}}, elapsed \in BOOLEAN :
       /\ Requeue(Retried(Keep(failed, ids), elapsed))
       /\ manager' = [o \in Ops |->
            IF o \notin ids THEN manager[o]
            ELSE IF o \in Ids(dead) THEN "undone"
            ELSE IF manager[o] = "none" THEN "retried" ELSE manager[o]]
  /\ UNCHANGED <<failed, pass, network, accepted, confirmed, cleared, attempts>>

\* clearSyncFailed: the manager removes failed rows without confirmation.
ClearSyncFailed ==
  /\ Yielded
  /\ \E ids \in (SUBSET Ids(failed)) \ {{}} :
       /\ failed' = Drop(failed, ids)
       /\ cleared' = cleared \cup ids
  /\ UNCHANGED <<queue, owed, pass, network, accepted, confirmed, manager, attempts>>

\* Mutant: the age of a failed row is not looked at.
EligibleAtOnce == {o \in Ids(failed) : ~RowOf(failed, o).manual}

\* The failed rows old enough for an automatic retry.
Eligible == {o \in Ids(failed) : ~RowOf(failed, o).manual /\ ~RowOf(failed, o).wait}

\* requeueEligibleFailedSyncItems
RequeueEligible == Requeue(Swept(Keep(failed, Eligible)))

\* The periodic and reconnect timers sweep before they join a running pass.
TimerSweep ==
  /\ Yielded /\ pc # "idle" /\ online
  /\ Eligible # {}
  /\ RequeueEligible
  /\ UNCHANGED <<failed, pass, network, history>>

\* The second durable write of a section.
CompleteWrite ==
  /\ ~Settled
  /\ owed' = NoWrite
  /\ IF owed.file = "queue"
     THEN queue' = owed.rows /\ UNCHANGED failed
     ELSE failed' = owed.rows /\ UNCHANGED queue
  /\ UNCHANGED <<pass, network, history>>

\* Time passes.  A pass compares a schedule with its own start, so a schedule
\* is reached between two passes; the age of a failed row counts at any sweep,
\* and a row that this pass has given up is younger than the pass.
BecomeDue(o) ==
  /\ Yielded
  /\ \/ /\ pc = "idle"
        /\ \E i \in DOMAIN queue :
             /\ queue[i].id = o /\ queue[i].wait
             /\ queue' = [queue EXCEPT ![i].wait = FALSE]
        /\ UNCHANGED failed
     \/ /\ o \notin Ids(dead)
        /\ \E i \in DOMAIN failed :
             /\ failed[i].id = o /\ failed[i].wait
             /\ failed' = [failed EXCEPT ![i].wait = FALSE]
        /\ UNCHANGED queue
  /\ UNCHANGED <<owed, pass, network, history>>

-----------------------------------------------------------------------------
(* The replay pass: _runSyncQueue *)

\* processSyncQueue: the single promise is pc.  A pass starts with the sweep.
BeginPass ==
  /\ At("idle") /\ online
  /\ pc' = "contract"
  /\ IF Eligible = {} THEN UNCHANGED <<queue, owed>> ELSE RequeueEligible
  /\ UNCHANGED <<failed, pending, inflight, dead, completed, failedIds,
                 priorIds, priorManual, deferred, stale, network, history>>

\* The timers start a pass when there is something it could send.
StartPass ==
  /\ queue # <<>> \/ \E i \in DOMAIN failed : ~failed[i].manual
  /\ BeginPass

\* runSyncNow, a login or the end of an outage start one in any case; with
\* both files empty it does nothing.
RunSyncNow == failed # <<>> /\ BeginPass

\* The sales parked until the historical replay contract is deployed.
Parked == {o \in Ids(failed) \cap Sales : RowOf(failed, o).park}

\* requeueContractParkedHistoricalReplayItems, up to the awaited probe.
ProbeContract ==
  /\ At("contract")
  /\ stale' = Parked
  /\ pc' = IF Parked = {} THEN "load" ELSE "probe"
  /\ UNCHANGED <<disk, pending, inflight, dead, completed, failedIds,
                 priorIds, priorManual, deferred, network, history>>

\* ... and after it: the failed file is read again, and only the sales that
\* are still parked go back to the queue.
ContractAnswer ==
  /\ At("probe")
  /\ pc' = "load"
  /\ stale' = {}
  /\ \/ UNCHANGED <<queue, owed>>
     \/ /\ online
        /\ Parked \cap stale # {}
        /\ Requeue(Unparked(Keep(failed, Parked \cap stale)))
  /\ UNCHANGED <<failed, pending, inflight, dead, completed, failedIds,
                 priorIds, priorManual, deferred, network, history>>

\* The rows a pass starts from: committed ones are dropped, in-flight ones
\* become pending again.
Live == {i \in DOMAIN queue : queue[i].st # "committed"}
Normalized ==
  LET kept == SelectAt(queue, Live)
  IN [i \in DOMAIN kept |-> [kept[i] EXCEPT !.st = "pending"]]

\* Mutant: what an earlier pass gave up is forgotten.
SeededEmpty == {}

\* failedQueueIds at the start of a pass: everything in the failed file.
Seeded == IF queue = <<>> THEN {} ELSE Ids(failed)

\* The queue is read and normalised; the failed file seeds failedQueueIds.
LoadQueue ==
  /\ At("load")
  /\ pending' = Normalized
  /\ queue' = IF Live = DOMAIN queue THEN queue ELSE Normalized
  /\ pc' = IF queue = <<>> THEN "idle" ELSE "loop"
  /\ failedIds' = Seeded
  /\ priorIds' = failedIds'
  /\ priorManual' = {o \in failedIds' : RowOf(failed, o).manual}
  /\ UNCHANGED <<failed, owed, inflight, dead, completed, deferred, stale,
                 network, history>>

\* The circuit breaker: the link died, nothing is attempted.
PauseOffline ==
  /\ At("loop") /\ pending # <<>> /\ ~online
  /\ queue' = Absorb(pending, completed, dead, {})
  /\ pending' = queue'
  /\ pc' = "end"
  /\ UNCHANGED <<failed, owed, inflight, dead, completed, failedIds,
                 priorIds, priorManual, deferred, stale, network, history>>

\* No row can be picked: every row left is parked as a dependency cycle.
DetectCycle ==
  /\ At("loop") /\ pending # <<>> /\ online
  /\ \A i \in DOMAIN pending : ~Ready(i)
  /\ pc' = "cycle"
  /\ UNCHANGED <<disk, pending, inflight, dead, completed, failedIds,
                 priorIds, priorManual, deferred, stale, network, history>>

DeadLetterCycle ==
  /\ At("cycle")
  /\ IF pending = <<>>
     THEN /\ queue' = Absorb(<<>>, completed, dead, {})
          /\ pending' = queue'
          /\ pc' = "end"
          /\ UNCHANGED <<failed, dead, failedIds>>
     ELSE LET row == [Head(pending) EXCEPT !.st = "pending",
                                           !.retry = MaxRetries, !.manual = TRUE]
          IN /\ dead' = Append(dead, row)
             /\ failed' = MergeRows(failed, <<row>>)
             /\ failedIds' = failedIds \cup {row.id}
             /\ pending' = Tail(pending)
             /\ UNCHANGED <<queue, pc>>
  /\ UNCHANGED <<owed, inflight, completed, priorIds, priorManual, deferred,
                 stale, network, history>>

\* The picked row waits for its persisted schedule: it goes to the back, and
\* when every row waits the pass parks.
DeferRow(i) ==
  /\ LoopTop(i)
  /\ pending[i].wait
  /\ LET rotated == Append(RemoveIndex(pending, i), pending[i])
         all == Absorb(rotated, completed, dead, {})
     IN IF deferred + 1 >= Len(rotated)
        THEN queue' = all /\ pending' = all /\ pc' = "end"
        ELSE pending' = rotated /\ UNCHANGED <<queue, pc>>
  /\ deferred' = deferred + 1
  /\ UNCHANGED <<failed, owed, inflight, dead, completed, failedIds,
                 priorIds, priorManual, stale, network, history>>

\* Mutant: only a parent given up in this pass counts.
UnresolvableHere(d, rest) ==
  d \notin Ids(rest) /\ d \in Ids(dead) /\ RowOf(dead, d).manual

\* The parent d of o can never replay again, as far as this pass can tell.
Unresolvable(d, rest) ==
  /\ d \notin Ids(rest)
  /\ \/ d \in Ids(dead) /\ RowOf(dead, d).manual
     \/ d \in priorManual
     \/ d \notin Ids(dead) \cup priorIds

\* Mutant: the queue is written without the row before the failed file has it.
DeadLetterQueueFirst(row, rest) ==
  /\ dead' = Append(dead, row)
  /\ OweFailed(MergeRows(failed, <<row>>))
  /\ LET all == Absorb(rest, completed, dead', {})
     IN pending' = all /\ queue' = all
  /\ UNCHANGED failed

\* A row that is parked for the manager: it reaches the failed file first,
\* and the queue without it is owed.
DeadLetter(row, rest) ==
  /\ dead' = Append(dead, row)
  /\ failed' = MergeRows(failed, <<row>>)
  /\ LET all == Absorb(rest, completed, dead', {})
     IN pending' = all /\ OweQueue(all)
  /\ UNCHANGED queue

\* A row that stays in the queue, at its end.
KeepQueued(row, rest) ==
  LET all == Absorb(Append(rest, row), completed, dead, {})
  IN pending' = all /\ queue' = all /\ UNCHANGED <<failed, owed, dead>>

\* Mutant: waiting behind a parent costs an attempt.
SkippedAtCost(row) ==
  [row EXCEPT !.st = "pending", !.manual = FALSE, !.wait = TRUE, !.park = FALSE,
              !.retry = IF @ = MaxRetries THEN @ ELSE @ + 1]

\* A row that waits behind its parent keeps its budget.
Skipped(row) ==
  [row EXCEPT !.st = "pending", !.manual = FALSE, !.wait = TRUE, !.park = FALSE]

\* The picked row is skipped behind a parent that failed.
SkipDependent(i) ==
  /\ LoopTop(i)
  /\ ~pending[i].wait
  /\ \E d \in FailedDeps(pending[i].id) :
       LET row == pending[i]
           rest == RemoveIndex(pending, i)
       IN IF Unresolvable(d, rest)
          THEN DeadLetter([row EXCEPT !.st = "pending", !.retry = MaxRetries,
                                      !.manual = TRUE], rest)
          ELSE IF row.retry = MaxRetries THEN DeadLetter(Skipped(row), rest)
                                         ELSE KeepQueued(Skipped(row), rest)
  /\ deferred' = 0
  /\ UNCHANGED <<pc, inflight, completed, failedIds, priorIds, priorManual,
                 stale, network, history>>

\* The picked row is persisted as in_flight and its RPC is sent.
Dispatch(i) ==
  /\ LoopTop(i)
  /\ ~pending[i].wait
  /\ FailedDeps(pending[i].id) = {}
  /\ LET row == pending[i]
         rest == Absorb(RemoveIndex(pending, i), completed, dead, {row.id})
     IN /\ pending' = rest
        /\ inflight' = <<row>>
        /\ queue' = <<[row EXCEPT !.st = "in_flight"]>> \o rest
        /\ wire' = wire \cup {row.id}
        /\ attempts' = [attempts EXCEPT
             ![row.id] = IF @ < MaxRetries THEN @ + 1 ELSE @]
  /\ deferred' = 0
  /\ pc' = "rpc"
  /\ UNCHANGED <<failed, owed, dead, completed, failedIds, priorIds,
                 priorManual, stale, online, applied, faults, crashes,
                 accepted, confirmed, cleared, manager>>

-----------------------------------------------------------------------------
(* The server and the answer to the RPC in flight *)

\* The server executes a request it received, perhaps long after the client
\* gave up on it; it refuses a dependent whose parent it does not hold.
ServerExecute(o) ==
  /\ o \in wire
  /\ Deps[o] \cap accepted \subseteq applied
  /\ applied' = applied \cup {o}
  /\ wire' = wire \ {o}
  /\ UNCHANGED <<disk, pass, online, faults, crashes, history>>

\* The rows whose scheduled wait behind the completed parent is released.
Release(rows, parent) ==
  [i \in DOMAIN rows |-> IF parent \in Deps[rows[i].id]
                         THEN [rows[i] EXCEPT !.wait = FALSE] ELSE rows[i]]

\* The RPC succeeded, now or on an earlier attempt of the same key: the row
\* is persisted as committed and then removed.
Succeed ==
  /\ At("rpc")
  /\ LET row == Head(inflight)
         all == Absorb(Release(pending, row.id), completed \cup {row.id}, dead, {})
     IN /\ row.id \in applied
        /\ completed' = completed \cup {row.id}
        /\ confirmed' = confirmed \cup {row.id}
        /\ pending' = all
        /\ queue' = <<[row EXCEPT !.st = "committed"]>> \o all
        /\ OweQueue(all)
  /\ inflight' = <<>>
  /\ pc' = "loop"
  /\ UNCHANGED <<failed, dead, failedIds, priorIds, priorManual, deferred,
                 stale, network, accepted, cleared, manager, attempts>>

\* What a failed attempt tells: a retryable class, a refusal recognised by
\* its wording only, a structured refusal, or a missing server contract.
Verdicts == {"transient", "worded_refusal", "refusal", "contract_missing"}

Failure(row, verdict) ==
  LET parked == row.manual \/ verdict # "transient"
  IN [row EXCEPT !.st = "pending",
                 !.manual = parked,
                 !.retry = IF parked THEN MaxRetries ELSE @ + 1,
                 !.wait = verdict \in {"transient", "worded_refusal"},
                 !.park = verdict = "contract_missing"]

\* The attempt failed.  Only a transient failure leaves open what the server
\* did or will do; a refusal means that it holds no such operation.
Fail(verdict) ==
  /\ At("rpc")
  /\ LET row == Head(inflight)
         next == Failure(row, verdict)
     IN /\ IF verdict = "transient"
           THEN /\ faults < MaxFaults
                /\ faults' = faults + 1
                /\ UNCHANGED wire
           ELSE /\ row.id \notin applied
                /\ verdict = "contract_missing" => row.id \in Sales
                /\ wire' = wire \ {row.id}
                /\ UNCHANGED faults
        /\ failedIds' = failedIds \cup {row.id}
        /\ IF next.retry >= MaxRetries THEN DeadLetter(next, pending)
                                       ELSE KeepQueued(next, pending)
  /\ inflight' = <<>>
  /\ pc' = "loop"
  /\ UNCHANGED <<completed, priorIds, priorManual, deferred, stale, online,
                 applied, crashes, history>>

\* The loop has ended: the queue is written once more, and the caches are
\* refreshed from the server.
EndPass ==
  /\ At("end") \/ (At("loop") /\ pending = <<>>)
  /\ queue' = Absorb(pending, completed, dead, {})
  /\ pending' = <<>>
  /\ pc' = "refresh"
  /\ UNCHANGED <<failed, owed, inflight, dead, completed, failedIds,
                 priorIds, priorManual, deferred, stale, network, history>>

\* The run-end flush of the dead letters; the promise resolves.
FinishPass ==
  /\ At("refresh")
  /\ failed' = MergeRows(failed, dead)
  /\ ForgetPass
  /\ pc' = "idle"
  /\ UNCHANGED <<queue, owed, network, history>>

-----------------------------------------------------------------------------
(* The environment *)

GoOffline ==
  /\ Yielded /\ online
  /\ faults < MaxFaults
  /\ faults' = faults + 1
  /\ online' = FALSE
  /\ UNCHANGED <<disk, pass, wire, applied, crashes, history>>

GoOnline ==
  /\ Yielded /\ ~online
  /\ online' = TRUE
  /\ UNCHANGED <<disk, pass, wire, applied, faults, crashes, history>>

\* The process dies, or a durable write throws out of the pass: everything in
\* memory is gone and an owed write is never made.
Crash ==
  /\ crashes < MaxCrashes
  /\ crashes' = crashes + 1
  /\ owed' = NoWrite
  /\ ForgetPass
  /\ pc' = "idle"
  /\ UNCHANGED <<queue, failed, online, wire, applied, faults, history>>

-----------------------------------------------------------------------------
Init ==
  /\ queue = <<>> /\ failed = <<>> /\ owed = NoWrite
  /\ pc = "idle" /\ pending = <<>> /\ inflight = <<>> /\ dead = <<>>
  /\ completed = {} /\ failedIds = {} /\ priorIds = {} /\ priorManual = {}
  /\ deferred = 0 /\ stale = {}
  /\ online = TRUE /\ wire = {} /\ applied = {} /\ faults = 0 /\ crashes = 0
  /\ accepted = {} /\ confirmed = {} /\ cleared = {}
  /\ manager = [o \in Ops |-> "none"]
  /\ attempts = [o \in Ops |-> 0]

PassStep ==
  \/ CompleteWrite \/ StartPass \/ ProbeContract \/ ContractAnswer \/ LoadQueue
  \/ PauseOffline \/ DetectCycle \/ DeadLetterCycle
  \/ \E i \in DOMAIN pending : DeferRow(i) \/ SkipDependent(i) \/ Dispatch(i)
  \/ Succeed \/ (\E verdict \in Verdicts : Fail(verdict))
  \/ EndPass \/ FinishPass

Next ==
  \/ PassStep
  \/ \E o \in Ops : QueueOperation(o) \/ BecomeDue(o) \/ ServerExecute(o)
  \/ RetrySyncItems \/ ClearSyncFailed \/ TimerSweep \/ RunSyncNow
  \/ GoOffline \/ GoOnline \/ Crash

Spec == Init /\ [][Next]_vars

\* The reconnect and periodic timers run every 60 s and 120 s and start passes,
\* a pass goes on (its RPC is answered or times out), the link comes back,
\* schedules come due, and the server works on what it received.
Fairness ==
  /\ WF_vars(PassStep)
  /\ WF_vars(GoOnline)
  /\ \A o \in Ops : SF_vars(BecomeDue(o)) /\ WF_vars(ServerExecute(o))

FairSpec == Spec /\ Fairness
-----------------------------------------------------------------------------
(* Properties *)

TypeOK ==
  /\ queue \in Seq(Row) /\ failed \in Seq(Row)
  /\ owed \in [file : {"none", "queue", "failed"}, rows : Seq(Row)]
  /\ pc \in {"idle", "contract", "probe", "load", "loop", "cycle", "rpc",
             "end", "refresh"}
  /\ pending \in Seq(Row) /\ inflight \in Seq(Row) /\ dead \in Seq(Row)
  /\ pc = "rpc" => inflight # <<>>
  /\ completed \in SUBSET Ops /\ failedIds \in SUBSET Ops
  /\ priorIds \in SUBSET Ops /\ priorManual \in SUBSET Ops
  /\ deferred \in Nat /\ stale \in SUBSET Ops
  /\ online \in BOOLEAN /\ wire \in SUBSET Ops /\ applied \in SUBSET Ops
  /\ faults \in 0..MaxFaults /\ crashes \in 0..MaxCrashes
  /\ accepted \in SUBSET Ops /\ confirmed \in SUBSET Ops
  /\ cleared \in SUBSET Ops
  /\ manager \in [Ops -> {"none", "retried", "undone"}]
  /\ attempts \in [Ops -> 0..MaxRetries]

\* The manager retried the operation in the very pass that had dead-lettered
\* it: the pass still holds it dead and takes it out of the queue again.
Undone(o) == manager[o] = "undone"

\* An operation is in custody of the arrays q and f (contents of the two
\* files) when one holds it, or when it needs no custody any more.
Custody(o, q, f) == o \in Ids(q) \cup Ids(f) \cup confirmed \cup cleared

\* No accepted operation is ever lost: whatever the pass, the manager and the
\* timers do, and wherever a crash falls, the operation is in a durable file
\* until the server's success was seen or the manager cleared it
\* (writeReplayQueue, persistDeadLetterIncrementally, Requeue).  The only
\* exception is an undone retry.
NoOperationLost == \A o \in accepted : Custody(o, queue, failed) \/ Undone(o)

\* The arrays the engine works on never hold an operation twice, so no pass
\* attempts a stale second copy (collectNewDiskQueueArrivals, queueOperation).
NoDuplicateRows ==
  /\ DistinctIds(queue) /\ DistinctIds(failed)
  /\ DistinctIds(inflight \o pending)

\* A step that sends an RPC, and the operation it sends.
Sends == pc # "rpc" /\ pc' = "rpc"
Sent == Head(inflight').id

\* d was itself given up behind its parent in this pass: it is dead, and
\* failedQueueIds, which the dependents are checked against, does not have it.
GivenUpUnsent(d) == d \in Ids(dead) \ failedIds

\* A dependent operation is never sent before its parents are complete on the
\* server, except behind a parent that the manager cleared or whose retry was
\* undone, and behind one that this pass gave up unsent
\* (pickNextReadySyncItemIndex, failedQueueIds).
ParentsBeforeChildren ==
  [][Sends => \A d \in Deps[Sent] \cap accepted :
       d \in applied \cup cleared \/ Undone(d) \/ GivenUpUnsent(d)]_vars

\* "Skip items whose parent operation failed this run", and a child of a
\* parent that "dead-lettered manual-only in this run" is parked
\* (infrastructure.js, the dependency check): a dependent of a parent that
\* was given up unsent is not sent in that pass.
SkippedParentParksChild ==
  [][Sends => \A d \in Deps[Sent] : ~GivenUpUnsent(d)]_vars

\* The desktop process has not died yet: a crash between the two writes of a
\* section leaves an operation in both files, or confirmed and in the queue,
\* and the server's idempotency keys have to tell the second sending apart.
Lives == crashes = 0

\* While the process lives, an operation that waits for the manager in the
\* failed file is not sent, unless the manager's retry was undone.
NotSentWhileInReview ==
  [][Lives /\ Sends => Sent \notin Ids(failed) \/ Undone(Sent)]_vars

\* While the process lives, a confirmed operation is never sent a second time:
\* no copy of it in the queue file, where the pass and the other handlers both
\* write, finds its way back into the working set (absorbNewDiskQueueArrivals
\* with completedQueueIds, the two phases of the success path).
ConfirmedNotSentAgain ==
  [][Lives /\ Sends => Sent \notin confirmed \/ Undone(Sent)]_vars

\* A step of the loop that gives a dependent up without an attempt of it.
GivesUp == /\ pc = "loop" /\ pc' = "loop"
           /\ inflight = <<>> /\ Len(dead') > Len(dead)
GivenUp == dead'[Len(dead')].id

\* While the process lives, a dependent is given up for manager review only
\* behind a parent that the server has not confirmed, or whose retry was undone.
GivenUpBehindOpenParent ==
  [][Lives /\ GivesUp => \E d \in Deps[GivenUp] : d \notin confirmed \/ Undone(d)]_vars

\* The retry budget is spent by attempts alone: waits behind a parent, rows
\* left by the circuit breaker and crashes never use it up.
BudgetSpentByAttempts ==
  \A i \in DOMAIN queue :
    queue[i].retry <= attempts[queue[i].id] \/ manager[queue[i].id] # "none"

\* Every operation in the queue eventually leaves it for a good reason: it is
\* confirmed, or it shows up in the failed file for review, or the manager
\* has cleared it.  The manager may keep an operation and its dependents
\* going for ever by retrying it in the pass that dead-lettered it.
EventuallySettled ==
  \A o \in Ops : o \in Ids(queue) ~>
    \/ o \in Ids(failed) \cup confirmed \cup cleared
    \/ \E d \in {o} \cup Deps[o] : Undone(d)

-----------------------------------------------------------------------------
(* The inductive invariant of NoOperationLost *)

\* Custody holds now, and will hold once the owed write is made.
CustodyAcrossWrites ==
  \A o \in accepted :
    /\ Custody(o, queue, failed) \/ Undone(o)
    /\ owed.file = "queue" => Custody(o, owed.rows, failed) \/ Undone(o)
    /\ owed.file = "failed" => Custody(o, queue, owed.rows) \/ Undone(o)

\* What the pass holds dead is in the array f with nothing that lets the
\* automatic sweep take it back.
HeldBack(f) ==
  \A o \in Ids(dead) :
    \/ o \in cleared \cup confirmed \/ Undone(o)
    \/ o \in Ids(f) /\ \A r \in RowSet(f) : r.id = o => r.manual \/ r.wait

\* A row marked as committed belongs to a confirmed operation.
CommittedRowsConfirmed(s) ==
  \A r \in RowSet(s) : r.st = "committed" => r.id \in confirmed

\* An accepted operation stays in custody although the pass erases rows it
\* holds completed, dead or committed (the inductive strengthening of
\* NoOperationLost: absorbNewDiskQueueArrivals trusts those three sets).
ReplayCustody ==
  /\ CustodyAcrossWrites
  /\ completed \subseteq confirmed
  /\ pc \in {"idle", "contract", "probe", "load"} => dead = <<>>
  /\ HeldBack(failed)
  /\ owed.file = "failed" => HeldBack(owed.rows)
  /\ CommittedRowsConfirmed(queue) /\ CommittedRowsConfirmed(pending)
  /\ CommittedRowsConfirmed(inflight)
  /\ owed.file = "queue" => CommittedRowsConfirmed(owed.rows)

\* The strengthening of NoDuplicateRows: what the pass has given up is in none
\* of its rows, so giving up the next one and the flush at the end of the pass
\* find no second copy, and neither does an owed write.
SingleCopies ==
  /\ NoDuplicateRows
  /\ DistinctIds(owed.rows) /\ DistinctIds(dead)
  /\ Ids(dead) \cap Ids(inflight \o pending) = {}
  /\ pc # "rpc" => inflight = <<>>

\* The row has spent no more than its dispatches, or the manager knows it.
Spent(r) == r.retry <= attempts[r.id] \/ manager[r.id] # "none"

\* The strengthening of BudgetSpentByAttempts: it holds of every row that may
\* come back to the queue, and the attempt of the row in flight is still free
\* to be charged.
BudgetKept ==
  /\ \A r \in RowSet(queue) \cup RowSet(pending) \cup RowSet(inflight) : Spent(r)
  /\ owed.file = "queue" => \A r \in RowSet(owed.rows) : Spent(r)
  /\ \A r \in RowSet(inflight) :
       \/ r.retry < attempts[r.id] \/ attempts[r.id] = MaxRetries
       \/ manager[r.id] # "none"

\* The strengthening of ParentsBeforeChildren.  While a pass drains the queue
\* it knows where every parent of its rows is: among its rows, in one of its
\* three sets, or where it no longer matters.
ParentsAccounted ==
  /\ \A o \in accepted : Deps[o] \subseteq accepted
  /\ pc \in {"loop", "cycle", "rpc", "end", "refresh"} =>
       /\ Ids(failed) \subseteq failedIds \cup Ids(dead)
       /\ owed.file = "failed" => Ids(owed.rows) \subseteq failedIds \cup Ids(dead)
  /\ \A o \in Ids(pending) \cup Ids(inflight) : \A d \in Deps[o] :
       \/ d \in Ids(pending) \cup Ids(inflight) \cup failedIds \cup Ids(dead)
       \/ d \in applied \cup cleared \/ Undone(d)

\* The operations of both sets are ones whose retry was undone.
ApartIfDone(a, b) == \A o \in a \cap b : Undone(o)

\* The strengthening of the three properties of a living process.  An
\* operation waits for review or for replay, never for both; a confirmed one
\* waits for neither, and what the pass holds dead stays out of the queue.
\* The exceptions are undone retries, and the queue as it stands while the
\* write that takes the operation out of it is still to come.
WaitsOnce == Lives =>
  LET q == Ids(queue)
      f == Ids(failed)
      d == Ids(dead)
      owes == Ids(owed.rows)
  IN
  /\ owed.file = "none" /\ pc # "cycle" => ApartIfDone(q, f \cup d \cup confirmed)
  /\ owed.file = "none" /\ pc = "cycle" =>
       ApartIfDone(q, confirmed) /\ ApartIfDone(q \ d, f)
  /\ owed.file = "queue" =>
       pc = "loop" /\ ApartIfDone(owes, f \cup d \cup confirmed)
  /\ owed.file = "failed" =>
       /\ pc # "cycle" /\ RowSet(owed.rows) \subseteq RowSet(failed)
       /\ ApartIfDone(q, owes \cup d \cup confirmed)
  /\ ApartIfDone(Ids(pending) \cup Ids(inflight), f \cup confirmed)
  /\ ApartIfDone(f \cup d, confirmed)
  /\ ApartIfDone(failedIds \ completed, confirmed)
  /\ \A r \in RowSet(failed) : r.id \in d => r.manual \/ r.wait \/ Undone(r.id)
=============================================================================
