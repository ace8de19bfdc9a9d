----------------------------- MODULE MeshQueue ------------------------------
(***************************************************************************)
(* The local mesh: nearby desks copy each other's queued bookings, look    *)
(* for bookings that clash and park the later one for review, while each   *)
(* desk replays its own queue to the server.                               *)
(*                                                                         *)
(* A reconciliation awaits the network between its steps; a desk may run   *)
(* several at once (a timer, and every handshake).  The replay pass is the *)
(* one of SyncQueue without its budgets, schedules and dependencies.       *)
(***************************************************************************)
EXTENDS Rows

CONSTANTS
  Nodes,      \* the desks of one lodge
  Bookings,   \* bookings taken while offline
  Home,       \* Home[b]: the desk that took b
  Slot,       \* Slot[b]: room and dates; equal slots overlap
  Born,       \* Born[b]: created_at, which travels with the operation
  Filed,      \* Filed[b]: the server's created_at for b, the time of its commit
  Linked,     \* bound: the desks that reach the server
  Runs,       \* bound: Runs[n], the reconciliations that n makes
  MaxCrashes  \* bound: crashes of desks

ASSUME BookingsAssumption == IsFiniteSet(Bookings) /\ Home \in [Bookings -> Nodes]
\* No booking was taken in the millisecond in which another of its slot was
\* taken or committed, and of every set of bookings one was taken first.
ASSUME BornAssumption ==
  /\ Born \in [Bookings -> Nat] /\ Filed \in [Bookings -> Nat]
  /\ \A a, b \in Bookings : a # b /\ Slot[a] = Slot[b] =>
       Born[a] # Born[b] /\ Filed[a] # Born[b]
  /\ \A S \in (SUBSET Bookings) \ {{}} :
       \E b \in S : \A c \in S : Born[b] <= Born[c]
ASSUME BoundsAssumption == MaxCrashes \in Nat /\ Linked \subseteq Nodes

VARIABLES
  queue, failed,  \* sync-queue.json, and the ids in sync-failed.json
  owed,           \* the row moveQueuedBookingToManualReview still has to file
  losers,         \* the bookings detectConflicts still has to park
  known, dated,   \* cached bookings; those with the server's created_at
  run,            \* the reconciliations under way
  pass,           \* the replay pass
  server, crashes,
  accepted, cleared, parked, torn  \* history

files == <<queue, failed, owed, losers>>
cache == <<known, dated>>
history == <<accepted, cleared, parked, torn>>
vars == <<files, cache, run, pass, server, crashes, history>>

RowFor(b) == [id |-> b]
Row == {RowFor(b) : b \in Bookings}
Run == [at : {"idle", "next", "compare", "items", "import", "done"},
        todo : SUBSET Nodes, peer : SUBSET Nodes, ids : SUBSET Bookings,
        got : BOOLEAN]
NoRun == [at |-> "idle", todo |-> {}, peer |-> {}, ids |-> {}, got |-> FALSE]
Pass == [on : BOOLEAN, work : Seq(Row), sent : SUBSET Bookings,
         gone : SUBSET Bookings]
NoPass == [on |-> FALSE, work |-> <<>>, sent |-> {}, gone |-> {}]

\* A desk is at an await: detectConflicts parks its losers without one.
Yielded(n) == owed[n] = {} /\ losers[n] = {}

-----------------------------------------------------------------------------
(* Bookings and conflicts *)

\* createBooking while offline: queueOperation, then the cached row.
TakeBooking(b) ==
  LET n == Home[b]
  IN /\ Yielded(n)
     /\ b \notin accepted
     /\ accepted' = accepted \cup {b}
     /\ queue' = [queue EXCEPT ![n] = Append(@, RowFor(b))]
     /\ known' = [known EXCEPT ![n] = @ \cup {b}]
     /\ UNCHANGED <<failed, owed, losers, dated, run, pass, server, crashes,
                    cleared, parked, torn>>

\* Mutant: each desk prefers the booking it took itself.
WinsOwn(n, a, b) == Home[a] = n

\* A row refreshed from the server carries the time of its commit.
CreatedAt(n, b) == IF b \in dated[n] THEN Filed[b] ELSE Born[b]

\* The earlier created_at wins: a committed booking against those taken after
\* its commit, a queued one against a booking that was committed later.
Wins(n, a, b) == CreatedAt(n, a) < CreatedAt(n, b)

\* activeBookings: the cached bookings and those of both files.
Active(n) == known[n] \cup Ids(queue[n]) \cup failed[n]

\* Mutant: also those whose row has left the queue.
LosersAnywhere(n) ==
  {b \in Active(n) :
     \E a \in Active(n) : a # b /\ Slot[a] = Slot[b] /\ Wins(n, a, b)}

\* The bookings that lose a conflict and still have a row in the queue.
Losers(n) ==
  {b \in Ids(queue[n]) :
     \E a \in Active(n) : a # b /\ Slot[a] = Slot[b] /\ Wins(n, a, b)}

\* moveQueuedBookingToManualReview: the queue is written without the row ...
ParkFromQueue(n, b) ==
  /\ owed[n] = {}
  /\ b \in losers[n]
  /\ LET i == CHOOSE k \in DOMAIN queue[n] : queue[n][k].id = b
     IN queue' = [queue EXCEPT ![n] = RemoveIndex(@, i)]
  /\ losers' = [losers EXCEPT ![n] = @ \ {b}]
  /\ owed' = [owed EXCEPT ![n] = {b}]
  /\ parked' = parked \cup {b}
  /\ UNCHANGED <<failed, cache, run, pass, server, crashes, accepted, cleared, torn>>

\* ... and then the failed file with it.
ParkInFailed(n) ==
  /\ owed[n] # {}
  /\ failed' = [failed EXCEPT ![n] = @ \cup owed[n]]
  /\ owed' = [owed EXCEPT ![n] = {}]
  /\ UNCHANGED <<queue, losers, cache, run, pass, server, crashes, history>>

\* clearSyncFailed: the manager of a desk removes a reviewed booking.
ClearFailed(n, b) ==
  /\ Yielded(n)
  /\ b \in failed[n]
  /\ failed' = [failed EXCEPT ![n] = @ \ {b}]
  /\ cleared' = cleared \cup {b}
  /\ UNCHANGED <<queue, owed, losers, cache, run, pass, server, crashes,
                 accepted, parked, torn>>

-----------------------------------------------------------------------------
(* syncMeshQueues *)

\* A run of desk n is at an await, and goes on as next.
RunAt(n, r, label) == Yielded(n) /\ run[n][r].at = label
Goes(n, r, next) == run' = [run EXCEPT ![n][r] = next]
StepsBy(n, r) == UNCHANGED <<failed, owed, losers, pass, server, crashes, history>>

StartSync(n, r) ==
  /\ RunAt(n, r, "idle")
  /\ Goes(n, r, [NoRun EXCEPT !.at = "next", !.todo = Nodes \ {n}])
  /\ UNCHANGED <<queue, cache>> /\ StepsBy(n, r)

\* GET /mesh/queue/summary: the peer's queue as it is when it answers.
AskSummary(n, r) ==
  /\ RunAt(n, r, "next")
  /\ \E p \in run[n][r].todo :
       /\ Yielded(p)
       /\ Goes(n, r, [run[n][r] EXCEPT !.at = "compare", !.peer = {p},
                        !.todo = @ \ {p}, !.ids = Ids(queue[p])])
  /\ UNCHANGED <<queue, cache>> /\ StepsBy(n, r)

\* The ids that this desk's own queue does not have.
Compare(n, r) ==
  /\ RunAt(n, r, "compare")
  /\ LET missing == run[n][r].ids \ Ids(queue[n])
     IN Goes(n, r, [run[n][r] EXCEPT !.ids = missing,
                      !.at = IF missing = {} THEN "next" ELSE "items"])
  /\ UNCHANGED <<queue, cache>> /\ StepsBy(n, r)

\* GET /mesh/queue/items: those of them that the peer still has.
AskItems(n, r) ==
  /\ RunAt(n, r, "items")
  /\ \E p \in run[n][r].peer :
       /\ Yielded(p)
       /\ Goes(n, r, [run[n][r] EXCEPT !.at = "import", !.ids = @ \cap Ids(queue[p])])
  /\ UNCHANGED <<queue, cache>> /\ StepsBy(n, r)

\* Mutant: the queue is not read again before the import.
FreshAsCompared(n, r) == run[n][r].ids

\* The fetched operations that are still not in this desk's queue.
Fresh(n, r) == run[n][r].ids \ Ids(queue[n])

\* The import: the rows follow the queue as it is now, in the order in which
\* the peer sent them, and the cache shows them as pending.
Import(n, r) ==
  /\ RunAt(n, r, "import")
  /\ LET new == Fresh(n, r)
     IN /\ \E rows \in [1..Cardinality(new) -> {RowFor(b) : b \in new}] :
             /\ DistinctIds(rows)
             /\ queue' = [queue EXCEPT ![n] = @ \o rows]
        /\ known' = [known EXCEPT ![n] = @ \cup new]
        /\ dated' = [dated EXCEPT ![n] = @ \ new]
        /\ Goes(n, r, [run[n][r] EXCEPT !.at = "next", !.ids = {},
                         !.got = @ \/ new # {}])
  /\ StepsBy(n, r)

\* A request to the peer fails: the run goes on to the next one.
PeerFails(n, r) ==
  /\ \E label \in {"compare", "items", "import"} : RunAt(n, r, label)
  /\ Goes(n, r, [run[n][r] EXCEPT !.at = "next", !.ids = {}])
  /\ UNCHANGED <<queue, cache>> /\ StepsBy(n, r)

\* After the last peer and the awaited team snapshots: detectConflicts, when
\* something was imported.
FinishSync(n, r) ==
  /\ RunAt(n, r, "next")
  /\ run[n][r].todo = {}
  /\ Goes(n, r, [NoRun EXCEPT !.at = "done"])
  /\ losers' = [losers EXCEPT ![n] = IF run[n][r].got THEN Losers(n) ELSE {}]
  /\ UNCHANGED <<queue, failed, owed, cache, pass, server, crashes, history>>

-----------------------------------------------------------------------------
(* The replay pass and the server *)

\* Mutant: rows that arrived since the pass began are not taken along.
AbsorbNothing(n, rows, gone) == rows

\* absorbNewDiskQueueArrivals: the working set and the rows on disk that the
\* pass has not settled.
Absorb(n, rows, gone) == rows \o NewArrivals(queue[n], Ids(rows) \cup gone)

StepsPass(n) == UNCHANGED <<owed, losers, run, crashes, accepted, cleared, parked, torn>>

BeginPass(n) ==
  /\ Yielded(n) /\ ~pass[n].on /\ n \in Linked
  /\ queue[n] # <<>>
  /\ pass' = [pass EXCEPT ![n] = [NoPass EXCEPT !.on = TRUE, !.work = queue[n]]]
  /\ UNCHANGED <<queue, failed, cache, server>> /\ StepsPass(n)

\* The first row goes out; the queue is written with it in front.
Send(n) ==
  /\ Yielded(n) /\ pass[n].on /\ pass[n].sent = {} /\ pass[n].work # <<>>
  /\ LET row == Head(pass[n].work)
         rest == Absorb(n, Tail(pass[n].work), pass[n].gone \cup {row.id})
     IN /\ pass' = [pass EXCEPT ![n].work = rest, ![n].sent = {row.id}]
        /\ queue' = [queue EXCEPT ![n] = <<row>> \o rest]
  /\ UNCHANGED <<failed, cache, server>> /\ StepsPass(n)

\* The server holds one booking of a slot.
MayCommit(b) == \A a \in server : a # b => Slot[a] # Slot[b]

\* The answer to the row in flight has come, and the pass goes on with rest.
Answered(n, b, rest, gone) ==
  /\ pass' = [pass EXCEPT ![n].work = rest, ![n].sent = {}, ![n].gone = gone]
  /\ queue' = [queue EXCEPT ![n] = rest]

\* Committed, now or on an earlier attempt or by another desk.
Succeed(n) ==
  /\ Yielded(n)
  /\ \E b \in pass[n].sent :
       LET gone == pass[n].gone \cup {b}
       IN /\ MayCommit(b)
          /\ server' = server \cup {b}
          /\ Answered(n, b, Absorb(n, pass[n].work, gone), gone)
  /\ UNCHANGED <<failed, cache>> /\ StepsPass(n)

\* Refused, for the room is taken: the row is kept for review.
Refuse(n) ==
  /\ Yielded(n)
  /\ \E b \in pass[n].sent :
       LET gone == pass[n].gone \cup {b}
       IN /\ ~MayCommit(b)
          /\ failed' = [failed EXCEPT ![n] = @ \cup {b}]
          /\ Answered(n, b, Absorb(n, pass[n].work, gone), gone)
  /\ UNCHANGED <<cache, server>> /\ StepsPass(n)

\* No usable answer: the server may have committed, the row stays queued.
Lose(n) ==
  /\ Yielded(n)
  /\ \E b \in pass[n].sent :
       /\ \/ server' = server
          \/ MayCommit(b) /\ server' = server \cup {b}
       /\ Answered(n, b, Absorb(n, Append(pass[n].work, RowFor(b)), pass[n].gone),
                   pass[n].gone)
  /\ UNCHANGED <<failed, cache>> /\ StepsPass(n)

EndPass(n) ==
  /\ Yielded(n) /\ pass[n].on /\ pass[n].sent = {} /\ pass[n].work = <<>>
  /\ queue' = [queue EXCEPT ![n] = Absorb(n, <<>>, pass[n].gone)]
  /\ pass' = [pass EXCEPT ![n] = NoPass]
  /\ UNCHANGED <<failed, cache, server>> /\ StepsPass(n)

\* refreshCache: the cached rows of committed bookings come from the server.
RefreshCache(n) ==
  /\ Yielded(n) /\ n \in Linked
  /\ known' = [known EXCEPT ![n] = @ \cup server]
  /\ dated' = [dated EXCEPT ![n] = @ \cup server]
  /\ UNCHANGED <<files, run, pass, server, crashes, history>>

\* The desk's process dies: a row that was to be filed is lost with it.
Crash(n) ==
  /\ crashes < MaxCrashes
  /\ crashes' = crashes + 1
  /\ torn' = torn \cup {b \in owed[n] : Home[b] = n}
  /\ owed' = [owed EXCEPT ![n] = {}]
  /\ losers' = [losers EXCEPT ![n] = {}]
  /\ run' = [run EXCEPT ![n] = [r \in Runs[n] |->
       IF @[r].at = "idle" THEN NoRun ELSE [NoRun EXCEPT !.at = "done"]]]
  /\ pass' = [pass EXCEPT ![n] = NoPass]
  /\ UNCHANGED <<queue, failed, cache, server, accepted, cleared, parked>>

-----------------------------------------------------------------------------
Init ==
  /\ queue = [n \in Nodes |-> <<>>] /\ failed = [n \in Nodes |-> {}]
  /\ owed = [n \in Nodes |-> {}] /\ losers = [n \in Nodes |-> {}]
  /\ known = [n \in Nodes |-> {}] /\ dated = [n \in Nodes |-> {}]
  /\ run = [n \in Nodes |-> [r \in Runs[n] |-> NoRun]]
  /\ pass = [n \in Nodes |-> NoPass]
  /\ server = {} /\ crashes = 0
  /\ accepted = {} /\ cleared = {} /\ parked = {} /\ torn = {}

SyncStep(n, r) ==
  \/ StartSync(n, r) \/ AskSummary(n, r) \/ Compare(n, r) \/ AskItems(n, r)
  \/ Import(n, r) \/ PeerFails(n, r) \/ FinishSync(n, r)

PassStep(n) ==
  BeginPass(n) \/ Send(n) \/ Succeed(n) \/ Refuse(n) \/ Lose(n) \/ EndPass(n)

Next ==
  \/ \E b \in Bookings : TakeBooking(b)
  \/ \E n \in Nodes, b \in Bookings : ParkFromQueue(n, b) \/ ClearFailed(n, b)
  \/ \E n \in Nodes : ParkInFailed(n) \/ PassStep(n) \/ RefreshCache(n) \/ Crash(n)
  \/ \E n \in Nodes : \E r \in Runs[n] : SyncStep(n, r)

Spec == Init /\ [][Next]_vars
-----------------------------------------------------------------------------
(* Properties *)

TypeOK ==
  /\ queue \in [Nodes -> Seq(Row)] /\ failed \in [Nodes -> SUBSET Bookings]
  /\ owed \in [Nodes -> SUBSET Bookings] /\ losers \in [Nodes -> SUBSET Bookings]
  /\ known \in [Nodes -> SUBSET Bookings] /\ dated \in [Nodes -> SUBSET Bookings]
  /\ DOMAIN run = Nodes /\ \A n \in Nodes : run[n] \in [Runs[n] -> Run]
  /\ pass \in [Nodes -> Pass]
  /\ \A n \in Nodes : losers[n] \subseteq Ids(queue[n])
  /\ server \in SUBSET Bookings /\ crashes \in 0..MaxCrashes
  /\ accepted \in SUBSET Bookings /\ cleared \in SUBSET Bookings
  /\ parked \in SUBSET Bookings /\ torn \in SUBSET Bookings

\* The desk that took a booking keeps it in one of its files until the server
\* has it or a manager cleared it, whatever its reconciliations, its replay
\* pass and the peers' copies do.  The exceptions are the row that is between
\* the two writes of a move to review, and the one a crash took there
\* (moveQueuedBookingToManualReview, syncMeshQueues, writeReplayQueue).
BookingKept ==
  \A b \in accepted :
    LET n == Home[b]
    IN \/ b \in Ids(queue[n]) \cup failed[n] \cup owed[n]
       \/ b \in server \cup cleared \cup torn

\* Of the bookings taken for one slot, at least one is left standing: the
\* desks that look for conflicts on their own, at different times and with
\* different caches, never park all of them without the server having one
\* ("Determine winner and loser deterministically", detectConflicts).
OneStands ==
  \A b \in accepted : \E a \in accepted :
    Slot[a] = Slot[b] /\ (a \notin parked \/ a \in server)

\* No desk holds two rows of one operation, although several reconciliations
\* and the replay pass add rows between each other's awaits (the checks of
\* syncMeshQueues before it writes, absorbNewDiskQueueArrivals).
NoDuplicateRows == \A n \in Nodes : DistinctIds(queue[n])
=============================================================================
