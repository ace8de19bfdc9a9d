-------------------------- MODULE MeshQueueProofs ---------------------------
(***************************************************************************)
(* The mesh keeps bookings and leaves one standing, for any number of      *)
(* desks, bookings, reconciliations and crashes.                           *)
(***************************************************************************)
EXTENDS MeshQueue, RowsTheorems

\* Every place that names a booking names an accepted one.
OnlyAccepted ==
  /\ server \subseteq accepted
  /\ \A n \in Nodes :
       /\ Ids(queue[n]) \cup failed[n] \cup known[n] \subseteq accepted
       /\ owed[n] \subseteq accepted
       /\ Ids(pass[n].work) \cup pass[n].sent \subseteq accepted
       /\ \A r \in Runs[n] : run[n][r].ids \subseteq accepted

\* What a pass holds settled needs no row any more.
GoneSettled ==
  \A n \in Nodes : pass[n].gone \subseteq server \cup failed[n] \cup cleared

\* A cached row with the server's time belongs to a committed booking.
DatedCommitted == \A n \in Nodes : dated[n] \subseteq server

\* The server has a booking of b's slot, or an earlier one was accepted.
Behind(b) ==
  \E a \in accepted : Slot[a] = Slot[b] /\ (a \in server \/ Born[a] < Born[b])

\* What is parked, or is going to be, stands behind such a booking.
ParkedBehind ==
  /\ \A b \in parked : Behind(b)
  /\ \A n \in Nodes : \A b \in losers[n] : Behind(b)

IInv == /\ TypeOK /\ OnlyAccepted /\ GoneSettled /\ DatedCommitted
        /\ ParkedBehind /\ BookingKept

-----------------------------------------------------------------------------
(* Rows *)

LEMMA RowForType ==
  ASSUME NEW b \in Bookings
  PROVE  RowFor(b) \in Row /\ RowFor(b).id = b
BY DEF Row, RowFor

LEMMA RowId == \A r \in Row : r.id \in Bookings /\ r = RowFor(r.id)
BY DEF Row, RowFor

LEMMA IdsBookings ==
  ASSUME NEW s \in Seq(Row)
  PROVE  Ids(s) \subseteq Bookings
BY RowId DEF Ids

\* The ids of an absorbing write: nothing on disk is dropped but what is gone.
LEMMA AbsorbRows ==
  ASSUME NEW n \in Nodes, queue[n] \in Seq(Row), NEW rows \in Seq(Row), NEW gone
  PROVE  /\ Absorb(n, rows, gone) \in Seq(Row)
         /\ Ids(Absorb(n, rows, gone)) = Ids(rows) \cup (Ids(queue[n]) \ gone)
<1> DEFINE new == NewArrivals(queue[n], Ids(rows) \cup gone)
<1>1. new \in Seq(Row) /\ Ids(new) = Ids(queue[n]) \ (Ids(rows) \cup gone)
  BY DropRows DEF NewArrivals
<1> HIDE DEF new
<1>2. rows \o new \in Seq(Row) /\ Ids(rows \o new) = Ids(rows) \cup Ids(new)
  BY <1>1, ConcatRows
<1> QED  BY <1>1, <1>2 DEF Absorb, new

\* The ids of the imported rows.
LEMMA ImportRows ==
  ASSUME NEW new \in SUBSET Bookings,
         NEW rows \in [1..Cardinality(new) -> {RowFor(b) : b \in new}]
  PROVE  rows \in Seq(Row) /\ Ids(rows) \subseteq new
<1>1. {RowFor(b) : b \in new} \subseteq Row
  BY DEF Row
<1>2. Cardinality(new) \in Nat
  BY BookingsAssumption, FS_Subset, FS_CardinalityType
<1>3. rows \in Seq(Row)
  BY <1>1, <1>2
<1>4. \A i \in DOMAIN rows : rows[i].id \in new
  BY RowForType DEF RowFor
<1> QED  BY <1>3, <1>4 DEF Ids

-----------------------------------------------------------------------------
(* The invariant *)

USE DEF files, cache, history, StepsBy, StepsPass, Goes

LEMMA InitInvariant == Init => IInv
<1> SUFFICES ASSUME Init PROVE IInv
  OBVIOUS
<1>1. \A n \in Nodes : queue[n] = <<>> /\ pass[n].work = <<>> /\ pass[n].sent = {}
        /\ pass[n].gone = {}
  BY DEF Init, NoPass
<1>2. <<>> \in Seq(Row) /\ Ids(<<>>) = {}
  BY NoRows
<1>3. NoRun \in Run /\ NoRun.ids = {} /\ NoPass \in Pass
  BY <1>2 DEF NoRun, Run, NoPass, Pass
<1>4. TypeOK
  BY <1>2, <1>3, BoundsAssumption DEF Init, TypeOK
<1>5. OnlyAccepted
  BY <1>1, <1>2, <1>3 DEF Init, OnlyAccepted
<1>6. GoneSettled /\ DatedCommitted /\ ParkedBehind /\ BookingKept
  BY <1>1 DEF Init, GoneSettled, DatedCommitted, ParkedBehind, BookingKept
<1> QED  BY <1>4, <1>5, <1>6 DEF IInv

\* A desk takes a booking.
LEMMA Taking ==
  ASSUME IInv, NEW b \in Bookings, TakeBooking(b)
  PROVE  IInv'
<1> DEFINE n == Home[b]
<1> USE DEF IInv
<1>1. n \in Nodes /\ queue[n] \in Seq(Row) /\ RowFor(b) \in Row /\ RowFor(b).id = b
  BY BookingsAssumption, RowForType DEF TypeOK
<1>2. Append(queue[n], RowFor(b)) \in Seq(Row)
      /\ Ids(Append(queue[n], RowFor(b))) = Ids(queue[n]) \cup {b}
  BY <1>1, AppendRows
<1>3. /\ UNCHANGED <<failed, owed, losers, dated, run, pass, server, crashes,
                     cleared, parked, torn>>
      /\ accepted' = accepted \cup {b}
      /\ queue' = [queue EXCEPT ![n] = Append(@, RowFor(b))]
      /\ known' = [known EXCEPT ![n] = @ \cup {b}]
  BY DEF TakeBooking
<1> HIDE DEF n
<1>4. /\ \A m \in Nodes \ {n} : queue'[m] = queue[m]
      /\ queue'[n] = Append(queue[n], RowFor(b))
  BY <1>1, <1>3 DEF TypeOK
<1>5. /\ \A m \in Nodes : Ids(queue[m]) \subseteq Ids(queue'[m])
      /\ \A m \in Nodes : Ids(queue'[m]) \subseteq Ids(queue[m]) \cup {b}
      /\ b \in Ids(queue'[n])
  BY <1>2, <1>4
<1>6. TypeOK'
  BY <1>1, <1>2, <1>3, <1>5 DEF TypeOK
<1>7. OnlyAccepted'
  <2>1. \A m \in Nodes : known'[m] \subseteq known[m] \cup {b}
    BY <1>1, <1>3 DEF TypeOK
  <2> QED  BY <1>3, <1>5, <2>1 DEF OnlyAccepted
<1>8. GoneSettled' /\ DatedCommitted' /\ ParkedBehind'
  BY <1>3 DEF GoneSettled, DatedCommitted, ParkedBehind, Behind
<1>9. BookingKept'
  <2>1. \A c \in accepted : Home[c] \in Nodes
    BY BookingsAssumption DEF TypeOK
  <2> QED  BY <1>3, <1>5, <2>1 DEF BookingKept, n
<1> QED  BY <1>6, <1>7, <1>8, <1>9

\* The two writes of a move to review.
LEMMA Parking ==
  ASSUME IInv, NEW n \in Nodes, NEW b \in Bookings, ParkFromQueue(n, b)
  PROVE  IInv'
<1> DEFINE i == CHOOSE k \in DOMAIN queue[n] : queue[n][k].id = b
<1> USE DEF IInv
<1>1. /\ UNCHANGED <<failed, cache, run, pass, server, crashes, accepted, cleared, torn>>
      /\ owed[n] = {} /\ b \in losers[n] /\ parked' = parked \cup {b}
      /\ losers' = [losers EXCEPT ![n] = @ \ {b}]
      /\ owed' = [owed EXCEPT ![n] = {b}]
      /\ queue' = [queue EXCEPT ![n] = RemoveIndex(@, i)]
  BY DEF ParkFromQueue
<1>2. queue[n] \in Seq(Row) /\ i \in DOMAIN queue[n] /\ queue[n][i].id = b
  BY <1>1 DEF TypeOK, Ids
<1> HIDE DEF i
<1>3. /\ RemoveIndex(queue[n], i) \in Seq(Row)
      /\ Ids(queue[n]) = Ids(RemoveIndex(queue[n], i)) \cup {b}
  BY <1>2, RemoveIndexRows
<1>4. /\ \A m \in Nodes \ {n} : queue'[m] = queue[m] /\ losers'[m] = losers[m]
                                /\ owed'[m] = owed[m]
      /\ queue'[n] = RemoveIndex(queue[n], i)
      /\ losers'[n] = losers[n] \ {b} /\ owed'[n] = {b}
  BY <1>1 DEF TypeOK
<1>5. \A m \in Nodes : /\ Ids(queue'[m]) \subseteq Ids(queue[m])
                       /\ Ids(queue[m]) \subseteq Ids(queue'[m]) \cup owed'[m]
                       /\ losers'[m] \subseteq losers[m]
                       /\ owed[m] \subseteq owed'[m]
                       /\ owed'[m] \subseteq owed[m] \cup Ids(queue[m])
  BY <1>1, <1>3, <1>4
<1>6. TypeOK'
  <2>1. queue' \in [Nodes -> Seq(Row)]
    BY <1>1, <1>3 DEF TypeOK
  <2>2. \A m \in Nodes : losers'[m] \subseteq Ids(queue'[m])
    BY <1>3, <1>4 DEF TypeOK
  <2> QED  BY <1>1, <2>1, <2>2 DEF TypeOK
<1>7. OnlyAccepted'
  BY <1>1, <1>5 DEF OnlyAccepted
<1>8. GoneSettled' /\ DatedCommitted'
  BY <1>1 DEF GoneSettled, DatedCommitted
<1>9. ParkedBehind'
  BY <1>1, <1>5 DEF ParkedBehind, Behind
<1>10. BookingKept'
  <2>1. \A c \in accepted : Home[c] \in Nodes
    BY BookingsAssumption DEF TypeOK
  <2> QED  BY <1>1, <1>5, <2>1 DEF BookingKept
<1> QED  BY <1>6, <1>7, <1>8, <1>9, <1>10

\* The second write of the move.
LEMMA Filing ==
  ASSUME IInv, NEW n \in Nodes, ParkInFailed(n)
  PROVE  IInv'
<1> USE DEF IInv
<1>1. /\ failed' = [failed EXCEPT ![n] = @ \cup owed[n]]
      /\ owed' = [owed EXCEPT ![n] = {}]
      /\ UNCHANGED <<queue, losers, cache, run, pass, server, crashes, history>>
  BY DEF ParkInFailed
<1>2. \A m \in Nodes : /\ failed'[m] \cup owed'[m] = failed[m] \cup owed[m]
                       /\ failed[m] \subseteq failed'[m]
  <2>1. /\ \A m \in Nodes \ {n} : failed'[m] = failed[m] /\ owed'[m] = owed[m]
        /\ failed'[n] = failed[n] \cup owed[n] /\ owed'[n] = {}
    BY <1>1 DEF TypeOK
  <2> QED  BY <2>1
<1>3. TypeOK'
  <2>1. failed' \in [Nodes -> SUBSET Bookings] /\ owed' \in [Nodes -> SUBSET Bookings]
    BY <1>1 DEF TypeOK
  <2> QED  BY <1>1, <2>1 DEF TypeOK
<1>4. OnlyAccepted'
  BY <1>1, <1>2 DEF OnlyAccepted
<1>5. GoneSettled' /\ DatedCommitted' /\ ParkedBehind'
  BY <1>1, <1>2 DEF GoneSettled, DatedCommitted, ParkedBehind, Behind
<1>6. BookingKept'
  <2>1. \A c \in accepted : Home[c] \in Nodes
    BY BookingsAssumption DEF TypeOK
  <2> QED  BY <1>1, <1>2, <2>1 DEF BookingKept
<1> QED  BY <1>3, <1>4, <1>5, <1>6

\* The manager's removal of a reviewed row.
LEMMA Clearing ==
  ASSUME IInv, NEW n \in Nodes, NEW b \in Bookings, ClearFailed(n, b)
  PROVE  IInv'
<1> USE DEF IInv
<1>1. /\ failed' = [failed EXCEPT ![n] = @ \ {b}]
      /\ cleared' = cleared \cup {b}
      /\ UNCHANGED <<queue, owed, losers, cache, run, pass, server, crashes,
                     accepted, parked, torn>>
  BY DEF ClearFailed
<1>2. \A m \in Nodes : /\ failed'[m] \subseteq failed[m]
                       /\ failed[m] \subseteq failed'[m] \cup {b}
  <2>1. /\ \A m \in Nodes \ {n} : failed'[m] = failed[m]
        /\ failed'[n] = failed[n] \ {b}
    BY <1>1 DEF TypeOK
  <2> QED  BY <2>1
<1>3. TypeOK'
  <2>1. failed' \in [Nodes -> SUBSET Bookings]
    BY <1>1 DEF TypeOK
  <2> QED  BY <1>1, <2>1 DEF TypeOK
<1>4. OnlyAccepted'
  BY <1>1, <1>2 DEF OnlyAccepted
<1>5. GoneSettled' /\ DatedCommitted' /\ ParkedBehind'
  BY <1>1, <1>2 DEF GoneSettled, DatedCommitted, ParkedBehind, Behind
<1>6. BookingKept'
  <2>1. \A c \in accepted : Home[c] \in Nodes
    BY BookingsAssumption DEF TypeOK
  <2> QED  BY <1>1, <1>2, <2>1 DEF BookingKept
<1> QED  BY <1>3, <1>4, <1>5, <1>6

LEMMA Refreshing ==
  ASSUME IInv, NEW n \in Nodes, RefreshCache(n)
  PROVE  IInv'
<1> USE DEF IInv, RefreshCache
<1>1. TypeOK'
  BY DEF TypeOK
<1>2. OnlyAccepted'
  <2>1. \A m \in Nodes : known'[m] \subseteq known[m] \cup server
    BY DEF TypeOK
  <2> QED  BY <2>1 DEF OnlyAccepted
<1>3. GoneSettled' /\ ParkedBehind' /\ BookingKept'
  BY DEF GoneSettled, ParkedBehind, Behind, BookingKept
<1>4. DatedCommitted'
  BY DEF DatedCommitted, TypeOK
<1> QED  BY <1>1, <1>2, <1>3, <1>4

LEMMA Crashing ==
  ASSUME IInv, NEW n \in Nodes, Crash(n)
  PROVE  IInv'
<1> DEFINE done == [NoRun EXCEPT !.at = "done"]
<1> USE DEF IInv, Crash
<1>1. NoRun \in Run /\ NoRun.ids = {} /\ done \in Run /\ done.ids = {}
  BY DEF NoRun, Run
<1>2. NoPass \in Pass /\ NoPass.gone = {} /\ NoPass.sent = {} /\ Ids(NoPass.work) = {}
  BY NoRows DEF NoPass, Pass
<1>3. \A m \in Nodes :
        /\ m # n => owed'[m] = owed[m] /\ losers'[m] = losers[m]
                      /\ run'[m] = run[m] /\ pass'[m] = pass[m]
        /\ m = n => owed'[m] = {} /\ losers'[m] = {} /\ pass'[m] = NoPass
  BY DEF TypeOK
<1>4. /\ DOMAIN run' = Nodes
      /\ \A m \in Nodes : m # n => run'[m] = run[m]
      /\ run'[n] = [r \in Runs[n] |-> IF run[n][r].at = "idle" THEN NoRun ELSE done]
  BY DEF TypeOK
<1> HIDE DEF done
<1>5. \A m \in Nodes : run'[m] \in [Runs[m] -> Run]
  BY <1>1, <1>4 DEF TypeOK
<1>6. TypeOK'
  <2>1. pass' \in [Nodes -> Pass]
    BY <1>2 DEF TypeOK
  <2>2. /\ owed' \in [Nodes -> SUBSET Bookings] /\ losers' \in [Nodes -> SUBSET Bookings]
        /\ crashes' \in 0..MaxCrashes /\ torn' \in SUBSET Bookings
    BY BoundsAssumption DEF TypeOK
  <2>3. UNCHANGED <<queue, failed, known, dated, server, accepted, cleared, parked>>
    OBVIOUS
  <2> QED  BY <1>3, <1>4, <1>5, <2>1, <2>2, <2>3 DEF TypeOK
<1>7. OnlyAccepted'
  <2>1. \A m \in Nodes : \A r \in Runs[m] : run'[m][r].ids \subseteq accepted
    BY <1>1, <1>4 DEF OnlyAccepted
  <2>2. \A m \in Nodes : Ids(pass'[m].work) \cup pass'[m].sent \subseteq accepted
    BY <1>2, <1>3 DEF OnlyAccepted
  <2> QED  BY <1>3, <2>1, <2>2 DEF OnlyAccepted
<1>8. GoneSettled' /\ DatedCommitted' /\ ParkedBehind'
  BY <1>2, <1>3 DEF GoneSettled, DatedCommitted, ParkedBehind, Behind
<1>9. BookingKept'
  <2>1. \A c \in accepted : c \in owed[Home[c]] => c \in owed'[Home[c]] \cup torn'
    BY <1>3, BookingsAssumption DEF TypeOK
  <2> QED  BY <2>1 DEF BookingKept
<1> QED  BY <1>6, <1>7, <1>8, <1>9

-----------------------------------------------------------------------------
(* The steps of a reconciliation *)

\* One reconciliation has moved on; the others are as they were.
LEMMA RunEntry ==
  ASSUME TypeOK, OnlyAccepted, NEW n \in Nodes, NEW r \in Runs[n], NEW next \in Run,
         next.ids \subseteq accepted, run' = [run EXCEPT ![n][r] = next]
  PROVE  /\ DOMAIN run' = Nodes
         /\ \A m \in Nodes : /\ run'[m] \in [Runs[m] -> Run]
                             /\ \A q \in Runs[m] : run'[m][q].ids \subseteq accepted
<1>1. /\ DOMAIN run' = Nodes
      /\ \A m \in Nodes \ {n} : run'[m] = run[m]
      /\ run'[n] = [run[n] EXCEPT ![r] = next]
  BY DEF TypeOK
<1> QED  BY <1>1 DEF TypeOK, OnlyAccepted

\* A step that only moves one reconciliation on.
LEMMA RunMoves ==
  ASSUME IInv, NEW n \in Nodes, NEW r \in Runs[n], NEW next \in Run,
         next.ids \subseteq accepted, Goes(n, r, next),
         UNCHANGED <<queue, cache>>, StepsBy(n, r)
  PROVE  IInv'
<1> USE DEF IInv
<1>2. /\ DOMAIN run' = Nodes
      /\ \A m \in Nodes : /\ run'[m] \in [Runs[m] -> Run]
                          /\ \A q \in Runs[m] : run'[m][q].ids \subseteq accepted
  BY RunEntry
<1>3. TypeOK'
  BY <1>2 DEF TypeOK
<1>4. OnlyAccepted'
  BY <1>2 DEF OnlyAccepted
<1>5. GoneSettled' /\ DatedCommitted' /\ ParkedBehind' /\ BookingKept'
  BY DEF GoneSettled, DatedCommitted, ParkedBehind, Behind, BookingKept
<1> QED  BY <1>3, <1>4, <1>5

\* The network steps, whatever the peers answer.
LEMMA Asking ==
  ASSUME IInv, NEW n \in Nodes, NEW r \in Runs[n],
         \/ StartSync(n, r) \/ AskSummary(n, r) \/ Compare(n, r)
         \/ AskItems(n, r) \/ PeerFails(n, r)
  PROVE  IInv'
<1> DEFINE now == run[n][r]
<1>1. /\ now \in Run /\ now.ids \subseteq accepted /\ now.ids \subseteq Bookings
      /\ \A p \in Nodes : Ids(queue[p]) \subseteq accepted /\ Ids(queue[p]) \subseteq Bookings
  BY IdsBookings DEF IInv, TypeOK, OnlyAccepted, Run
<1>2. CASE StartSync(n, r)
  <2> DEFINE next == [NoRun EXCEPT !.at = "next", !.todo = Nodes \ {n}]
  <2>1. next \in Run /\ next.ids \subseteq accepted
    BY DEF Run, NoRun
  <2>2. Goes(n, r, next) /\ UNCHANGED <<queue, cache>> /\ StepsBy(n, r)
    BY <1>2 DEF StartSync
  <2> QED  BY <2>1, <2>2, RunMoves
<1>3. CASE AskSummary(n, r)
  <2>1. PICK p \in now.todo :
          /\ Goes(n, r, [now EXCEPT !.at = "compare", !.peer = {p},
                           !.todo = @ \ {p}, !.ids = Ids(queue[p])])
          /\ UNCHANGED <<queue, cache>> /\ StepsBy(n, r)
    BY <1>3 DEF AskSummary
  <2> DEFINE next == [now EXCEPT !.at = "compare", !.peer = {p},
                        !.todo = @ \ {p}, !.ids = Ids(queue[p])]
  <2>2. next \in Run /\ next.ids \subseteq accepted
    BY <1>1 DEF Run
  <2> QED  BY <2>1, <2>2, RunMoves
<1>4. CASE Compare(n, r)
  <2> DEFINE missing == now.ids \ Ids(queue[n])
             next == [now EXCEPT !.ids = missing,
                        !.at = IF missing = {} THEN "next" ELSE "items"]
  <2>1. next \in Run /\ next.ids \subseteq accepted
    BY <1>1 DEF Run
  <2>2. Goes(n, r, next) /\ UNCHANGED <<queue, cache>> /\ StepsBy(n, r)
    BY <1>4 DEF Compare
  <2> QED  BY <2>1, <2>2, RunMoves
<1>5. CASE AskItems(n, r)
  <2>1. PICK p \in now.peer :
          /\ Goes(n, r, [now EXCEPT !.at = "import", !.ids = @ \cap Ids(queue[p])])
          /\ UNCHANGED <<queue, cache>> /\ StepsBy(n, r)
    BY <1>5 DEF AskItems
  <2> DEFINE next == [now EXCEPT !.at = "import", !.ids = @ \cap Ids(queue[p])]
  <2>2. next \in Run /\ next.ids \subseteq accepted
    BY <1>1 DEF Run
  <2> QED  BY <2>1, <2>2, RunMoves
<1>6. CASE PeerFails(n, r)
  <2> DEFINE next == [now EXCEPT !.at = "next", !.ids = {}]
  <2>1. next \in Run /\ next.ids \subseteq accepted
    BY <1>1 DEF Run
  <2>2. Goes(n, r, next) /\ UNCHANGED <<queue, cache>> /\ StepsBy(n, r)
    BY <1>6 DEF PeerFails
  <2> QED  BY <2>1, <2>2, RunMoves
<1> QED  BY <1>2, <1>3, <1>4, <1>5, <1>6

\* The import: rows and cached bookings are added, none is removed.
LEMMA Importing ==
  ASSUME IInv, NEW n \in Nodes, NEW r \in Runs[n], Import(n, r)
  PROVE  IInv'
<1> DEFINE now == run[n][r]
           new == Fresh(n, r)
           next == [now EXCEPT !.at = "next", !.ids = {}, !.got = @ \/ new # {}]
<1> USE DEF IInv
<1>1. now \in Run /\ new \subseteq accepted /\ new \in SUBSET Bookings
  BY DEF TypeOK, OnlyAccepted, Fresh, Run
<1>2. next \in Run /\ next.ids = {}
  BY <1>1 DEF Run
<1>3. PICK rows \in [1..Cardinality(new) -> {RowFor(b) : b \in new}] :
        queue' = [queue EXCEPT ![n] = @ \o rows]
  BY DEF Import
<1>4. /\ known' = [known EXCEPT ![n] = @ \cup new]
      /\ dated' = [dated EXCEPT ![n] = @ \ new]
      /\ run' = [run EXCEPT ![n][r] = next]
      /\ UNCHANGED <<failed, owed, losers, pass, server, crashes, history>>
  BY DEF Import
<1> HIDE DEF new, next, now
<1>5. rows \in Seq(Row) /\ Ids(rows) \subseteq new
  BY <1>1, <1>3, ImportRows
<1>6. /\ queue[n] \o rows \in Seq(Row)
      /\ Ids(queue[n] \o rows) = Ids(queue[n]) \cup Ids(rows)
  BY <1>5, ConcatRows DEF TypeOK
<1>7. \A m \in Nodes : /\ Ids(queue[m]) \subseteq Ids(queue'[m])
                       /\ Ids(queue'[m]) \subseteq Ids(queue[m]) \cup new
                       /\ known'[m] \subseteq known[m] \cup new
                       /\ dated'[m] \subseteq dated[m]
  <2>1. /\ \A m \in Nodes \ {n} : queue'[m] = queue[m] /\ known'[m] = known[m]
                                  /\ dated'[m] = dated[m]
        /\ queue'[n] = queue[n] \o rows
        /\ known'[n] = known[n] \cup new /\ dated'[n] = dated[n] \ new
    BY <1>3, <1>4 DEF TypeOK
  <2> QED  BY <1>5, <1>6, <2>1
<1>9. /\ DOMAIN run' = Nodes
      /\ \A m \in Nodes : /\ run'[m] \in [Runs[m] -> Run]
                          /\ \A q \in Runs[m] : run'[m][q].ids \subseteq accepted
  <2>1. next.ids \subseteq accepted
    BY <1>2
  <2> QED  BY <1>2, <1>4, <2>1, RunEntry
<1>10. TypeOK'
  <2>1. /\ queue' \in [Nodes -> Seq(Row)]
        /\ known' \in [Nodes -> SUBSET Bookings] /\ dated' \in [Nodes -> SUBSET Bookings]
    BY <1>1, <1>3, <1>4, <1>6 DEF TypeOK
  <2>2. \A m \in Nodes : losers'[m] \subseteq Ids(queue'[m])
    BY <1>4, <1>7 DEF TypeOK
  <2> QED  BY <1>4, <1>9, <2>1, <2>2 DEF TypeOK
<1>11. OnlyAccepted'
  BY <1>1, <1>4, <1>7, <1>9 DEF OnlyAccepted
<1>12. GoneSettled' /\ DatedCommitted' /\ ParkedBehind'
  BY <1>4, <1>7 DEF GoneSettled, DatedCommitted, ParkedBehind, Behind
<1>13. BookingKept'
  <2>1. \A c \in accepted : Home[c] \in Nodes
    BY BookingsAssumption DEF TypeOK
  <2> QED  BY <1>4, <1>7, <2>1 DEF BookingKept
<1> QED  BY <1>10, <1>11, <1>12, <1>13

\* The search for conflicts: every loser stands behind an earlier booking.
LEMMA Finishing ==
  ASSUME IInv, NEW n \in Nodes, NEW r \in Runs[n], FinishSync(n, r)
  PROVE  IInv'
<1> DEFINE next == [NoRun EXCEPT !.at = "done"]
<1> USE DEF IInv
<1>1. next \in Run /\ next.ids = {}
  BY DEF Run, NoRun
<1>2. /\ run' = [run EXCEPT ![n][r] = next]
      /\ losers' = [losers EXCEPT ![n] = IF run[n][r].got THEN Losers(n) ELSE {}]
      /\ UNCHANGED <<queue, failed, owed, cache, pass, server, crashes, history>>
  BY DEF FinishSync
<1> HIDE DEF next
<1>4. /\ DOMAIN run' = Nodes
      /\ \A m \in Nodes : /\ run'[m] \in [Runs[m] -> Run]
                          /\ \A q \in Runs[m] : run'[m][q].ids \subseteq accepted
  <2>1. next.ids \subseteq accepted
    BY <1>1
  <2> QED  BY <1>1, <1>2, <2>1, RunEntry
<1>5. /\ \A m \in Nodes \ {n} : losers'[m] = losers[m]
      /\ losers'[n] \subseteq Losers(n)
  BY <1>2 DEF TypeOK
<1>6. Losers(n) \subseteq Ids(queue[n]) /\ Ids(queue[n]) \subseteq Bookings
  BY IdsBookings DEF Losers, TypeOK
<1>7. \A b \in Losers(n) : Behind(b)
  <2> SUFFICES ASSUME NEW b \in Losers(n) PROVE Behind(b)
    OBVIOUS
  <2>1. PICK a \in Active(n) : a # b /\ Slot[a] = Slot[b] /\ Wins(n, a, b)
    BY DEF Losers
  <2>2. a \in accepted /\ b \in accepted
    BY <2>1 DEF Active, Losers, OnlyAccepted
  <2>3. a \in server \/ b \in server \/ Born[a] < Born[b]
    BY <2>1 DEF Wins, CreatedAt, DatedCommitted
  <2> QED  BY <2>1, <2>2, <2>3 DEF Behind
<1>8. TypeOK'
  <2>1. losers' \in [Nodes -> SUBSET Bookings]
    BY <1>2, <1>6 DEF TypeOK
  <2>2. \A m \in Nodes : losers'[m] \subseteq Ids(queue'[m])
    BY <1>2, <1>5, <1>6 DEF TypeOK
  <2> QED  BY <1>2, <1>4, <2>1, <2>2 DEF TypeOK
<1>9. OnlyAccepted'
  BY <1>2, <1>4 DEF OnlyAccepted
<1>10. ParkedBehind'
  BY <1>2, <1>5, <1>7 DEF ParkedBehind, Behind
<1>11. GoneSettled' /\ DatedCommitted' /\ BookingKept'
  BY <1>2 DEF GoneSettled, DatedCommitted, BookingKept
<1> QED  BY <1>8, <1>9, <1>10, <1>11

-----------------------------------------------------------------------------
(* The steps of the replay pass *)

\* A pass writes q as the queue and goes on as p: q lacks nothing that the
\* server does not have, that is not in review and that no manager cleared.
LEMMA PassWrites ==
  ASSUME IInv, NEW n \in Nodes, NEW p \in Pass, NEW q \in Seq(Row),
         Yielded(n), StepsPass(n), UNCHANGED cache,
         pass' = [pass EXCEPT ![n] = p],
         queue' = [queue EXCEPT ![n] = q],
         Ids(q) \cup Ids(p.work) \cup p.sent \subseteq accepted,
         server \subseteq server', server' \subseteq accepted,
         failed' \in [Nodes -> SUBSET Bookings],
         \A m \in Nodes : failed[m] \subseteq failed'[m] /\ failed'[m] \subseteq accepted,
         p.gone \subseteq server' \cup failed'[n] \cup cleared,
         Ids(queue[n]) \subseteq Ids(q) \cup server' \cup failed'[n] \cup cleared
  PROVE  IInv'
<1> USE DEF IInv
<1>1. /\ \A m \in Nodes \ {n} : queue'[m] = queue[m] /\ pass'[m] = pass[m]
      /\ queue'[n] = q /\ pass'[n] = p
  BY DEF TypeOK
<1>2. TypeOK'
  <2>1. /\ queue' \in [Nodes -> Seq(Row)] /\ pass' \in [Nodes -> Pass]
        /\ server' \in SUBSET Bookings
    BY DEF TypeOK
  <2>2. \A m \in Nodes : losers'[m] \subseteq Ids(queue'[m])
    BY <1>1 DEF TypeOK, Yielded
  <2> QED  BY <2>1, <2>2 DEF TypeOK
<1>3. OnlyAccepted'
  BY <1>1 DEF OnlyAccepted
<1>4. GoneSettled'
  BY <1>1 DEF GoneSettled
<1>5. DatedCommitted' /\ ParkedBehind'
  BY DEF DatedCommitted, ParkedBehind, Behind
<1>6. BookingKept'
  <2>1. \A c \in accepted : Home[c] \in Nodes
    BY BookingsAssumption DEF TypeOK
  <2>2. \A m \in Nodes :
          Ids(queue[m]) \subseteq Ids(queue'[m]) \cup server' \cup failed'[m] \cup cleared
    BY <1>1
  <2> QED  BY <2>1, <2>2 DEF BookingKept
<1> QED  BY <1>2, <1>3, <1>4, <1>5, <1>6

\* What the steps of a pass find.
LEMMA PassFinds ==
  ASSUME IInv, NEW n \in Nodes
  PROVE  /\ pass[n] \in Pass /\ queue[n] \in Seq(Row)
         /\ Ids(pass[n].work) \cup pass[n].sent \cup Ids(queue[n]) \subseteq accepted
         /\ pass[n].gone \subseteq server \cup failed[n] \cup cleared
         /\ server \subseteq accepted /\ accepted \subseteq Bookings
         /\ failed \in [Nodes -> SUBSET Bookings]
         /\ \A m \in Nodes : failed[m] \subseteq accepted
BY DEF IInv, TypeOK, OnlyAccepted, GoneSettled

LEMMA Beginning ==
  ASSUME IInv, NEW n \in Nodes, BeginPass(n)
  PROVE  IInv'
<1> DEFINE p == [NoPass EXCEPT !.on = TRUE, !.work = queue[n]]
           q == queue[n]
<1>1. p \in Pass /\ p.work = q /\ p.sent = {} /\ p.gone = {} /\ q \in Seq(Row)
  BY PassFinds DEF NoPass, Pass
<1>2. queue' = [queue EXCEPT ![n] = q] /\ pass' = [pass EXCEPT ![n] = p]
  BY DEF BeginPass, IInv, TypeOK
<1>3. Yielded(n) /\ StepsPass(n) /\ UNCHANGED <<failed, cache, server>>
  BY DEF BeginPass
<1> HIDE DEF p, q
<1>4. Ids(q) \subseteq accepted /\ Ids(queue[n]) = Ids(q)
  BY PassFinds DEF q
<1> QED  BY <1>1, <1>2, <1>3, <1>4, PassFinds, PassWrites

LEMMA Sending ==
  ASSUME IInv, NEW n \in Nodes, Send(n)
  PROVE  IInv'
<1> DEFINE row == Head(pass[n].work)
           tail == Tail(pass[n].work)
           gone == pass[n].gone \cup {row.id}
           rest == Absorb(n, tail, gone)
           p == [pass[n] EXCEPT !.work = rest, !.sent = {row.id}]
           q == <<row>> \o rest
<1>1. pass[n].work \in Seq(Row) /\ pass[n].work # <<>>
  BY PassFinds DEF Send, Pass
<1>2. /\ row \in Row /\ tail \in Seq(Row)
      /\ Ids(pass[n].work) = Ids(tail) \cup {row.id}
  BY <1>1, HeadTailRows
<1>3. /\ Yielded(n) /\ StepsPass(n) /\ UNCHANGED <<failed, cache, server>>
      /\ queue' = [queue EXCEPT ![n] = q]
      /\ pass' = [pass EXCEPT ![n] = p]
  BY PassFinds DEF Send, IInv, TypeOK, Pass
<1> HIDE DEF row, tail
<1>4. rest \in Seq(Row) /\ Ids(rest) = Ids(tail) \cup (Ids(queue[n]) \ gone)
  BY <1>2, PassFinds, AbsorbRows
<1> HIDE DEF rest
<1>5. q \in Seq(Row) /\ Ids(q) = {row.id} \cup Ids(rest)
  <2>1. <<row>> \in Seq(Row) /\ Ids(<<row>>) = {row.id}
    BY <1>2, OneRow
  <2> DEFINE one == <<row>>
  <2>2. one \in Seq(Row) /\ Ids(one) = {row.id} /\ q = one \o rest
    BY <2>1
  <2> HIDE DEF one, q
  <2> QED  BY <1>4, <2>2, ConcatRows
<1>6. p \in Pass /\ p.work = rest /\ p.sent = {row.id} /\ p.gone = pass[n].gone
  BY <1>2, <1>4, PassFinds, RowId DEF Pass
<1> HIDE DEF p, q
<1>7. Ids(q) \cup Ids(p.work) \cup p.sent \subseteq accepted
  BY <1>2, <1>4, <1>5, <1>6, PassFinds
<1>8. Ids(queue[n]) \subseteq Ids(q) \cup server \cup failed[n] \cup cleared
  BY <1>4, <1>5, PassFinds
<1> QED  BY <1>3, <1>5, <1>6, <1>7, <1>8, PassFinds, PassWrites

\* An answer: the pass goes on with the rest, and b needs no row if it is gone.
LEMMA Answering ==
  ASSUME IInv, NEW n \in Nodes, NEW b \in pass[n].sent, Yielded(n), StepsPass(n),
         UNCHANGED cache, NEW rows \in Seq(Row), NEW gone \in SUBSET Bookings,
         Ids(rows) \subseteq accepted,
         Answered(n, b, Absorb(n, rows, gone), gone),
         server \subseteq server', server' \subseteq accepted,
         failed' \in [Nodes -> SUBSET Bookings],
         \A m \in Nodes : failed[m] \subseteq failed'[m] /\ failed'[m] \subseteq accepted,
         gone \subseteq server' \cup failed'[n] \cup cleared
  PROVE  IInv'
<1> DEFINE rest == Absorb(n, rows, gone)
           p == [pass[n] EXCEPT !.work = rest, !.sent = {}, !.gone = gone]
<1>1. rest \in Seq(Row) /\ Ids(rest) = Ids(rows) \cup (Ids(queue[n]) \ gone)
  BY PassFinds, AbsorbRows
<1>2. queue' = [queue EXCEPT ![n] = rest] /\ pass' = [pass EXCEPT ![n] = p]
  BY PassFinds DEF Answered, IInv, TypeOK, Pass
<1> HIDE DEF rest
<1>3. p \in Pass /\ p.work = rest /\ p.sent = {} /\ p.gone = gone
  BY <1>1, PassFinds DEF Pass
<1> HIDE DEF p
<1>4. Ids(rest) \cup Ids(p.work) \cup p.sent \subseteq accepted
  BY <1>1, <1>3, PassFinds
<1>5. Ids(queue[n]) \subseteq Ids(rest) \cup server' \cup failed'[n] \cup cleared
  BY <1>1
<1> QED  BY <1>1, <1>2, <1>3, <1>4, <1>5, PassWrites

LEMMA Answers ==
  ASSUME IInv, NEW n \in Nodes, Succeed(n) \/ Refuse(n) \/ Lose(n)
  PROVE  IInv'
<1>1. Yielded(n) /\ StepsPass(n) /\ UNCHANGED cache
  BY DEF Succeed, Refuse, Lose
<1>2. /\ pass[n].work \in Seq(Row) /\ Ids(pass[n].work) \subseteq accepted
      /\ pass[n].gone \in SUBSET Bookings /\ pass[n].sent \subseteq Bookings
      /\ pass[n].sent \subseteq accepted
  BY PassFinds DEF Pass
<1>3. CASE Succeed(n)
  <2>1. PICK b \in pass[n].sent :
          /\ server' = server \cup {b}
          /\ Answered(n, b, Absorb(n, pass[n].work, pass[n].gone \cup {b}),
                      pass[n].gone \cup {b})
    BY <1>3 DEF Succeed
  <2>2. failed' = failed
    BY <1>3 DEF Succeed
  <2> DEFINE gone == pass[n].gone \cup {b}
  <2>3. gone \in SUBSET Bookings /\ gone \subseteq server' \cup failed'[n] \cup cleared
    BY <1>2, <2>1, <2>2, PassFinds
  <2> QED  BY <1>1, <1>2, <2>1, <2>2, <2>3, PassFinds, Answering
<1>4. CASE Refuse(n)
  <2>1. PICK b \in pass[n].sent :
          /\ failed' = [failed EXCEPT ![n] = @ \cup {b}]
          /\ Answered(n, b, Absorb(n, pass[n].work, pass[n].gone \cup {b}),
                      pass[n].gone \cup {b})
    BY <1>4 DEF Refuse
  <2>2. server' = server
    BY <1>4 DEF Refuse
  <2> DEFINE gone == pass[n].gone \cup {b}
  <2>3. /\ failed' \in [Nodes -> SUBSET Bookings] /\ failed'[n] = failed[n] \cup {b}
        /\ \A m \in Nodes \ {n} : failed'[m] = failed[m]
    BY <1>2, <2>1, PassFinds
  <2>4. \A m \in Nodes : failed[m] \subseteq failed'[m] /\ failed'[m] \subseteq accepted
    BY <1>2, <2>3, PassFinds
  <2>5. gone \in SUBSET Bookings /\ gone \subseteq server' \cup failed'[n] \cup cleared
    BY <1>2, <2>2, <2>3, PassFinds
  <2> QED  BY <1>1, <1>2, <2>1, <2>2, <2>3, <2>4, <2>5, PassFinds, Answering
<1>5. CASE Lose(n)
  <2>1. PICK b \in pass[n].sent :
          /\ server' = server \/ server' = server \cup {b}
          /\ Answered(n, b, Absorb(n, Append(pass[n].work, RowFor(b)), pass[n].gone),
                      pass[n].gone)
    BY <1>5 DEF Lose
  <2>2. failed' = failed
    BY <1>5 DEF Lose
  <2> DEFINE rows == Append(pass[n].work, RowFor(b))
  <2>3. RowFor(b) \in Row /\ RowFor(b).id = b
    BY <1>2, RowForType
  <2>4. rows \in Seq(Row) /\ Ids(rows) \subseteq accepted
    BY <1>2, <2>3, AppendRows
  <2> HIDE DEF rows
  <2>5. Answered(n, b, Absorb(n, rows, pass[n].gone), pass[n].gone)
    BY <2>1 DEF rows
  <2>6. server \subseteq server' /\ server' \subseteq accepted
    BY <1>2, <2>1, PassFinds
  <2> QED  BY <1>1, <1>2, <2>2, <2>4, <2>5, <2>6, PassFinds, Answering
<1> QED  BY <1>3, <1>4, <1>5

LEMMA Ending ==
  ASSUME IInv, NEW n \in Nodes, EndPass(n)
  PROVE  IInv'
<1> DEFINE none == <<>>
           rest == Absorb(n, none, pass[n].gone)
<1>1. rest \in Seq(Row) /\ Ids(rest) = Ids(queue[n]) \ pass[n].gone
  <2>1. none \in Seq(Row) /\ Ids(none) = {}
    BY NoRows
  <2> HIDE DEF none
  <2> QED  BY <2>1, PassFinds, AbsorbRows
<1>2. /\ queue' = [queue EXCEPT ![n] = rest] /\ pass' = [pass EXCEPT ![n] = NoPass]
      /\ Yielded(n) /\ StepsPass(n) /\ UNCHANGED <<failed, cache, server>>
  BY DEF EndPass
<1> HIDE DEF rest
<1>3. /\ NoPass \in Pass /\ Ids(NoPass.work) = {}
      /\ NoPass.sent = {} /\ NoPass.gone = {}
  BY NoRows DEF NoPass, Pass
<1>4. Ids(rest) \cup Ids(NoPass.work) \cup NoPass.sent \subseteq accepted
  BY <1>1, <1>3, PassFinds
<1>5. Ids(queue[n]) \subseteq Ids(rest) \cup server \cup failed[n] \cup cleared
  BY <1>1, PassFinds
<1> QED  BY <1>1, <1>2, <1>3, <1>4, <1>5, PassFinds, PassWrites

-----------------------------------------------------------------------------
(* The theorems *)

LEMMA StepInvariant == IInv /\ [Next]_vars => IInv'
<1> SUFFICES ASSUME IInv, [Next]_vars PROVE IInv'
  OBVIOUS
<1>1. CASE \E b \in Bookings : TakeBooking(b)
  BY <1>1, Taking
<1>2. CASE \E n \in Nodes, b \in Bookings : ParkFromQueue(n, b) \/ ClearFailed(n, b)
  BY <1>2, Parking, Clearing
<1>3. CASE \E n \in Nodes : ParkInFailed(n) \/ PassStep(n) \/ RefreshCache(n) \/ Crash(n)
  BY <1>3, Filing, Refreshing, Crashing, Beginning, Sending, Answers, Ending
     DEF PassStep
<1>4. CASE \E n \in Nodes : \E r \in Runs[n] : SyncStep(n, r)
  BY <1>4, Asking, Importing, Finishing DEF SyncStep
<1>5. CASE UNCHANGED vars
  BY <1>5 DEF vars, IInv, TypeOK, OnlyAccepted, GoneSettled, DatedCommitted,
              ParkedBehind, Behind, BookingKept
<1> QED  BY <1>1, <1>2, <1>3, <1>4, <1>5 DEF Next

\* The invariant above holds in every reachable state.
THEOREM InvariantHolds == Spec => []IInv
BY InitInvariant, StepInvariant, PTL DEF Spec

\* Every variable keeps its type, and a loser waiting to be parked has a row
\* (detectConflicts runs to its end without an await).
THEOREM TypeCorrect == Spec => []TypeOK
<1>1. IInv => TypeOK
  BY DEF IInv
<1> QED  BY <1>1, InvariantHolds, PTL

\* The desk that took a booking keeps it until the server has it, a manager
\* cleared it, or a crash fell between the two writes of a move to review
\* (syncMeshQueues, moveQueuedBookingToManualReview, writeReplayQueue).
THEOREM NoBookingLost == Spec => []BookingKept
<1>1. IInv => BookingKept
  BY DEF IInv
<1> QED  BY <1>1, InvariantHolds, PTL

\* Of the bookings taken for one slot, the desks never park all of them
\* without the server having one (detectConflicts).
THEOREM OneLeftStanding == Spec => []OneStands
<1>1. ASSUME IInv PROVE OneStands
  <2> SUFFICES ASSUME NEW b \in accepted
               PROVE  \E a \in accepted : Slot[a] = Slot[b] /\ (a \notin parked \/ a \in server)
    BY DEF OneStands
  <2> DEFINE S == {a \in accepted : Slot[a] = Slot[b]}
  <2>1. b \in S /\ S \in SUBSET Bookings
    BY <1>1 DEF IInv, TypeOK
  <2>2. PICK f \in S : \A c \in S : Born[f] <= Born[c]
    BY <2>1, BornAssumption
  <2>3. \A a \in accepted : Slot[a] = Slot[f] => ~ (Born[a] < Born[f])
    <3> SUFFICES ASSUME NEW a \in accepted, Slot[a] = Slot[f], Born[a] < Born[f]
                 PROVE  FALSE
      OBVIOUS
    <3>1. a \in S /\ Born[a] \in Nat /\ Born[f] \in Nat
      BY <2>1, BornAssumption
    <3> QED  BY <2>2, <3>1
  <2>4. f \notin parked \/ \E a \in server : a \in accepted /\ Slot[a] = Slot[f]
    BY <1>1, <2>3 DEF IInv, ParkedBehind, Behind
  <2> QED  BY <2>2, <2>4
<1> QED  BY <1>1, InvariantHolds, PTL
-----------------------------------------------------------------------------
(* One row of an operation on a desk *)

\* What keeps the rows of a desk single: those a pass has yet to send are
\* distinct too, and the one in flight is not among them, for a lost answer
\* puts it back behind them.
SingleRows ==
  \A n \in Nodes :
    /\ DistinctIds(queue[n]) /\ DistinctIds(pass[n].work)
    /\ pass[n].sent \cap Ids(pass[n].work) = {}

\* An absorbing write adds only rows of ids that the working set lacks.
LEMMA AbsorbDistinct ==
  ASSUME NEW n \in Nodes, queue[n] \in Seq(Row), NEW rows \in Seq(Row), NEW gone,
         DistinctIds(queue[n]), DistinctIds(rows)
  PROVE  DistinctIds(Absorb(n, rows, gone))
<1> DEFINE seen == Ids(rows) \cup gone
           new == Drop(queue[n], seen)
<1>1. new \in Seq(Row) /\ Ids(new) = Ids(queue[n]) \ seen /\ DistinctIds(new)
  BY DropRows, DropDistinct
<1>2. Absorb(n, rows, gone) = rows \o new
  BY DEF Absorb, NewArrivals
<1> HIDE DEF new
<1> QED  BY <1>1, <1>2, ConcatDistinct

LEMMA InitSingle == Init => SingleRows
BY DistinctNone, NoRows DEF Init, NoPass, SingleRows

\* A booking is taken once, so its row is new on the desk that takes it.
LEMMA TakingSingle ==
  ASSUME IInv, SingleRows, NEW b \in Bookings, TakeBooking(b)
  PROVE  SingleRows'
<1> DEFINE n == Home[b]
<1>1. n \in Nodes /\ queue[n] \in Seq(Row) /\ RowFor(b) \in Row /\ RowFor(b).id = b
  BY BookingsAssumption, RowForType DEF IInv, TypeOK
<1>2. /\ b \notin accepted /\ pass' = pass
      /\ queue' = [queue EXCEPT ![n] = Append(@, RowFor(b))]
  BY DEF TakeBooking
<1> HIDE DEF n
<1>3. b \notin Ids(queue[n])
  BY <1>1, <1>2 DEF IInv, OnlyAccepted
<1>4. DistinctIds(Append(queue[n], RowFor(b)))
  BY <1>1, <1>3, AppendDistinct DEF SingleRows
<1>5. /\ \A m \in Nodes \ {n} : queue'[m] = queue[m]
      /\ queue'[n] = Append(queue[n], RowFor(b))
  BY <1>1, <1>2 DEF IInv, TypeOK
<1> QED  BY <1>2, <1>4, <1>5 DEF SingleRows

LEMMA ParkingSingle ==
  ASSUME IInv, SingleRows, NEW n \in Nodes, NEW b \in Bookings, ParkFromQueue(n, b)
  PROVE  SingleRows'
<1> DEFINE i == CHOOSE k \in DOMAIN queue[n] : queue[n][k].id = b
<1>1. /\ b \in losers[n] /\ pass' = pass
      /\ queue' = [queue EXCEPT ![n] = RemoveIndex(@, i)]
  BY DEF ParkFromQueue
<1>2. queue[n] \in Seq(Row) /\ i \in DOMAIN queue[n]
  <2>1. queue[n] \in Seq(Row) /\ b \in Ids(queue[n])
    BY <1>1 DEF IInv, TypeOK
  <2> QED  BY <2>1 DEF Ids
<1> HIDE DEF i
<1>3. DistinctIds(RemoveIndex(queue[n], i))
  BY <1>2, RemoveIndexDistinct DEF SingleRows
<1>4. /\ \A m \in Nodes \ {n} : queue'[m] = queue[m]
      /\ queue'[n] = RemoveIndex(queue[n], i)
  BY <1>1 DEF IInv, TypeOK
<1> QED  BY <1>1, <1>3, <1>4 DEF SingleRows

\* The import reads the queue again and adds what is still not in it.
LEMMA ImportingSingle ==
  ASSUME IInv, SingleRows, NEW n \in Nodes, NEW r \in Runs[n], Import(n, r)
  PROVE  SingleRows'
<1> DEFINE new == Fresh(n, r)
<1>1. new \in SUBSET Bookings /\ new \cap Ids(queue[n]) = {}
  BY DEF IInv, TypeOK, OnlyAccepted, Fresh, Run
<1>2. PICK rows \in [1..Cardinality(new) -> {RowFor(b) : b \in new}] :
        DistinctIds(rows) /\ queue' = [queue EXCEPT ![n] = @ \o rows]
  BY DEF Import
<1>3. pass' = pass
  BY DEF Import
<1> HIDE DEF new
<1>4. rows \in Seq(Row) /\ Ids(rows) \subseteq new
  BY <1>1, ImportRows
<1>5. queue[n] \in Seq(Row) /\ Ids(queue[n]) \cap Ids(rows) = {}
  BY <1>1, <1>4 DEF IInv, TypeOK
<1>6. DistinctIds(queue[n] \o rows)
  BY <1>2, <1>4, <1>5, ConcatDistinct DEF SingleRows
<1>7. /\ \A m \in Nodes \ {n} : queue'[m] = queue[m]
      /\ queue'[n] = queue[n] \o rows
  BY <1>2 DEF IInv, TypeOK
<1> QED  BY <1>3, <1>6, <1>7 DEF SingleRows

\* A pass writes q as the queue and goes on as p.
LEMMA PassSingle ==
  ASSUME IInv, SingleRows, NEW n \in Nodes, NEW p, NEW q,
         pass' = [pass EXCEPT ![n] = p], queue' = [queue EXCEPT ![n] = q],
         DistinctIds(q), DistinctIds(p.work), p.sent \cap Ids(p.work) = {}
  PROVE  SingleRows'
<1>1. /\ \A m \in Nodes \ {n} : queue'[m] = queue[m] /\ pass'[m] = pass[m]
      /\ queue'[n] = q /\ pass'[n] = p
  BY DEF IInv, TypeOK
<1> QED  BY <1>1 DEF SingleRows

LEMMA BeginningSingle ==
  ASSUME IInv, SingleRows, NEW n \in Nodes, BeginPass(n)
  PROVE  SingleRows'
<1> DEFINE q == queue[n]
           p == [NoPass EXCEPT !.on = TRUE, !.work = q]
<1>1. p.work = q /\ p.sent = {}
  BY DEF NoPass
<1>2. queue' = [queue EXCEPT ![n] = q] /\ pass' = [pass EXCEPT ![n] = p]
  BY DEF BeginPass, IInv, TypeOK
<1>3. DistinctIds(q)
  BY DEF SingleRows
<1> HIDE DEF p, q
<1> QED  BY <1>1, <1>2, <1>3, PassSingle

\* The row in flight leaves the working set, and the absorbing write does not
\* take it up again from the disk.
LEMMA SendingSingle ==
  ASSUME IInv, SingleRows, NEW n \in Nodes, Send(n)
  PROVE  SingleRows'
<1> DEFINE row == Head(pass[n].work)
           tail == Tail(pass[n].work)
           gone == pass[n].gone \cup {row.id}
           rest == Absorb(n, tail, gone)
           p == [pass[n] EXCEPT !.work = rest, !.sent = {row.id}]
           q == <<row>> \o rest
<1>1. pass[n].work \in Seq(Row) /\ pass[n].work # <<>> /\ DistinctIds(pass[n].work)
  BY PassFinds DEF Send, Pass, SingleRows
<1>2. row \in Row /\ tail \in Seq(Row) /\ DistinctIds(tail) /\ row.id \notin Ids(tail)
  BY <1>1, HeadTailRows, HeadTailDistinct
<1>3. queue' = [queue EXCEPT ![n] = q] /\ pass' = [pass EXCEPT ![n] = p]
  BY PassFinds DEF Send, IInv, TypeOK, Pass
<1> HIDE DEF row, tail
<1>4. queue[n] \in Seq(Row) /\ DistinctIds(queue[n])
  BY PassFinds DEF SingleRows
<1>5. /\ rest \in Seq(Row) /\ Ids(rest) = Ids(tail) \cup (Ids(queue[n]) \ gone)
      /\ DistinctIds(rest)
  BY <1>2, <1>4, AbsorbRows, AbsorbDistinct
<1>6. row.id \notin Ids(rest)
  BY <1>2, <1>5
<1> HIDE DEF rest
<1>7. DistinctIds(q)
  BY <1>2, <1>5, <1>6, FrontDistinct
<1>8. p.work = rest /\ p.sent = {row.id}
  BY PassFinds DEF Pass
<1> HIDE DEF p, q
<1> QED  BY <1>3, <1>5, <1>6, <1>7, <1>8, PassSingle

\* An answer settles the row in flight or puts it back behind the others.
LEMMA AnsweringSingle ==
  ASSUME IInv, SingleRows, NEW n \in Nodes, NEW b, NEW rows \in Seq(Row), NEW gone,
         DistinctIds(rows), Answered(n, b, Absorb(n, rows, gone), gone)
  PROVE  SingleRows'
<1> DEFINE rest == Absorb(n, rows, gone)
           p == [pass[n] EXCEPT !.work = rest, !.sent = {}, !.gone = gone]
<1>1. queue[n] \in Seq(Row) /\ DistinctIds(queue[n])
  BY PassFinds DEF SingleRows
<1>2. DistinctIds(rest)
  BY <1>1, AbsorbDistinct
<1>3. queue' = [queue EXCEPT ![n] = rest] /\ pass' = [pass EXCEPT ![n] = p]
  BY PassFinds DEF Answered, IInv, TypeOK, Pass
<1> HIDE DEF rest
<1>4. p.work = rest /\ p.sent = {}
  BY PassFinds DEF Pass
<1> HIDE DEF p
<1> QED  BY <1>2, <1>3, <1>4, PassSingle

LEMMA AnswersSingle ==
  ASSUME IInv, SingleRows, NEW n \in Nodes, Succeed(n) \/ Refuse(n) \/ Lose(n)
  PROVE  SingleRows'
<1>1. /\ pass[n].work \in Seq(Row) /\ DistinctIds(pass[n].work)
      /\ pass[n].sent \subseteq Bookings /\ pass[n].sent \cap Ids(pass[n].work) = {}
  BY PassFinds DEF Pass, SingleRows
<1>2. CASE Succeed(n) \/ Refuse(n)
  <2>1. PICK b \in pass[n].sent :
          Answered(n, b, Absorb(n, pass[n].work, pass[n].gone \cup {b}), pass[n].gone \cup {b})
    BY <1>2 DEF Succeed, Refuse
  <2> QED  BY <1>1, <2>1, AnsweringSingle
<1>3. CASE Lose(n)
  <2>1. PICK b \in pass[n].sent :
          Answered(n, b, Absorb(n, Append(pass[n].work, RowFor(b)), pass[n].gone), pass[n].gone)
    BY <1>3 DEF Lose
  <2>2. RowFor(b) \in Row /\ RowFor(b).id = b /\ b \notin Ids(pass[n].work)
    BY <1>1, RowForType
  <2> DEFINE rows == Append(pass[n].work, RowFor(b))
  <2>3. rows \in Seq(Row) /\ DistinctIds(rows)
    BY <1>1, <2>2, AppendDistinct
  <2>4. Answered(n, b, Absorb(n, rows, pass[n].gone), pass[n].gone)
    BY <2>1
  <2> HIDE DEF rows
  <2> QED  BY <2>3, <2>4, AnsweringSingle
<1> QED  BY <1>2, <1>3

\* The end of a pass leaves on disk what arrived meanwhile.
LEMMA EndingSingle ==
  ASSUME IInv, SingleRows, NEW n \in Nodes, EndPass(n)
  PROVE  SingleRows'
<1> DEFINE none == <<>>
           rest == Absorb(n, none, pass[n].gone)
<1>1. queue' = [queue EXCEPT ![n] = rest] /\ pass' = [pass EXCEPT ![n] = NoPass]
  BY DEF EndPass
<1>2. none \in Seq(Row) /\ DistinctIds(none) /\ Ids(none) = {}
  BY DistinctNone, NoRows
<1>3. NoPass.work = none /\ NoPass.sent = {}
  BY DEF NoPass
<1> HIDE DEF none
<1>4. DistinctIds(rest)
  BY <1>2, PassFinds, AbsorbDistinct DEF SingleRows
<1> HIDE DEF rest
<1> QED  BY <1>1, <1>2, <1>3, <1>4, PassSingle

\* A crash ends the pass and leaves the file as it is.
LEMMA CrashingSingle ==
  ASSUME IInv, SingleRows, NEW n \in Nodes, Crash(n)
  PROVE  SingleRows'
<1>1. queue' = queue /\ pass' = [pass EXCEPT ![n] = NoPass]
  BY DEF Crash
<1>2. queue' = [queue EXCEPT ![n] = queue[n]]
  BY <1>1 DEF IInv, TypeOK
<1>3. DistinctIds(NoPass.work) /\ NoPass.sent \cap Ids(NoPass.work) = {}
  BY DistinctNone DEF NoPass
<1>4. DistinctIds(queue[n])
  BY DEF SingleRows
<1> QED  BY <1>1, <1>2, <1>3, <1>4, PassSingle

LEMMA StepSingle == IInv /\ SingleRows /\ [Next]_vars => SingleRows'
<1> SUFFICES ASSUME IInv, SingleRows, [Next]_vars PROVE SingleRows'
  OBVIOUS
<1>1. ASSUME queue' = queue, pass' = pass PROVE SingleRows'
  BY <1>1 DEF SingleRows
<1>2. CASE \E b \in Bookings : TakeBooking(b)
  BY <1>2, TakingSingle
<1>3. CASE \E n \in Nodes, b \in Bookings : ParkFromQueue(n, b) \/ ClearFailed(n, b)
  BY <1>1, <1>3, ParkingSingle DEF ClearFailed
<1>4. CASE \E n \in Nodes : ParkInFailed(n) \/ RefreshCache(n)
  BY <1>1, <1>4 DEF ParkInFailed, RefreshCache
<1>5. CASE \E n \in Nodes : PassStep(n) \/ Crash(n)
  BY <1>5, BeginningSingle, SendingSingle, AnswersSingle, EndingSingle, CrashingSingle
     DEF PassStep
<1>6. CASE \E n \in Nodes : \E r \in Runs[n] : SyncStep(n, r)
  <2>1. PICK n \in Nodes : \E r \in Runs[n] : SyncStep(n, r)
    BY <1>6
  <2>2. PICK r \in Runs[n] : SyncStep(n, r)
    BY <2>1
  <2>3. CASE Import(n, r)
    BY <2>3, ImportingSingle
  <2>4. CASE StartSync(n, r) \/ AskSummary(n, r) \/ Compare(n, r) \/ AskItems(n, r)
             \/ PeerFails(n, r) \/ FinishSync(n, r)
    BY <1>1, <2>4 DEF StartSync, AskSummary, Compare, AskItems, PeerFails, FinishSync
  <2> QED  BY <2>2, <2>3, <2>4 DEF SyncStep
<1>7. CASE UNCHANGED vars
  BY <1>1, <1>7 DEF vars
<1> QED  BY <1>2, <1>3, <1>4, <1>5, <1>6, <1>7 DEF Next

\* No desk holds two rows of one operation, although its reconciliations and
\* its replay pass add rows between each other's awaits (syncMeshQueues,
\* absorbNewDiskQueueArrivals).
THEOREM OneRowEach == Spec => []NoDuplicateRows
<1>1. SingleRows => NoDuplicateRows
  BY DEF SingleRows, NoDuplicateRows
<1>2. Spec => []SingleRows
  BY InitSingle, StepSingle, InvariantHolds, PTL DEF Spec
<1> QED  BY <1>1, <1>2, PTL
=============================================================================
