------------------------------ MODULE TabSaves ------------------------------
(***************************************************************************)
(* An open check of the bar, held (saved) again and again on one terminal. *)
(* Every offline hold has the same queue identity: it replaces the payload *)
(* of the queued row.  A replay pass works on its own copy of that row, an *)
(* online hold goes past the queue, and the server compares the version    *)
(* that each save expects with the one it has.                             *)
(***************************************************************************)
EXTENDS Naturals

CONSTANTS MaxHolds,   \* bound: holds of the check
          MaxCrashes  \* bound: crashes of the desktop process

ASSUME BoundsAssumption == MaxHolds \in Nat /\ MaxCrashes \in Nat

VARIABLES
  online,           \* state.isOnline
  local,            \* tab_version of the check in the local cache, 0: none
  direct, before,   \* the online save whose answer is awaited; local before it
  queue, failed,    \* the check's row in sync-queue.json, in sync-failed.json
  committed,        \* the queued row is marked committed
  pass,             \* where the replay pass stands
  mem, done, dead,  \* its copy of the row; settled in it; dead-lettered in it
  wire,             \* requests given up, which the server may still execute
  server,           \* the check on the server: which hold, which tab_version
  held, promised,   \* history: holds so far; the last one called saved
  reached,          \* history: the holds that the server has applied
  excused,          \* history: cleared, or put in the queue behind the pass
  crashes

files == <<queue, failed, committed>>
replay == <<pass, mem, done, dead>>
till == <<online, local, direct, before>>
remote == <<wire, server, reached>>
history == <<held, promised, excused, crashes>>
vars == <<files, replay, till, remote, history>>

\* expects 0 is expected_version null; hold 0 is no save.
Save == [hold : Nat, expects : Nat]
NoSave == [hold |-> 0, expects |-> 0]

Init ==
  /\ online \in BOOLEAN /\ local = 0 /\ direct = NoSave /\ before = 0
  /\ queue = NoSave /\ failed = NoSave /\ committed = FALSE
  /\ pass = "idle" /\ mem = NoSave /\ done = FALSE /\ dead = NoSave
  /\ wire = {} /\ server = [hold |-> 0, version |-> 0] /\ reached = {}
  /\ held = 0 /\ promised = 0 /\ excused = {} /\ crashes = 0

-----------------------------------------------------------------------------
(* The server: upsert_pos_tab *)

\* Mutant: the expected version is not compared.
AcceptsAny(s) == server.version = 0 \/ s.expects > 0

\* A check that the server does not have is inserted whatever was expected.
Accepts(s) == server.version = 0 \/ s.expects = server.version

Execute(s) ==
  /\ Accepts(s)
  /\ server' = [hold |-> s.hold, version |-> server.version + 1]
  /\ reached' = reached \cup {s.hold}

\* A request that got no answer may still be executed.
GivenUp(s) == wire' = wire \cup ({s} \ {NoSave})

\* The server takes up a request that the client has given up.
LateRequest(s) ==
  /\ s \in wire /\ wire' = wire \ {s}
  /\ Execute(s) \/ (~Accepts(s) /\ UNCHANGED <<server, reached>>)
  /\ UNCHANGED <<files, replay, till, history>>

-----------------------------------------------------------------------------
(* savePosTab *)

\* The version of the row that is written to the cache: a new check gets 1.
CachedVersion == IF local = 0 THEN 1 ELSE local

\* The next hold; a check that is in no cache would be another check.
Hold ==
  /\ direct = NoSave /\ held < MaxHolds
  /\ local = 0 => held = 0
  /\ held' = held + 1
  /\ local' = CachedVersion
ThisSave == [hold |-> held + 1, expects |-> local]

\* The pass will write the queue without looking at the row on disk.
Overlooked == pass \in {"loop", "rpc"} /\ (mem # NoSave \/ done)
Excuse(hold, lost) == excused' = IF lost THEN excused \cup {hold} ELSE excused

\* Mutant: a row with this identity is left as it is.
SkipPush == IF queue = NoSave THEN ThisSave ELSE queue

\* The queued row gets the new payload in place, or a row is pushed.
Requeued == ThisSave

\* Offline.  The row keeps its state, "committed" too.
HoldOffline ==
  /\ ~online /\ Hold
  /\ queue' = Requeued
  /\ promised' = held + 1
  /\ Excuse(held + 1, Overlooked \/ committed)
  /\ UNCHANGED <<failed, committed, replay, online, direct, before, remote, crashes>>

\* Online: the local row first, then the request; the queue is not looked at.
HoldOnline ==
  /\ online /\ Hold
  /\ direct' = ThisSave /\ before' = local
  /\ UNCHANGED <<files, replay, online, remote, promised, excused, crashes>>

Answered == direct # NoSave /\ direct' = NoSave /\ before' = 0

HoldConfirmed ==
  /\ Answered /\ Execute(direct)
  /\ local' = server.version + 1
  /\ promised' = direct.hold
  /\ UNCHANGED <<files, replay, online, wire, held, excused, crashes>>

\* restoreLocalTabAfterRejectedSave: refused by the server, or no answer.
HoldRejected ==
  /\ Answered
  /\ \E late \in {NoSave, direct} : GivenUp(late)
  /\ local' = before
  /\ UNCHANGED <<files, replay, online, server, reached, history>>

\* getPosTabs: the server's row replaces the cached one.
RefreshTabs ==
  /\ online /\ server.version > 0
  /\ local' = server.version
  /\ UNCHANGED <<files, replay, online, direct, before, remote, history>>

-----------------------------------------------------------------------------
(* The failed file: retrySyncItems, clearSyncFailed, the automatic sweep *)

\* The process dies; what it had sent is still on its way.
Crash(sent) ==
  /\ crashes < MaxCrashes /\ crashes' = crashes + 1
  /\ pass' = "idle" /\ mem' = NoSave /\ done' = FALSE /\ dead' = NoSave
  /\ direct' = NoSave /\ before' = 0
  /\ wire' = wire \cup ({sent, direct} \ {NoSave})

\* A queued row with the same identity stands, and the failed copy goes.  The
\* queue is written first: a crash leaves both.
Requeue ==
  /\ failed # NoSave
  /\ queue' = IF queue = NoSave THEN failed ELSE queue
  /\ Excuse(failed.hold, Overlooked)
  /\ \/ failed' = NoSave /\ UNCHANGED <<replay, direct, before, wire, crashes>>
     \/ failed' = failed /\ Crash(IF pass = "rpc" THEN mem ELSE NoSave)
  /\ UNCHANGED <<committed, online, local, server, reached, held, promised>>

ClearFailed ==
  /\ failed # NoSave /\ failed' = NoSave
  /\ Excuse(failed.hold, TRUE)
  /\ UNCHANGED <<queue, committed, replay, till, remote, held, promised, crashes>>

-----------------------------------------------------------------------------
(* The replay pass: _runSyncQueue, for this row among others *)

\* Normalisation: a committed row is dropped, and the queue written without it.
StartPass ==
  /\ online /\ pass = "idle"
  /\ pass' = "loop"
  /\ mem' = IF committed THEN NoSave ELSE queue
  /\ queue' = IF committed THEN NoSave ELSE queue
  /\ committed' = FALSE
  /\ UNCHANGED <<failed, done, dead, till, remote, history>>

\* Mutant: a settled identity is taken up again from the disk.
AbsorbSettled == IF mem # NoSave THEN mem ELSE queue

\* writeReplayQueue: the pass's copy, or a row that is new to it.
Absorbed == IF mem # NoSave \/ done THEN mem ELSE queue

\* Other rows are replayed, with a write of the whole queue.
ReplayOthers ==
  /\ pass = "loop"
  /\ mem' = Absorbed /\ queue' = Absorbed
  /\ UNCHANGED <<failed, committed, pass, done, dead, till, remote, history>>

Dispatch ==
  /\ pass = "loop" /\ online /\ mem # NoSave
  /\ pass' = "rpc" /\ queue' = mem
  /\ UNCHANGED <<failed, committed, mem, done, dead, till, remote, history>>

\* "success": marked committed, then removed; a crash leaves the mark.
Succeed ==
  /\ pass = "rpc" /\ Execute(mem)
  /\ \/ /\ queue' = NoSave /\ committed' = committed
        /\ pass' = "loop" /\ mem' = NoSave /\ done' = TRUE
        /\ UNCHANGED <<dead, direct, before, wire, crashes>>
     \/ queue' = mem /\ committed' = TRUE /\ Crash(NoSave)
  /\ UNCHANGED <<failed, online, local, held, promised, excused>>

\* Kept for another attempt, in the pass's memory and on disk.
KeepQueued ==
  /\ queue' = mem /\ pass' = "loop"
  /\ UNCHANGED <<failed, mem, done, dead, direct, before, crashes>>

Parked ==
  /\ pass' = "loop" /\ mem' = NoSave /\ done' = TRUE /\ dead' = mem
  /\ UNCHANGED <<direct, before, crashes>>

\* persistDeadLetterIncrementally, then the queue without the row.
DeadLetter(late) ==
  \/ failed' = mem /\ queue' = NoSave /\ Parked /\ GivenUp(late)
  \/ failed' = mem /\ queue' = queue /\ Crash(late)

\* Refused, or no answer came and the request may be late.  A version conflict
\* goes to review at once, anything else as soon as the attempts are spent.
Fail ==
  /\ pass = "rpc"
  /\ \E late \in {NoSave, mem} :
       \/ DeadLetter(late)
       \/ (late = mem \/ Accepts(mem)) /\ KeepQueued /\ GivenUp(late)
  /\ UNCHANGED <<committed, online, local, server, reached, held, promised, excused>>

\* Nothing is left to try, or the link is gone: the last write of the queue.
LastWrite ==
  /\ pass = "loop" /\ pass' = "refresh"
  /\ queue' = Absorbed /\ mem' = NoSave /\ done' = FALSE
  /\ UNCHANGED <<failed, committed, dead, till, remote, history>>

\* The run-end flush of the dead letters, after the caches are refreshed.
FinishPass ==
  /\ pass = "refresh" /\ pass' = "idle"
  /\ failed' = IF dead = NoSave THEN failed ELSE dead
  /\ dead' = NoSave
  /\ UNCHANGED <<queue, committed, mem, done, till, remote, history>>

-----------------------------------------------------------------------------
LinkChanges ==
  /\ online' = ~online
  /\ UNCHANGED <<local, direct, before, files, replay, remote, history>>

ProcessDies ==
  /\ Crash(IF pass = "rpc" THEN mem ELSE NoSave)
  /\ UNCHANGED <<files, online, local, server, reached, held, promised, excused>>

SaveTab == HoldOffline \/ HoldOnline \/ HoldConfirmed \/ HoldRejected \/ RefreshTabs
Review == Requeue \/ ClearFailed
Replay == StartPass \/ ReplayOthers \/ Dispatch \/ Succeed \/ Fail \/ LastWrite \/ FinishPass

Next ==
  \/ SaveTab \/ Review \/ Replay \/ LinkChanges \/ ProcessDies
  \/ \E s \in wire : LateRequest(s)

Spec == Init /\ [][Next]_vars

-----------------------------------------------------------------------------
(* Properties *)

TypeOK ==
  /\ online \in BOOLEAN /\ committed \in BOOLEAN /\ done \in BOOLEAN
  /\ local \in Nat /\ before \in Nat /\ crashes \in Nat
  /\ held \in Nat /\ promised \in Nat
  /\ queue \in Save /\ failed \in Save /\ mem \in Save /\ dead \in Save
  /\ direct \in Save /\ wire \subseteq Save
  /\ pass \in {"idle", "loop", "rpc", "refresh"}
  /\ done => mem = NoSave
  /\ server \in [hold : Nat, version : Nat]
  /\ reached \subseteq Nat /\ excused \subseteq Nat

\* The last hold that the operator was told is saved has reached the server or
\* is in one of the two files, whatever is replayed, reviewed or interrupted,
\* unless it was cleared or written behind the back of a pass that had the row
\* (savePosTab, writeReplayQueue, persistDeadLetterIncrementally).
LastHoldKept ==
  \/ promised = 0
  \/ promised \in reached \cup excused
  \/ promised \in {queue.hold, failed.hold}

Overwrites == server'.hold < server.hold

\* Once the check has been updated on the server, no earlier hold replaces a
\* later one: versions the server gave out protect it (upsert_pos_tab).
UpdatedTabGuarded == [][Overwrites => server.version = 1]_vars

\* "Last-writer-wins per tab ... Otherwise later holds would replay stale
\* lines" (savePosTab): a replayed row never replaces a later hold.
LastHoldReplayed ==
  [][pass = "rpc" /\ server'.hold = mem.hold => server.hold <= mem.hold]_vars
=============================================================================
