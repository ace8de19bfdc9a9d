--------------------------- MODULE TabSavesProofs ---------------------------
(***************************************************************************)
(* The last hold of a check is kept, and an updated check is guarded by    *)
(* its version, for any number of holds and crashes.                       *)
(***************************************************************************)
EXTENDS TabSaves, TLAPS

Working == {"loop", "rpc"}

\* What the pass has in hand, and when.
PassShape ==
  /\ pass = "rpc" => mem # NoSave
  /\ mem # NoSave => pass \in Working /\ queue # NoSave
  /\ done => pass = "loop"
  /\ dead # NoSave => pass = "refresh" \/ done
  /\ committed => pass = "idle" /\ queue # NoSave

Unaccounted == promised # 0 /\ promised \notin reached \cup excused

\* A hold that is not accounted for is the row that every copy holds.
LastIsCurrent == Unaccounted =>
  /\ queue # NoSave => queue.hold = promised
  /\ queue = NoSave => failed.hold = promised
  /\ ~committed
  /\ mem # NoSave => mem.hold = promised
  /\ done => failed.hold = promised
  /\ dead # NoSave => dead.hold = promised \/ (pass = "refresh" /\ queue.hold = promised)

KeptInv == TypeOK /\ PassShape /\ LastIsCurrent

-----------------------------------------------------------------------------
LEMMA NoSaveTyped == NoSave \in Save /\ NoSave.hold = 0 /\ NoSave.expects = 0
BY DEF NoSave, Save

LEMMA KeptInit == Init => KeptInv
<1> SUFFICES ASSUME Init PROVE KeptInv
  OBVIOUS
<1>1. online \in BOOLEAN /\ committed \in BOOLEAN /\ done \in BOOLEAN
  BY Zenon DEF Init
<1>2. server \in [hold : Nat, version : Nat]
  BY DEF Init
<1>3. TypeOK
  BY <1>1, <1>2, NoSaveTyped DEF Init, TypeOK
<1>4. PassShape /\ LastIsCurrent
  BY DEF Init, PassShape, LastIsCurrent, Unaccounted
<1> QED BY <1>3, <1>4 DEF KeptInv

\* What the server executes is a save, and so is what a crash leaves behind.
LEMMA ExecuteTyped ==
  ASSUME TypeOK, NEW s \in Save, Execute(s)
  PROVE  server' \in [hold : Nat, version : Nat] /\ reached' \subseteq Nat
<1>1. s.hold \in Nat
  BY DEF Save
<1>2. server.version + 1 \in Nat
  BY DEF TypeOK
<1>3. server' = [hold |-> s.hold, version |-> server.version + 1]
  BY DEF Execute
<1>4. server' \in [hold : Nat, version : Nat]
  BY <1>1, <1>2, <1>3
<1>5. reached' \subseteq Nat
  BY <1>1 DEF Execute, TypeOK
<1> QED BY <1>4, <1>5

LEMMA CrashTyped ==
  ASSUME TypeOK, NEW s \in Save, Crash(s)
  PROVE  /\ wire' \subseteq Save /\ crashes' \in Nat
         /\ done' \in BOOLEAN /\ ~done'
         /\ before' \in Nat /\ mem' \in Save /\ dead' \in Save /\ direct' \in Save
         /\ mem' = NoSave /\ dead' = NoSave /\ pass' = "idle"
<1>1. done' \in BOOLEAN /\ ~done'
  BY Zenon DEF Crash
<1>2. wire' \subseteq Save
  BY DEF Crash, TypeOK
<1> QED BY <1>1, <1>2, NoSaveTyped DEF Crash, TypeOK

LEMMA KeptImplies == KeptInv => LastHoldKept
BY DEF KeptInv, LastIsCurrent, Unaccounted, LastHoldKept

LEMMA KeptSaveTab == KeptInv /\ SaveTab => KeptInv'
<1> SUFFICES ASSUME KeptInv, SaveTab PROVE KeptInv'
  OBVIOUS
<1> USE NoSaveTyped DEF KeptInv, TypeOK, PassShape, LastIsCurrent, Unaccounted
<1>1. CASE HoldOffline
  <2>1. ThisSave \in Save /\ ThisSave.hold = held + 1 /\ ThisSave # NoSave
    BY DEF ThisSave, Save, NoSave
  <2>2. TypeOK'
    BY <1>1, <2>1 DEF HoldOffline, Hold, CachedVersion, Requeued, Excuse, replay, remote
  <2>3. PassShape'
    BY <1>1, <2>1 DEF HoldOffline, Requeued, replay
  <2>4. LastIsCurrent'
    <3>1. CASE Overlooked \/ committed
      BY <1>1, <3>1 DEF HoldOffline, Excuse
    <3>2. CASE ~(Overlooked \/ committed)
      BY <1>1, <2>1, <3>2 DEF HoldOffline, Requeued, Overlooked, replay, Working
    <3> QED BY <3>1, <3>2
  <2> QED BY <2>2, <2>3, <2>4
<1>2. CASE HoldOnline
  <2>1. ThisSave \in Save
    BY DEF ThisSave, Save
  <2> QED
    BY <1>2, <2>1 DEF HoldOnline, Hold, CachedVersion, files, replay, remote
<1>3. CASE HoldConfirmed
  <2>1. Execute(direct) /\ direct \in Save
    BY <1>3 DEF HoldConfirmed
  <2>2. direct.hold \in Nat /\ local' \in Nat
    BY <1>3, <2>1 DEF HoldConfirmed, Save
  <2>3. TypeOK'
    BY <1>3, <2>1, <2>2, ExecuteTyped DEF HoldConfirmed, Answered, files, replay
  <2>4. PassShape'
    BY <1>3 DEF HoldConfirmed, files, replay
  <2>5. ~Unaccounted'
    BY <1>3 DEF HoldConfirmed, Execute
  <2> QED BY <2>3, <2>4, <2>5
<1>4. CASE HoldRejected
  BY <1>4 DEF HoldRejected, Answered, GivenUp, files, replay, history
<1>5. CASE RefreshTabs
  BY <1>5 DEF RefreshTabs, files, replay, remote, history
<1> QED BY <1>1, <1>2, <1>3, <1>4, <1>5 DEF SaveTab

LEMMA KeptReview == KeptInv /\ Review => KeptInv'
<1> SUFFICES ASSUME KeptInv, Review PROVE KeptInv'
  OBVIOUS
<1> USE NoSaveTyped DEF KeptInv, TypeOK, PassShape, LastIsCurrent, Unaccounted
<1>1. CASE Requeue
  <2>1. promised' = promised /\ reached' = reached /\ excused \subseteq excused'
    BY <1>1 DEF Requeue, Excuse
  <2>2. CASE failed' = NoSave /\ UNCHANGED <<replay, direct, before, wire, crashes>>
    <3>1. TypeOK'
      BY <1>1, <2>2 DEF Requeue, Excuse, replay, Save
    <3>2. PassShape'
      BY <1>1, <2>2 DEF Requeue, replay
    <3>3. LastIsCurrent'
      <4>1. CASE Overlooked
        BY <1>1, <2>1, <2>2, <4>1 DEF Requeue, Excuse, replay, Overlooked, Working
      <4>2. CASE ~Overlooked
        BY <1>1, <2>1, <2>2, <4>2 DEF Requeue, Excuse, replay, Overlooked, Working
      <4> QED BY <4>1, <4>2
    <3> QED BY <3>1, <3>2, <3>3
  <2>3. CASE failed' = failed /\ Crash(IF pass = "rpc" THEN mem ELSE NoSave)
    <3> DEFINE sent == IF pass = "rpc" THEN mem ELSE NoSave
    <3>1. sent \in Save /\ Crash(sent)
      BY <2>3
    <3>2. excused' \subseteq Nat /\ queue' \in Save
      BY <1>1 DEF Requeue, Excuse, Save
    <3> HIDE DEF sent
    <3>3. TypeOK'
      BY <1>1, <2>3, <3>1, <3>2, CrashTyped DEF Requeue
    <3>4. PassShape' /\ LastIsCurrent'
      BY <1>1, <2>1, <2>3, <3>1, CrashTyped DEF Requeue
    <3> QED BY <3>3, <3>4
  <2> QED BY <1>1, <2>2, <2>3 DEF Requeue
<1>2. CASE ClearFailed
  <2>1. TypeOK'
    BY <1>2 DEF ClearFailed, Excuse, replay, till, remote, Save
  <2> QED
    BY <1>2, <2>1 DEF ClearFailed, Excuse, replay, remote
<1> QED BY <1>1, <1>2 DEF Review

LEMMA KeptReplay == KeptInv /\ Replay => KeptInv'
<1> SUFFICES ASSUME KeptInv, Replay PROVE KeptInv'
  OBVIOUS
<1> USE NoSaveTyped DEF KeptInv, TypeOK, PassShape, LastIsCurrent, Unaccounted
<1>1. CASE StartPass
  BY <1>1 DEF StartPass, till, remote, history, Working
<1>2. CASE ReplayOthers
  BY <1>2 DEF ReplayOthers, Absorbed, till, remote, history, Working
<1>3. CASE Dispatch
  BY <1>3 DEF Dispatch, till, remote, history, Working
<1>4. CASE Succeed
  <2>1. /\ promised' = promised /\ excused' = excused
        /\ reached' = reached \cup {mem.hold}
    BY <1>4 DEF Succeed, Execute
  <2>2. TypeOK'
    <3>1. Execute(mem) /\ mem \in Save
      BY <1>4 DEF Succeed
    <3>2. CASE queue' = mem /\ committed' = TRUE /\ Crash(NoSave)
      BY <1>4, <3>1, <3>2, ExecuteTyped, CrashTyped DEF Succeed
    <3>3. CASE ~(queue' = mem /\ committed' = TRUE /\ Crash(NoSave))
      BY <1>4, <3>1, <3>3, ExecuteTyped DEF Succeed
    <3> QED BY <3>2, <3>3
  <2>3. PassShape'
    BY <1>4 DEF Succeed, Crash, Working
  <2>4. ~Unaccounted'
    BY <1>4, <2>1 DEF Succeed
  <2> QED BY <2>2, <2>3, <2>4
<1>5. CASE Fail
  <2>1. PICK late \in {NoSave, mem} :
          DeadLetter(late) \/ (KeepQueued /\ GivenUp(late))
    BY <1>5 DEF Fail
  <2>2. UNCHANGED <<committed, online, local, server, reached, held, promised, excused>>
        /\ pass = "rpc"
    BY <1>5 DEF Fail
  <2>3. CASE KeepQueued /\ GivenUp(late)
    BY <2>1, <2>2, <2>3 DEF KeepQueued, GivenUp, Working
  <2>4. CASE DeadLetter(late)
    <3>1. late \in Save
      OBVIOUS
    <3>2. CASE queue' = NoSave /\ Parked /\ GivenUp(late)
      BY <2>2, <2>4, <3>1, <3>2 DEF DeadLetter, Parked, GivenUp, Working
    <3>3. CASE failed' = mem /\ queue' = queue /\ Crash(late)
      BY <2>2, <3>1, <3>3, CrashTyped DEF Working
    <3> QED BY <2>4, <3>2, <3>3 DEF DeadLetter
  <2> QED BY <2>1, <2>3, <2>4
<1>6. CASE LastWrite
  BY <1>6 DEF LastWrite, Absorbed, till, remote, history, Working
<1>7. CASE FinishPass
  BY <1>7 DEF FinishPass, till, remote, history, Working
<1> QED BY <1>1, <1>2, <1>3, <1>4, <1>5, <1>6, <1>7 DEF Replay

LEMMA KeptNext == KeptInv /\ [Next]_vars => KeptInv'
<1> SUFFICES ASSUME KeptInv, [Next]_vars PROVE KeptInv'
  OBVIOUS
<1>1. CASE SaveTab BY <1>1, KeptSaveTab
<1>2. CASE Review BY <1>2, KeptReview
<1>3. CASE Replay BY <1>3, KeptReplay
<1> USE NoSaveTyped DEF KeptInv, TypeOK, PassShape, LastIsCurrent, Unaccounted
<1>4. CASE LinkChanges
  BY <1>4 DEF LinkChanges, files, replay, remote, history
<1>5. CASE ProcessDies
  <2> DEFINE sent == IF pass = "rpc" THEN mem ELSE NoSave
  <2>1. sent \in Save /\ Crash(sent)
    BY <1>5 DEF ProcessDies
  <2> HIDE DEF sent
  <2> QED BY <1>5, <2>1, CrashTyped DEF ProcessDies, files, Working
<1>6. ASSUME NEW s \in wire, LateRequest(s) PROVE KeptInv'
  <2>1. s \in Save /\ wire' \subseteq Save
    BY <1>6 DEF LateRequest
  <2>2. CASE Execute(s)
    <3>1. reached \subseteq reached'
      BY <2>2 DEF Execute
    <3> QED BY <1>6, <2>1, <2>2, <3>1, ExecuteTyped DEF LateRequest, files, replay, till, history
  <2>3. CASE UNCHANGED <<server, reached>>
    BY <1>6, <2>1, <2>3 DEF LateRequest, files, replay, till, history
  <2> QED BY <1>6, <2>2, <2>3 DEF LateRequest
<1>7. CASE UNCHANGED vars
  BY <1>7 DEF vars, files, replay, till, remote, history
<1> QED BY <1>1, <1>2, <1>3, <1>4, <1>5, <1>6, <1>7 DEF Next

LEMMA KeptAlways == Spec => []KeptInv
BY KeptInit, KeptNext, PTL DEF Spec

\* Type correctness, in every state.
THEOREM TypeCorrect == Spec => []TypeOK
<1>1. KeptInv => TypeOK BY DEF KeptInv
<1> QED BY <1>1, KeptAlways, PTL

\* The last hold called saved has reached the server or is in a file, but for
\* the exceptions named (savePosTab, _runSyncQueue).
THEOREM LastHold == Spec => []LastHoldKept
BY KeptAlways, KeptImplies, PTL
-----------------------------------------------------------------------------
(* Versions *)

\* A save that expects a version given out by the server comes before the
\* server's next version, and after the hold that has this version.
Guarded(s) ==
  /\ s.hold <= held
  /\ s.expects >= 2 => /\ s.expects <= server.version
                       /\ s.expects = server.version => server.hold < s.hold

VersionsOK ==
  /\ server.hold <= held
  /\ server.version = 0 => server.hold = 0
  /\ local >= 2 => local <= server.version
  /\ before >= 2 => before <= server.version
  /\ \A s \in {queue, failed, mem, dead, direct} \cup wire : Guarded(s)

LEMMA NoSaveGuarded == TypeOK => Guarded(NoSave)
BY NoSaveTyped DEF TypeOK, Guarded

\* What the server executes makes every other save that expects a version old.
LEMMA ExecuteGuards ==
  ASSUME TypeOK, VersionsOK, NEW s \in Save, Guarded(s), Execute(s), UNCHANGED held
  PROVE  /\ server'.hold <= held' /\ server'.version = server.version + 1
         /\ server'.version # 0
         /\ \A r \in Save : Guarded(r) => Guarded(r)'
<1>1. server'.hold = s.hold /\ server'.version = server.version + 1
  BY DEF Execute
<1> QED BY <1>1 DEF Guarded, TypeOK, Save

\* Nothing but the server's version matters to a save, and holds grow.
LEMMA StillGuarded ==
  ASSUME TypeOK, TypeOK', UNCHANGED server, held <= held', NEW s \in Save, Guarded(s)
  PROVE  Guarded(s)'
BY DEF Guarded, TypeOK, Save

\* A step after which every save was there before, or is a hold made from the
\* local copy, keeps the versions in order.
LEMMA Moves ==
  ASSUME TypeOK, TypeOK', VersionsOK, UNCHANGED server, UNCHANGED held,
         {queue', failed', mem', dead', direct'} \cup wire'
           \subseteq {queue, failed, mem, dead, direct, NoSave} \cup wire,
         local' \in {local, before, server.version}, before' \in {before, local, 0}
  PROVE  VersionsOK'
<1>1. \A s \in {queue', failed', mem', dead', direct'} \cup wire' : Guarded(s)'
  <2> SUFFICES ASSUME NEW s \in {queue', failed', mem', dead', direct'} \cup wire'
               PROVE  Guarded(s)'
    OBVIOUS
  <2>1. s \in Save /\ Guarded(s)
    BY NoSaveTyped, NoSaveGuarded DEF VersionsOK, TypeOK
  <2> QED BY <2>1, StillGuarded DEF TypeOK
<1> QED BY <1>1 DEF VersionsOK, TypeOK

\* The same for a step in which the server executes one of them.
LEMMA Executions ==
  ASSUME TypeOK, TypeOK', VersionsOK, UNCHANGED held,
         NEW x \in {queue, failed, mem, dead, direct} \cup wire, Execute(x),
         {queue', failed', mem', dead', direct'} \cup wire'
           \subseteq {queue, failed, mem, dead, direct, NoSave} \cup wire,
         local' \in {local, server'.version}, before' \in {before, 0}
  PROVE  VersionsOK'
<1>1. x \in Save /\ Guarded(x)
  BY DEF VersionsOK, TypeOK
<1>2. /\ server'.hold <= held' /\ server'.version = server.version + 1
      /\ server'.version # 0
      /\ \A r \in Save : Guarded(r) => Guarded(r)'
  BY <1>1, ExecuteGuards
<1>3. \A s \in {queue', failed', mem', dead', direct'} \cup wire' : Guarded(s)'
  BY <1>2, NoSaveTyped, NoSaveGuarded DEF VersionsOK, TypeOK
<1> QED BY <1>2, <1>3 DEF VersionsOK, TypeOK

LEMMA VersionsSaveTab == KeptInv /\ KeptInv' /\ VersionsOK /\ SaveTab => VersionsOK'
<1> SUFFICES ASSUME TypeOK, TypeOK', VersionsOK, SaveTab PROVE VersionsOK'
  BY DEF KeptInv
<1>1. ASSUME NEW t, t = ThisSave, Hold,
             {queue', failed', mem', dead', direct'} \cup wire'
               \subseteq {queue, failed, mem, dead, direct, t} \cup wire,
             UNCHANGED server, before' \in {before, local}
      PROVE  VersionsOK'
  <2>1. held' = held + 1 /\ (local' = local \/ local' = 1)
    BY <1>1 DEF Hold, CachedVersion
  <2>2. t \in Save /\ t.hold = held + 1 /\ t.expects = local
    BY <1>1 DEF ThisSave, Save, TypeOK
  <2>3. Guarded(t)'
    BY <1>1, <2>1, <2>2 DEF Guarded, VersionsOK, TypeOK
  <2>4. \A s \in {queue, failed, mem, dead, direct} \cup wire : Guarded(s)'
    <3> SUFFICES ASSUME NEW s \in {queue, failed, mem, dead, direct} \cup wire
                 PROVE  Guarded(s)'
      OBVIOUS
    <3>1. s \in Save /\ Guarded(s) /\ held <= held'
      BY <2>1 DEF VersionsOK, TypeOK
    <3> QED BY <1>1, <3>1, StillGuarded
  <2>5. \A s \in {queue', failed', mem', dead', direct'} \cup wire' : Guarded(s)'
    BY <1>1, <2>3, <2>4
  <2> QED BY <1>1, <2>1, <2>5 DEF VersionsOK, TypeOK
<1>2. CASE HoldOffline
  BY <1>1, <1>2 DEF HoldOffline, Requeued, replay, remote
<1>3. CASE HoldOnline
  BY <1>1, <1>3 DEF HoldOnline, files, replay, remote
<1>4. CASE HoldConfirmed
  <2>1. server'.version = server.version + 1
    BY <1>4 DEF HoldConfirmed, Execute
  <2> QED BY <1>4, <2>1, Executions DEF HoldConfirmed, Answered, files, replay
<1>5. CASE HoldRejected
  BY <1>5, Moves DEF HoldRejected, Answered, GivenUp, files, replay, history
<1>6. CASE RefreshTabs
  BY <1>6, Moves DEF RefreshTabs, files, replay, remote, history
<1> QED BY <1>2, <1>3, <1>4, <1>5, <1>6 DEF SaveTab

LEMMA VersionsReplay == KeptInv /\ KeptInv' /\ VersionsOK /\ Replay => VersionsOK'
<1> SUFFICES ASSUME TypeOK, TypeOK', VersionsOK, Replay PROVE VersionsOK'
  BY DEF KeptInv
<1>1. CASE StartPass
  BY <1>1, Moves DEF StartPass, till, remote, history
<1>2. CASE ReplayOthers
  BY <1>2, Moves DEF ReplayOthers, Absorbed, till, remote, history
<1>3. CASE Dispatch
  BY <1>3, Moves DEF Dispatch, till, remote, history
<1>4. CASE Succeed
  BY <1>4, Executions DEF Succeed, Crash
<1>5. CASE Fail
  <2>1. PICK late \in {NoSave, mem} :
          DeadLetter(late) \/ (KeepQueued /\ GivenUp(late))
    BY <1>5 DEF Fail
  <2>2. UNCHANGED <<local, server, held>>
    BY <1>5 DEF Fail
  <2>3. CASE KeepQueued /\ GivenUp(late)
    BY <2>2, <2>3, Moves DEF KeepQueued, GivenUp
  <2>4. CASE DeadLetter(late)
    BY <2>2, <2>4, Moves DEF DeadLetter, Parked, GivenUp, Crash
  <2> QED BY <2>1, <2>3, <2>4
<1>6. CASE LastWrite
  BY <1>6, Moves DEF LastWrite, Absorbed, till, remote, history
<1>7. CASE FinishPass
  BY <1>7, Moves DEF FinishPass, till, remote, history
<1> QED BY <1>1, <1>2, <1>3, <1>4, <1>5, <1>6, <1>7 DEF Replay

LEMMA VersionsNext ==
  KeptInv /\ KeptInv' /\ VersionsOK /\ [Next]_vars => VersionsOK'
<1> SUFFICES ASSUME KeptInv, KeptInv', VersionsOK, [Next]_vars PROVE VersionsOK'
  OBVIOUS
<1> TypeOK /\ TypeOK'
  BY DEF KeptInv
<1>1. CASE SaveTab BY <1>1, VersionsSaveTab
<1>2. CASE Replay BY <1>2, VersionsReplay
<1>3. CASE Requeue
  BY <1>3, Moves DEF Requeue, Crash, replay
<1>4. CASE ClearFailed
  BY <1>4, Moves DEF ClearFailed, replay, till, remote
<1>5. CASE LinkChanges
  BY <1>5, Moves DEF LinkChanges, files, replay, remote, history
<1>6. CASE ProcessDies
  BY <1>6, Moves DEF ProcessDies, Crash, files
<1>7. ASSUME NEW s \in wire, LateRequest(s) PROVE VersionsOK'
  <2>1. CASE Execute(s)
    BY <1>7, <2>1, Executions DEF LateRequest, files, replay, till, history
  <2>2. CASE UNCHANGED <<server, reached>>
    BY <1>7, <2>2, Moves DEF LateRequest, files, replay, till, history
  <2> QED BY <1>7, <2>1, <2>2 DEF LateRequest
<1>8. CASE UNCHANGED vars
  BY <1>8, Moves DEF vars, files, replay, till, remote, history
<1> QED BY <1>1, <1>2, <1>3, <1>4, <1>5, <1>6, <1>7, <1>8 DEF Next, Review

\* Only an executed save changes the check on the server.
LEMMA OnlyExecuted == [Next]_vars => UNCHANGED server \/ \E s \in wire \cup {mem, direct} : Execute(s)
BY DEF Next, SaveTab, Review, Replay, HoldOffline, HoldOnline, HoldConfirmed,
   HoldRejected, RefreshTabs, Requeue, ClearFailed, StartPass, ReplayOthers,
   Dispatch, Succeed, Fail, LastWrite, FinishPass, LinkChanges, ProcessDies,
   LateRequest, remote, vars

\* The version that the server gave out keeps an earlier hold from replacing a
\* later one, once the check has been updated (upsert_pos_tab).
THEOREM VersionGuard == Spec => UpdatedTabGuarded
<1>1. Init => VersionsOK
  <2> SUFFICES ASSUME Init PROVE VersionsOK
    OBVIOUS
  <2>1. Guarded(NoSave)
    BY KeptInit, NoSaveGuarded DEF KeptInv
  <2> QED BY <2>1 DEF Init, VersionsOK
<1>2. TypeOK /\ VersionsOK /\ [Next]_vars => [Overwrites => server.version = 1]_vars
  <2> SUFFICES ASSUME TypeOK, VersionsOK, [Next]_vars, Overwrites
               PROVE  server.version = 1
    OBVIOUS
  <2>1. PICK s \in wire \cup {mem, direct} : Execute(s)
    BY OnlyExecuted DEF Overwrites, TypeOK
  <2>2. s \in Save /\ Guarded(s) /\ server'.hold = s.hold /\ Accepts(s)
    BY <2>1 DEF Execute, VersionsOK, TypeOK
  <2> QED BY <2>2 DEF Accepts, Guarded, Overwrites, VersionsOK, TypeOK, Save
<1>3. KeptInv => TypeOK
  BY DEF KeptInv
<1> QED BY <1>1, <1>2, <1>3, KeptAlways, VersionsNext, PTL DEF Spec, UpdatedTabGuarded
=============================================================================
