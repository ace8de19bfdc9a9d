------------------------- MODULE DurableFileProofs --------------------------
(***************************************************************************)
(* Type correctness of the file protocol, the invariant behind its         *)
(* recovery, what recovery keeps, and that the protocol implements the     *)
(* atomic file: for every set of values and any number of crashes, failing *)
(* calls and persistent faults.                                            *)
(***************************************************************************)
EXTENDS DurableFile, TLAPS

\* A call that writes knows what it writes, and for whom.
LEMMA CallsStep ==
  ASSUME TypeOK, CallsMatch, [Next]_vars
  PROVE  CallsMatch'
<1> USE EmptyAssumption, MarkersAssumption
    DEF TypeOK, CallsMatch, Leave, Between
<1>1. ASSUME NEW v \in Values, Write(v) PROVE CallsMatch'
  BY <1>1 DEF Write
<1>2. CASE OpenTmp \/ FillTmp \/ SyncTmp
  BY <1>2 DEF OpenTmp, FillTmp, SyncTmp
<1>3. CASE TmpFails
  BY <1>3 DEF TmpFails, Throw
<1>4. CASE Rename \/ CopyEnds
  BY <1>4 DEF Rename, CopyEnds, Answer
<1>5. CASE CopyStarts
  BY <1>5 DEF CopyStarts
<1>6. CASE CopyRefused \/ CopyStops
  BY <1>6 DEF CopyRefused, CopyStops, NextTry, Answer, Throw
<1>7. CASE Promote \/ DiscardTmp \/ ReadMain
  BY <1>7 DEF Promote, DiscardTmp, ReadMain
<1>8. CASE Quarantine
  BY <1>8 DEF Quarantine
<1>9. CASE Crash \/ Damage
  BY <1>9 DEF Crash, Damage
<1>10. CASE UNCHANGED vars
  BY <1>10 DEF vars
<1> QED BY <1>1, <1>2, <1>3, <1>4, <1>5, <1>6, <1>7, <1>8, <1>9, <1>10 DEF Next

\* Types are preserved, given that a call that writes knows what.
LEMMA TypeStep ==
  ASSUME TypeOK, CallsMatch, [Next]_vars
  PROVE  TypeOK'
<1>0. "replace" \in Faults /\ "read" \in Faults
  BY DEF Faults
<1> USE EmptyAssumption, DamagesAssumption, MarkersAssumption, <1>0
    DEF TypeOK, CallsMatch, Contents, Leave, Between
<1>1. ASSUME NEW v \in Values, Write(v) PROVE TypeOK'
  BY <1>1 DEF Write
<1>2. CASE OpenTmp \/ FillTmp \/ SyncTmp
  BY <1>2 DEF OpenTmp, FillTmp, SyncTmp
<1>3. CASE TmpFails
  BY <1>3 DEF TmpFails, Throw
<1>4. CASE Rename \/ CopyEnds
  <2>1. faults' \subseteq Faults
    BY <1>4 DEF Rename, CopyEnds, Recovered
  <2> QED BY <1>4, <2>1 DEF Rename, CopyEnds, Answer
<1>5. CASE CopyStarts
  BY <1>5 DEF CopyStarts
<1>6. CASE CopyRefused \/ CopyStops
  <2>1. faults' \subseteq Faults
    BY <1>6 DEF CopyRefused, CopyStops, NextTry
  <2> QED BY <1>6, <2>1 DEF CopyRefused, CopyStops, NextTry, Answer, Throw
<1>7. CASE Promote \/ DiscardTmp \/ ReadMain
  <2>1. faults' \subseteq Faults
    BY <1>7 DEF Promote, DiscardTmp, ReadMain, Misread
  <2> QED BY <1>7, <2>1 DEF Promote, DiscardTmp, ReadMain
<1>8. CASE Quarantine
  <2>1. faults' \subseteq Faults
    BY <1>8 DEF Quarantine, Misread
  <2> QED BY <1>8, <2>1 DEF Quarantine
<1>9. CASE Crash \/ Damage
  BY <1>9 DEF Crash, Damage
<1>10. CASE UNCHANGED vars
  BY <1>10 DEF vars
<1> QED BY <1>1, <1>2, <1>3, <1>4, <1>5, <1>6, <1>7, <1>8, <1>9, <1>10 DEF Next

LEMMA InitType == Init => TypeOK /\ CallsMatch
BY MarkersAssumption, DamagesAssumption DEF Init, TypeOK, CallsMatch, Contents

\* Every variable keeps its type, whatever fails (DurableFile!Spec).
THEOREM TypeCorrect == Spec => []TypeOK
<1>1. Spec => [](TypeOK /\ CallsMatch)
  BY InitType, TypeStep, CallsStep, PTL DEF Spec
<1> QED BY <1>1, PTL

-----------------------------------------------------------------------------
\* The invariant of the recovery is preserved, whatever fails.
LEMMA FileStep ==
  ASSUME TypeOK, CallsMatch, FileInvariant, [Next]_vars
  PROVE  FileInvariant'
<1> USE EmptyAssumption, MarkersAssumption
    DEF TypeOK, FileInvariant, GoalInTmp, CallsMatch, TornIsRecoverable, Contents, Leave, Between
<1>1. ASSUME NEW v \in Values, Write(v) PROVE FileInvariant'
  BY <1>1 DEF Write
<1>2. CASE OpenTmp
  BY <1>2 DEF OpenTmp
<1>3. CASE FillTmp \/ SyncTmp
  BY <1>3 DEF FillTmp, SyncTmp
<1>4. CASE TmpFails
  BY <1>4 DEF TmpFails, Throw
<1>5. CASE Rename \/ CopyEnds
  BY <1>5 DEF Rename, CopyEnds, Answer, Recovered
<1>6. CASE CopyStarts
  BY <1>6 DEF CopyStarts
<1>7. CASE CopyRefused \/ CopyStops
  BY <1>7 DEF CopyRefused, CopyStops, NextTry, Answer, Throw
<1>8. CASE Promote
  BY <1>8 DEF Promote
<1>9. CASE DiscardTmp \/ ReadMain
  BY <1>9 DEF DiscardTmp, ReadMain, Misread
<1>10. CASE Quarantine
  BY <1>10 DEF Quarantine, Misread
<1>11. CASE Crash \/ Damage
  BY <1>11, DamagesAssumption DEF Crash, Damage
<1>12. CASE UNCHANGED vars
  BY <1>12 DEF vars
<1> QED BY <1>1, <1>2, <1>3, <1>4, <1>5, <1>6, <1>7, <1>8, <1>9, <1>10, <1>11, <1>12
        DEF Next

LEMMA InitFile == Init => FileInvariant
BY MarkersAssumption, EmptyAssumption
   DEF Init, FileInvariant, GoalInTmp, TornIsRecoverable, Torn, Absent

\* The three invariants hold together.
LEMMA Correct == Spec => [](TypeOK /\ CallsMatch /\ FileInvariant)
<1>1. Init => TypeOK /\ CallsMatch /\ FileInvariant
  BY InitType, InitFile
<1>2. TypeOK /\ CallsMatch /\ FileInvariant /\ [Next]_vars
        => (TypeOK /\ CallsMatch /\ FileInvariant)'
  BY TypeStep, CallsStep, FileStep
<1> QED BY <1>1, <1>2, PTL DEF Spec

\* At each point of a call the temporary file is what the next step needs it
\* to be, and a section about to write truncates no copy but the file's own
\* content (replaceFileSync, readSyncQueue, readFailedSyncQueue).
THEOREM FileHolds == Spec => []FileInvariant
BY Correct, PTL

\* Whatever crash or failing call cuts a replace short, one of the two files
\* parses, unless there was a persistent fault or damage from outside.
THEOREM FileCorrect == Spec => []TornIsRecoverable
<1>1. FileInvariant => TornIsRecoverable
  BY DEF FileInvariant
<1> QED BY <1>1, Correct, PTL

\* A valid temporary file is given up only once the file holds its value, or
\* after a persistent fault (replaceFileSync, readSyncQueue).
THEOREM CopyKept == Spec => RecoveryCopyKept
<1>1. TypeOK /\ CallsMatch /\ FileInvariant /\ [Next]_vars
        => [(tmp \in Values /\ tmp' # tmp) => main' = tmp \/ faults' # {}]_vars
  <2> SUFFICES ASSUME TypeOK, CallsMatch, FileInvariant, Next,
                      tmp \in Values, tmp' # tmp, faults' = {}
               PROVE  main' = tmp
    BY DEF vars
  <2> USE MarkersAssumption DEF FileInvariant, GoalInTmp
  <2>1. CASE OpenTmp
    BY <2>1 DEF OpenTmp, CallsMatch, TypeOK
  <2>2. CASE FillTmp
    BY <2>2 DEF FillTmp
  <2>3. CASE Rename \/ CopyEnds
    BY <2>3 DEF Rename, CopyEnds
  <2>4. CASE DiscardTmp
    BY <2>4 DEF DiscardTmp, Misread
  <2> QED BY <2>1, <2>2, <2>3, <2>4 DEF Next, Write, SyncTmp, TmpFails, Throw, CopyStarts,
             CopyRefused, CopyStops, NextTry, Answer, Promote, ReadMain, Quarantine, Crash, Damage
<1> QED BY <1>1, Correct, PTL DEF Spec, RecoveryCopyKept

\* As long as intact files can be read, what a read returns changes only with a
\* write or by damage: no crash, failed replace or other read changes it.
THEOREM ContentKept == Spec => RecoveryKeepsContent
<1>1. TypeOK /\ CallsMatch /\ FileInvariant /\ [Next]_vars
        => [\/ Readable' = Readable \/ why' = "write" \/ damages' # damages
            \/ "read" \in faults']_vars
  <2> SUFFICES ASSUME TypeOK, CallsMatch, FileInvariant, Next,
                      why' # "write", damages' = damages, "read" \notin faults'
               PROVE  Readable' = Readable
    BY DEF vars
  <2> USE MarkersAssumption, EmptyAssumption
      DEF FileInvariant, GoalInTmp, CallsMatch, TypeOK, Contents, Readable, Leave
  <2>1. CASE OpenTmp
    BY <2>1 DEF OpenTmp
  <2>2. CASE FillTmp
    BY <2>2 DEF FillTmp
  <2>3. CASE Rename \/ CopyEnds
    BY <2>3 DEF Rename, CopyEnds, Answer
  <2>4. CASE CopyStarts
    BY <2>4 DEF CopyStarts
  <2>5. CASE CopyRefused \/ CopyStops
    BY <2>5 DEF CopyRefused, CopyStops, NextTry, Answer, Throw
  <2>6. CASE DiscardTmp
    BY <2>6 DEF DiscardTmp, Misread
  <2>7. CASE Quarantine
    BY <2>7 DEF Quarantine, Misread
  <2>8. CASE TmpFails \/ Crash
    BY <2>8 DEF TmpFails, Throw, Crash
  <2>9. CASE Damage
    BY <2>9, DamagesAssumption DEF Damage
  <2>10. CASE SyncTmp \/ Promote \/ ReadMain
    BY <2>10 DEF SyncTmp, Promote, ReadMain
  <2> QED BY <2>1, <2>2, <2>3, <2>4, <2>5, <2>6, <2>7, <2>8, <2>9, <2>10 DEF Next, Write
<1> QED BY <1>1, Correct, PTL DEF Spec, RecoveryKeepsContent
-----------------------------------------------------------------------------
\* Initially the files stand for the initial atomic file.
LEMMA InitPromise == Init => Promise!Init
BY MarkersAssumption, EmptyAssumption
   DEF Init, Promise!Init, Readable, NoValue, Promise!NoValue, Absent

\* As long as no fault is outstanding, a step of the two files is a step of the
\* atomic file that keeps its promise, or leaves it alone.
LEMMA StepKept ==
  ASSUME TypeOK, CallsMatch, FileInvariant, [Next]_vars, faults = {}, faults' = {}
  PROVE  Promise!Kept \/ UNCHANGED Promise!vars
<1> USE EmptyAssumption, MarkersAssumption
    DEF TypeOK, FileInvariant, GoalInTmp, CallsMatch, Contents, Leave, Between,
        Readable, Promise!vars, Promise!NoValue, NoValue
<1>1. ASSUME NEW v \in Values, Write(v) PROVE Promise!Begin(v)
  BY <1>1 DEF Write, Promise!Begin
<1>2. CASE OpenTmp
  BY <1>2 DEF OpenTmp
<1>3. CASE FillTmp
  <2>1. CASE why = "write"
    BY <1>3, <2>1 DEF FillTmp, Promise!Kept, Promise!TakeEffect
  <2>2. CASE why = "reset"
    BY <1>3, <2>2 DEF FillTmp
  <2> QED BY <1>3, <2>1, <2>2 DEF FillTmp
<1>4. CASE SyncTmp
  BY <1>4 DEF SyncTmp
<1>5. CASE TmpFails
  BY <1>5 DEF TmpFails, Throw, Promise!Kept, Promise!Throw
<1>6. CASE Rename
  <2>1. CASE why = "write"
    BY <1>6, <2>1 DEF Rename, Answer, Promise!Kept, Promise!Return
  <2>2. CASE why # "write"
    BY <1>6, <2>2 DEF Rename, Answer, Promise!Kept, Promise!Read
  <2> QED BY <2>1, <2>2
<1>7. CASE CopyStarts
  BY <1>7 DEF CopyStarts
<1>8. CASE CopyEnds
  <2>1. CASE why = "write"
    BY <1>8, <2>1 DEF CopyEnds, Answer, Promise!Kept, Promise!Return
  <2>2. CASE why # "write"
    BY <1>8, <2>2 DEF CopyEnds, Answer, Promise!Kept, Promise!Read
  <2> QED BY <2>1, <2>2
<1>9. CASE CopyRefused \/ CopyStops
  BY <1>9 DEF CopyRefused, CopyStops, NextTry
<1>10. CASE Promote
  BY <1>10 DEF Promote
<1>11. CASE DiscardTmp
  BY <1>11 DEF DiscardTmp, Misread
<1>12. CASE ReadMain
  BY <1>12 DEF ReadMain, Promise!Kept, Promise!Read
<1>13. CASE Quarantine
  BY <1>13 DEF Quarantine, Misread
<1>14. CASE Crash
  BY <1>14 DEF Crash, Promise!Kept, Promise!Crash
<1>15. CASE Damage
  BY <1>15 DEF Damage, Promise!Kept, Promise!Damage
<1>16. CASE UNCHANGED vars
  BY <1>16 DEF vars
<1> QED BY <1>1, <1>2, <1>3, <1>4, <1>5, <1>6, <1>7, <1>8, <1>9, <1>10, <1>11, <1>12,
           <1>13, <1>14, <1>15, <1>16 DEF Next, Promise!Kept

\* Only a write that returns ends the time after a fault, and it makes good.
LEMMA StepMakesGood ==
  ASSUME TypeOK, CallsMatch, FileInvariant, [Next]_vars, faults # {}, faults' = {}
  PROVE  Promise!MakeGood
<1>1. (Rename \/ CopyEnds) /\ why = "write"
  BY DEF Next, vars, Write, OpenTmp, FillTmp, SyncTmp, TmpFails, Throw, Rename, CopyStarts,
         CopyEnds, Recovered, CopyRefused, CopyStops, NextTry, Promote, DiscardTmp, Misread,
         ReadMain, Quarantine, Crash, Damage
<1> QED BY <1>1, MarkersAssumption
        DEF Rename, CopyEnds, Answer, Recovered, Leave, TypeOK, FileInvariant, GoalInTmp,
            CallsMatch, Readable, NoValue, Promise!NoValue, Promise!MakeGood

\* The temporary file and the file together implement one file that changes
\* atomically (syncStore.js), with crashes, failing calls and damage anywhere,
\* up to a persistent fault and again from the next write that returns.
THEOREM Atomicity == Spec => IsAtomic
<1>1. Init => Promise!Init
  BY InitPromise
<1>2. TypeOK /\ CallsMatch /\ FileInvariant /\ [Next]_vars
        => [Promise!Next]_(Promise!vars)
  <2> SUFFICES ASSUME TypeOK, CallsMatch, FileInvariant, [Next]_vars
               PROVE  [Promise!Next]_(Promise!vars)
    OBVIOUS
  <2>1. CASE faults' # {}
    BY <2>1 DEF Promise!Next, Promise!Broken
  <2>2. CASE faults' = {} /\ faults # {}
    BY <2>2, StepMakesGood DEF Promise!Next
  <2>3. CASE faults' = {} /\ faults = {}
    BY <2>3, StepKept DEF Promise!Next
  <2> QED BY <2>1, <2>2, <2>3
<1> QED BY <1>1, <1>2, Correct, PTL DEF Spec, IsAtomic, Promise!Spec
=============================================================================
