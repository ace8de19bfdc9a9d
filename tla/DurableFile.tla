---------------------------- MODULE DurableFile -----------------------------
(***************************************************************************)
(* The file protocol under sync-queue.json and sync-failed.json: a write   *)
(* goes to a temporary file, which then replaces the file; a read promotes *)
(* a temporary file that a crash left behind and sets a damaged file       *)
(* aside.  One action is one file system call: any of them may fail, and   *)
(* the process may crash before or after it.                               *)
(***************************************************************************)
EXTENDS Naturals

CONSTANTS Values,      \* the arrays that callers write
          Empty,       \* the empty array
          MaxDamages   \* bound: damage done to the file from outside

ASSUME EmptyAssumption == Empty \in Values
ASSUME DamagesAssumption == MaxDamages \in Nat

VARIABLES
  main, tmp,       \* the file and its temporary: a value, Torn or Absent
  aside,           \* what was set aside (.corrupt.bak)
  pc, goal, why,   \* the call in progress, what it writes, for whom
  tries,           \* attempts of replaceFileSync
  outcome, seen,   \* what the last write and the last read answered
  faults,          \* history: persistent faults since a write last returned
  damages          \* counter of the bound

vars == <<main, tmp, aside, pc, goal, why, tries, outcome, seen, faults, damages>>

NoValue == "none"
Torn == "torn"      \* present, but it does not parse
Absent == "absent"

\* What may go wrong beyond crashes and failing calls: all three tries of a
\* replace fail; a file that is intact cannot be read.
Faults == {"replace", "read"}

\* None of these is an array that a caller writes.
ASSUME MarkersAssumption == {NoValue, Torn, Absent} \cap Values = {}

Init ==
  /\ main \in Values \cup {Absent} /\ tmp = Absent /\ aside = {}
  /\ pc = "idle" /\ goal = NoValue /\ why = "none" /\ tries = 0
  /\ outcome = "none" /\ seen = NoValue /\ faults = {} /\ damages = 0

\* No call is in progress: "ready" while its section has read the file.
Between == pc \in {"idle", "ready"}

\* The call is over.
Leave(next) == pc' = next /\ goal' = NoValue /\ why' = "none" /\ tries' = 0

-----------------------------------------------------------------------------
(* writeJsonFileDurable *)

\* Mutant: the file itself is opened for writing.
OpenInPlace ==
  /\ pc = "open"
  /\ main' = Torn
  /\ pc' = "fill"
  /\ UNCHANGED <<tmp, aside, goal, why, tries, outcome, seen, faults, damages>>

\* writeSyncQueue, writeFailedSyncQueue: every caller has read the file in the
\* section that writes it.
Write(v) ==
  /\ pc = "ready"
  /\ pc' = "open" /\ goal' = v /\ why' = "write"
  /\ outcome' = "none"
  /\ UNCHANGED <<main, tmp, aside, tries, seen, faults, damages>>

\* The temporary file is opened, which truncates it.
OpenTmp ==
  /\ pc = "open"
  /\ tmp' = Torn
  /\ pc' = "fill"
  /\ UNCHANGED <<main, aside, goal, why, tries, outcome, seen, faults, damages>>

FillTmp ==
  /\ pc = "fill"
  /\ tmp' = goal
  /\ pc' = "sync"
  /\ UNCHANGED <<main, aside, goal, why, tries, outcome, seen, faults, damages>>

SyncTmp ==
  /\ pc = "sync"
  /\ pc' = "replace" /\ tries' = 1
  /\ UNCHANGED <<main, tmp, aside, goal, why, outcome, seen, faults, damages>>

\* A failure reaches the caller.
Throw ==
  /\ Leave("idle")
  /\ outcome' = "thrown"
  /\ UNCHANGED <<tmp, aside, seen, damages>>

\* The temporary file is locked, the disk is full, or it cannot be synced.
TmpFails == pc \in {"open", "fill", "sync"} /\ Throw /\ UNCHANGED <<main, faults>>

-----------------------------------------------------------------------------
(* replaceFileSync *)

\* A write returns; a read returns what it promoted, or the empty array it has
\* just stored.
Answer ==
  /\ IF why = "write" THEN Leave("idle") /\ outcome' = "returned" /\ UNCHANGED seen
                      ELSE Leave("ready") /\ seen' = goal /\ UNCHANGED outcome
  /\ UNCHANGED <<aside, damages>>

\* A write that returns has made good for earlier faults.
Recovered == faults' = IF why = "write" THEN {} ELSE faults

Rename ==
  /\ pc = "replace"
  /\ main' = tmp /\ tmp' = Absent
  /\ Answer /\ Recovered

\* Mutant: the temporary file is given up before the copy is complete.
CopyAway ==
  /\ pc = "replace"
  /\ main' = Torn /\ tmp' = Torn
  /\ pc' = "copy"
  /\ UNCHANGED <<aside, goal, why, tries, outcome, seen, faults, damages>>

\* The rename failed: the file is overwritten in place.
CopyStarts ==
  /\ pc = "replace"
  /\ main' = Torn
  /\ pc' = "copy"
  /\ UNCHANGED <<tmp, aside, goal, why, tries, outcome, seen, faults, damages>>

\* The copy is complete and synced; the temporary file may stay behind.
CopyEnds ==
  /\ pc = "copy"
  /\ main' = tmp /\ tmp' \in {tmp, Absent}
  /\ Answer /\ Recovered

\* Mutant: there is no limit to the tries.
TryForEver ==
  /\ tries' = tries + 1 /\ pc' = "replace"
  /\ UNCHANGED <<tmp, aside, goal, why, outcome, seen, faults, damages>>

\* Mutant: who gives up also removes the temporary file.
NextTryTidy ==
  \/ /\ tries < 3
     /\ tries' = tries + 1 /\ pc' = "replace"
     /\ UNCHANGED <<tmp, aside, goal, why, outcome, seen, faults, damages>>
  \/ /\ tries = 3
     /\ Leave("idle") /\ tmp' = Absent /\ outcome' = "thrown"
     /\ faults' = faults \cup {"replace"}
     /\ UNCHANGED <<aside, seen, damages>>

\* Neither worked: another try, at most three in all.  Then a write throws,
\* and a read returns what it could not promote.
NextTry ==
  \/ /\ tries < 3
     /\ tries' = tries + 1 /\ pc' = "replace"
     /\ UNCHANGED <<tmp, aside, goal, why, outcome, seen, faults, damages>>
  \/ /\ tries = 3
     /\ faults' = faults \cup {"replace"}
     /\ \/ why # "promote" /\ Throw
        \/ why = "promote" /\ Answer /\ UNCHANGED tmp

\* The copy could not start; it stopped half way; or it could not be synced.
CopyRefused == pc = "replace" /\ NextTry /\ UNCHANGED main
CopyStops == pc = "copy" /\ NextTry /\ main' \in {main, tmp}

-----------------------------------------------------------------------------
(* readSyncQueue, readFailedSyncQueue *)

\* Mutant: a temporary file that was left behind is not looked at.
IgnoreTmp ==
  /\ Between /\ tmp \in Values
  /\ pc' = "readmain"
  /\ UNCHANGED <<main, tmp, aside, goal, why, tries, outcome, seen, faults, damages>>

\* A valid temporary file was left behind: it is promoted.
Promote ==
  /\ Between /\ tmp \in Values
  /\ goal' = tmp /\ why' = "promote"
  /\ pc' = "replace" /\ tries' = 1
  /\ UNCHANGED <<main, tmp, aside, outcome, seen, faults, damages>>

\* A file that cannot be read counts as damaged; when it is intact, that is a
\* fault.
Misread(file) == faults' = faults \cup (IF file \in Values THEN {"read"} ELSE {})

\* One that cannot be read and parsed is removed, if that is possible.
DiscardTmp ==
  /\ Between
  /\ tmp' \in {tmp, Absent}
  /\ pc' = "readmain"
  /\ Misread(tmp)
  /\ UNCHANGED <<main, aside, goal, why, tries, outcome, seen, damages>>

ReadMain ==
  /\ pc = "readmain" /\ main # Torn
  /\ seen' = IF main = Absent THEN Empty ELSE main
  /\ Leave("ready")
  /\ UNCHANGED <<main, tmp, aside, outcome, faults, damages>>

\* The file cannot be read and parsed: it is renamed, if that is possible, and
\* an empty array is written.
Quarantine ==
  /\ pc = "readmain" /\ main # Absent
  /\ \/ main' = Absent /\ aside' = aside \cup {main}
     \/ UNCHANGED <<main, aside>>
  /\ pc' = "open" /\ goal' = Empty /\ why' = "reset"
  /\ Misread(main)
  /\ UNCHANGED <<tmp, tries, outcome, seen, damages>>

-----------------------------------------------------------------------------
(* The environment *)

\* The process dies; what the completed calls did stays.
Crash ==
  /\ Leave("idle")
  /\ outcome' = "none" /\ seen' = NoValue
  /\ UNCHANGED <<main, tmp, aside, faults, damages>>

\* Something else damages the file (not within a section that reads it and
\* writes it again).
Damage ==
  /\ Between
  /\ damages < MaxDamages
  /\ main' = Torn /\ damages' = damages + 1
  /\ pc' = "idle"
  /\ UNCHANGED <<tmp, aside, goal, why, tries, outcome, seen, faults>>

Next ==
  \/ \E v \in Values : Write(v)
  \/ OpenTmp \/ FillTmp \/ SyncTmp \/ TmpFails
  \/ Rename \/ CopyStarts \/ CopyEnds \/ CopyRefused \/ CopyStops
  \/ Promote \/ DiscardTmp \/ ReadMain \/ Quarantine
  \/ Crash \/ Damage

Spec == Init /\ [][Next]_vars
-----------------------------------------------------------------------------
(* Properties *)

Contents == Values \cup {Torn, Absent}

TypeOK ==
  /\ main \in Contents /\ tmp \in Contents /\ aside \subseteq Contents
  /\ pc \in {"idle", "ready", "open", "fill", "sync", "replace", "copy", "readmain"}
  /\ goal \in Values \cup {NoValue}
  /\ why \in {"none", "write", "promote", "reset"}
  /\ tries \in 0..3
  /\ outcome \in {"none", "returned", "thrown"}
  /\ seen \in Values \cup {NoValue}
  /\ faults \subseteq Faults /\ damages \in 0..MaxDamages

\* What a read would return if it came now.
Readable == IF tmp \in Values THEN tmp ELSE IF main \in Values THEN main ELSE Empty

Promise == INSTANCE AtomicFile WITH
  content <- Readable, writing <- IF why = "write" THEN goal ELSE NoValue,
  broken <- faults # {}

\* Callers cannot tell the two files from one that changes atomically, wherever
\* a crash or a failing call falls, until all three tries of a replace fail or
\* an intact file cannot be read; and again from the next write that returns
\* (writeJsonFileDurable, replaceFileSync, readSyncQueue).
IsAtomic == Promise!Spec

\* While the file is being overwritten in place, or was left half written by a
\* crash, the temporary file holds the value whole (the copy fallback of
\* replaceFileSync; only a persistent fault or damage from outside tears the
\* only copy).
TornIsRecoverable ==
  main = Torn => tmp \in Values \/ faults # {} \/ damages > 0

\* A valid temporary file stays until the file itself holds its value: the
\* rename, the copy, a write that truncates it and a read that discards it never
\* take the only whole copy (replaceFileSync: "keep recovery copy if unlink is
\* blocked"), except after a persistent fault.
RecoveryCopyKept ==
  [][(tmp \in Values /\ tmp' # tmp) => main' = tmp \/ faults' # {}]_vars

\* Recovery never loses anything as long as intact files can be read: what a
\* read returns changes when a write has opened or filled the temporary file, or
\* by damage from outside, and never by a crash, a replace that fails for good,
\* or another read (readSyncQueue).
RecoveryKeepsContent ==
  [][\/ Readable' = Readable \/ why' = "write" \/ damages' # damages
     \/ "read" \in faults']_vars

-----------------------------------------------------------------------------
(* The inductive invariant *)

\* What is written is known exactly while a call that writes is in progress.
CallsMatch ==
  /\ why = "none" <=> pc \in {"idle", "ready", "readmain"}
  /\ why = "none" <=> goal = NoValue
  /\ why = "promote" => pc \in {"replace", "copy"}
  /\ why = "reset" => goal = Empty

\* A call that has filled the temporary file replaces the file by its value.
GoalInTmp ==
  /\ pc = "fill" => tmp = Torn
  /\ pc \in {"sync", "replace", "copy"} => tmp = goal

\* What TornIsRecoverable and IsAtomic rest on: a section that may write has the
\* file's own content before it, and a temporary file it can spare.
FileInvariant ==
  /\ GoalInTmp
  /\ TornIsRecoverable
  /\ "read" \notin faults =>
       /\ why = "reset" /\ pc \in {"open", "fill"} => main \notin Values
       /\ why = "reset" /\ pc = "open" => tmp \notin Values
       /\ pc = "readmain" => tmp \notin Values
  /\ faults = {} /\ pc \in {"ready", "open"} /\ tmp \in Values => main = tmp
=============================================================================
