----------------------------- MODULE AtomicFile -----------------------------
(***************************************************************************)
(* What the callers of syncStore.js rely on: a JSON file whose content     *)
(* changes from one whole array to another in one step, at some moment of  *)
(* the write.  A write that returned has taken effect; one that threw, or  *)
(* that a crash cut short, either has or has not, once and for all.  When  *)
(* the file system fails for good the promise is broken, until a write     *)
(* returns again.                                                          *)
(***************************************************************************)
EXTENDS Naturals

CONSTANTS Values,     \* the arrays that callers write
          Empty,      \* the empty array, also what a missing file reads as
          MaxDamages  \* bound: damage done to the file from outside

NoValue == "none"

VARIABLES content, writing, outcome, seen, broken, damages
vars == <<content, writing, outcome, seen, broken, damages>>

Init ==
  /\ content \in Values
  /\ writing = NoValue /\ outcome = "none" /\ seen = NoValue
  /\ broken = FALSE /\ damages = 0

\* A caller starts to write v.
Begin(v) ==
  /\ writing = NoValue
  /\ writing' = v
  /\ outcome' = "none"
  /\ UNCHANGED <<content, seen, damages>>

\* The moment the write takes effect.
TakeEffect ==
  /\ writing # NoValue
  /\ content' = writing
  /\ UNCHANGED <<writing, outcome, seen, damages>>

Return ==
  /\ writing # NoValue /\ content = writing
  /\ outcome' = "returned"
  /\ writing' = NoValue
  /\ UNCHANGED <<content, seen, damages>>

\* The write throws; or a read that had to tidy up throws.
Throw ==
  /\ outcome' = "thrown"
  /\ writing' = NoValue
  /\ UNCHANGED <<content, seen, damages>>

Read ==
  /\ writing = NoValue
  /\ seen' = content
  /\ UNCHANGED <<content, writing, outcome, damages>>

Crash ==
  /\ writing' = NoValue
  /\ outcome' = "none"
  /\ seen' = NoValue
  /\ UNCHANGED <<content, damages>>

\* The file is damaged from outside: unless a second copy saves it, it reads as
\* empty from now on.
Damage ==
  /\ damages < MaxDamages
  /\ damages' = damages + 1
  /\ content' \in {content, Empty}
  /\ UNCHANGED <<writing, outcome, seen>>

Kept ==
  \/ \E v \in Values : Begin(v)
  \/ TakeEffect \/ Return \/ Throw \/ Read \/ Crash \/ Damage

\* The file system fails for good, or has done so and no write has returned
\* since: nothing is promised.
Broken == broken' = TRUE

\* A write that returns makes the promise good: its array is the content.
MakeGood ==
  /\ broken /\ writing # NoValue
  /\ broken' = FALSE
  /\ content' = writing /\ writing' = NoValue /\ outcome' = "returned"
  /\ UNCHANGED <<seen, damages>>

Next == (~broken /\ broken' = FALSE /\ Kept) \/ Broken \/ MakeGood

Spec == Init /\ [][Next]_vars
=============================================================================
