------------------------- MODULE FolioIntentProofs -------------------------
(***************************************************************************)
(* The folio journal keeps its promises for any number of intents, charges *)
(* and users.                                                              *)
(***************************************************************************)
EXTENDS FolioIntent, TLAPS

\* An intent that the journal does not know has left no trace.
NoTrace == \A i \in Intents : journal[i] = "none" =>
  server[i] = "none" /\ i \notin inFlight

\* While a request is out its intent is marked as such.
OutIsMarked == \A i \in inFlight : journal[i] = "submitting"

\* The desk has seen how a resolved intent ended.
ResolvedSeen == \A i \in Intents :
  journal[i] \in {"rejected", "confirmed"} => i \in told \cup excused

\* For a charge, one intent at most has neither been rejected nor gone unseen.
OneOpen == \A i, j \in Intents :
  i # j /\ Charge[i] = Charge[j] /\ journal[i] # "none" /\ journal[j] # "none"
    => i \in excused \/ j \in excused

IInv == TypeOK /\ NoTrace /\ OutIsMarked /\ ResolvedSeen /\ OneOpen /\ KeptInRecovery

LEMMA InitInvariant == Init => IInv
BY DEF Init, IInv, TypeOK, NoTrace, OutIsMarked, ResolvedSeen, OneOpen, KeptInRecovery,
       Statuses, Outcomes, Verdicts

\* An intent is marked and sent, or only prepared.
LEMMA Submitting ==
  ASSUME IInv, NEW i \in Intents, SubmitIntent(i) \/ SubmitStops(i)
  PROVE  IInv'
<1> USE DEF history, IInv, SubmitIntent, SubmitStops, MayPrepare, Wanted, Dispatch, Marked
<1>1. TypeOK'
  BY DEF TypeOK, Statuses, Unresolved, Outcomes, Verdicts
<1>2. NoTrace'
  BY DEF TypeOK, NoTrace
<1>3. ResolvedSeen'
  BY DEF TypeOK, NoTrace, ResolvedSeen, Statuses, Unresolved
<1>4. OneOpen'
  BY DEF TypeOK, NoTrace, ResolvedSeen, OneOpen, Statuses, Unresolved
<1>5. OutIsMarked' /\ KeptInRecovery'
  BY DEF TypeOK, NoTrace, OutIsMarked, KeptInRecovery, Statuses, Unresolved, Outcomes
<1> QED  BY <1>1, <1>2, <1>3, <1>4, <1>5 DEF IInv

\* A saved intent is sent again, or answered from the journal.
LEMMA Retrying ==
  ASSUME IInv, NEW i \in Intents, RetryIntent(i) \/ RetryKnown(i)
  PROVE  IInv'
<1> USE DEF history, IInv, RetryIntent, RetryKnown, Dispatch, Marked
<1>1. TypeOK'
  BY DEF TypeOK, Statuses, Unresolved, Outcomes, Verdicts
<1>2. NoTrace'
  BY DEF TypeOK, NoTrace
<1>3. ResolvedSeen'
  BY DEF TypeOK, NoTrace, ResolvedSeen, Statuses, Unresolved
<1>4. OneOpen'
  BY DEF TypeOK, NoTrace, ResolvedSeen, OneOpen, Statuses, Unresolved
<1>5. OutIsMarked' /\ KeptInRecovery'
  BY DEF TypeOK, NoTrace, OutIsMarked, KeptInRecovery, Statuses, Unresolved, Outcomes
<1> QED  BY <1>1, <1>2, <1>3, <1>4, <1>5 DEF IInv

\* A matching receipt.
LEMMA Confirming ==
  ASSUME IInv, NEW i \in Intents, Confirmed(i) \/ ConfirmedUnsaved(i)
  PROVE  IInv'
<1> USE DEF history, IInv, Confirmed, ConfirmedUnsaved, Answered, Applied, Marked
<1>1. TypeOK'
  BY DEF TypeOK, Statuses, Unresolved, Outcomes, Verdicts
<1>2. NoTrace'
  BY DEF TypeOK, NoTrace
<1>3. ResolvedSeen'
  BY DEF TypeOK, NoTrace, ResolvedSeen, Statuses, Unresolved
<1>4. OneOpen'
  BY DEF TypeOK, NoTrace, ResolvedSeen, OneOpen, Statuses, Unresolved
<1>5. OutIsMarked' /\ KeptInRecovery'
  BY DEF TypeOK, NoTrace, OutIsMarked, KeptInRecovery, Statuses, Unresolved, Outcomes
<1> QED  BY <1>1, <1>2, <1>3, <1>4, <1>5 DEF IInv

\* A refusal.
LEMMA Rejecting ==
  ASSUME IInv, NEW i \in Intents, Refused(i) \/ Denied(i)
  PROVE  IInv'
<1> USE DEF history, IInv, Refused, Denied, Rejection, Answered, Marked
<1>1. TypeOK'
  BY DEF TypeOK, Statuses, Unresolved, Outcomes, Verdicts
<1>2. NoTrace'
  BY DEF TypeOK, NoTrace
<1>3. ResolvedSeen'
  BY DEF TypeOK, NoTrace, ResolvedSeen, Statuses, Unresolved
<1>4. OneOpen'
  BY DEF TypeOK, NoTrace, ResolvedSeen, OneOpen, Statuses, Unresolved
<1>5. OutIsMarked' /\ KeptInRecovery'
  BY DEF TypeOK, NoTrace, OutIsMarked, KeptInRecovery, Statuses, Unresolved, Outcomes
<1> QED  BY <1>1, <1>2, <1>3, <1>4, <1>5 DEF IInv

\* No answer, or one that is no receipt.
LEMMA Doubting ==
  ASSUME IInv, NEW i \in Intents, NoAnswer(i) \/ NoReceipt(i)
  PROVE  IInv'
<1> USE DEF history, IInv, NoAnswer, NoReceipt, Rejection, Answered, Abandoned, Applied, Marked
<1>1. TypeOK'
  BY DEF TypeOK, Statuses, Unresolved, Outcomes, Verdicts
<1>2. NoTrace'
  BY DEF TypeOK, NoTrace
<1>3. ResolvedSeen'
  BY DEF TypeOK, NoTrace, ResolvedSeen, Statuses, Unresolved
<1>4. OneOpen'
  BY DEF TypeOK, NoTrace, ResolvedSeen, OneOpen, Statuses, Unresolved
<1>5. OutIsMarked' /\ KeptInRecovery'
  BY DEF TypeOK, NoTrace, OutIsMarked, KeptInRecovery, Statuses, Unresolved, Outcomes
<1> QED  BY <1>1, <1>2, <1>3, <1>4, <1>5 DEF IInv

\* The server executes an abandoned request.
LEMMA LateExecution ==
  ASSUME IInv, NEW i \in Intents, LateExecute(i)
  PROVE  IInv'
<1> USE DEF history, IInv, LateExecute, Applied
<1>1. TypeOK'
  BY DEF TypeOK, Statuses, Unresolved, Outcomes, Verdicts
<1>2. NoTrace'
  BY DEF TypeOK, NoTrace
<1>3. ResolvedSeen'
  BY DEF TypeOK, NoTrace, ResolvedSeen, Statuses, Unresolved
<1>4. OneOpen'
  BY DEF TypeOK, NoTrace, ResolvedSeen, OneOpen, Statuses, Unresolved
<1>5. OutIsMarked' /\ KeptInRecovery'
  BY DEF TypeOK, NoTrace, OutIsMarked, KeptInRecovery, Statuses, Unresolved, Outcomes
<1> QED  BY <1>1, <1>2, <1>3, <1>4, <1>5 DEF IInv

LEMMA NextInvariant == IInv /\ [Next]_vars => IInv'
<1> SUFFICES ASSUME IInv, [Next]_vars PROVE IInv'
  OBVIOUS
<1>1. ASSUME NEW i \in Intents, Operate(i) PROVE IInv'
  BY <1>1, Submitting, Retrying DEF Operate
<1>2. ASSUME NEW i \in Intents, Answer(i) PROVE IInv'
  BY <1>2, Confirming, Rejecting, Doubting DEF Answer
<1>3. ASSUME NEW i \in Intents, LateExecute(i) PROVE IInv'
  BY <1>3, LateExecution
<1>4. ASSUME NEW u \in Users, SignIn(u) PROVE IInv'
  BY <1>4 DEF SignIn, history, IInv, TypeOK, NoTrace, OutIsMarked, ResolvedSeen, OneOpen,
                KeptInRecovery
<1>5. CASE Crash
  <2>1. TypeOK'
    BY <1>5 DEF Crash, history, IInv, TypeOK, Outcomes
  <2>2. NoTrace'
    BY <1>5 DEF Crash, history, IInv, TypeOK, NoTrace
  <2>3. ResolvedSeen' /\ OneOpen'
    BY <1>5 DEF Crash, history, IInv, ResolvedSeen, OneOpen
  <2>4. OutIsMarked' /\ KeptInRecovery'
    BY <1>5 DEF Crash, history, IInv, TypeOK, OutIsMarked, KeptInRecovery, Unresolved, Outcomes
  <2> QED  BY <2>1, <2>2, <2>3, <2>4 DEF IInv
<1>6. CASE UNCHANGED vars
  BY <1>6 DEF vars, history, IInv, TypeOK, NoTrace, OutIsMarked, ResolvedSeen, OneOpen,
              KeptInRecovery
<1> QED  BY <1>1, <1>2, <1>3, <1>4, <1>5, <1>6 DEF Next

LEMMA InvariantImplies == IInv => OnePosting /\ KeptInRecovery
BY DEF IInv, TypeOK, NoTrace, OneOpen, OnePosting

THEOREM InvariantHolds == Spec => []IInv
BY InitInvariant, NextInvariant, PTL DEF Spec

\* Every variable keeps its type (prepareHotelFolioIntent, dispatchIntent).
THEOREM TypeCorrect == Spec => []TypeOK
<1>1. IInv => TypeOK
  BY DEF IInv
<1> QED  BY InvariantHolds, <1>1, PTL

\* One posting for a charge, whoever retries what (prepareHotelFolioIntent).
THEOREM NoDoublePosting == Spec => []OnePosting
BY InvariantHolds, InvariantImplies, PTL

\* An operation that is out, or that the server has or may still execute, is
\* listed for recovery or confirmed in the journal, unless it was marked as
\* rejected upon a denial or a lost mark (markHotelFolioIntent).
THEOREM NothingForgotten == Spec => []KeptInRecovery
BY InvariantHolds, InvariantImplies, PTL
=============================================================================
