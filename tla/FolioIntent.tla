---------------------------- MODULE FolioIntent ----------------------------
(***************************************************************************)
(* A hotel folio operation as a durable intent: prepared and marked in     *)
(* hotel-folio-intents.json before it is sent under its own key, resolved  *)
(* by the server's receipt, retried as itself while it is unresolved.  The *)
(* journal is written at any moment or not at all, and the process may die *)
(* while requests are out.                                                 *)
(***************************************************************************)
CONSTANTS Intents,  \* intent ids, the server's idempotency keys
          Charges,  \* what the front desk wants to post
          Charge,   \* Charge[i]: what i was minted for
          Users,    \* who may be signed in
          Owner     \* Owner[i]: who minted i

ASSUME ChargeAssumption == Charge \in [Intents -> Charges]
ASSUME OwnerAssumption == Owner \in [Intents -> Users]

VARIABLES
  journal,   \* the status of each intent
  inFlight,  \* the intents whose request is out
  server,    \* does the server have it, or an abandoned request for it
  user,      \* who is signed in
  told,      \* history: the desk saw the operation confirmed
  excused,   \* history: the desk saw it rejected, or lost the confirmation
  verdict    \* history: what the last rejection of each intent rests on

history == <<told, excused, verdict>>
vars == <<journal, inFlight, server, user, history>>

Unresolved == {"prepared", "submitting", "unknown"}
Statuses == Unresolved \cup {"none", "rejected", "confirmed"}
\* Late: the client gave the request up, the network did not.
Outcomes == {"none", "late", "applied"}
\* The server's answer about the operation; an error that says nothing of it; a
\* mark that failed.
Verdicts == {"none", "refused", "denied", "unsaved"}

Init ==
  /\ journal = [i \in Intents |-> "none"]
  /\ inFlight = {}
  /\ server = [i \in Intents |-> "none"]
  /\ user \in Users
  /\ told = {} /\ excused = {}
  /\ verdict = [i \in Intents |-> "none"]

-----------------------------------------------------------------------------
(* The server: a second request with the same key changes nothing *)

Applied(i) == server' = [server EXCEPT ![i] = "applied"]
Abandoned(i) == server' = [server EXCEPT ![i] = IF @ = "none" THEN "late" ELSE @]

\* The server executes a request that its client has given up.
LateExecute(i) ==
  /\ server[i] = "late"
  /\ Applied(i)
  /\ UNCHANGED <<journal, inFlight, user, history>>

-----------------------------------------------------------------------------
(* submitIntent, retryIntent *)

\* Mutant: only the user's own intents block.
MayPrepareOwn(i) ==
  /\ user = Owner[i]
  /\ journal[i] = "none" =>
       \A j \in Intents : Owner[j] = user => journal[j] \notin Unresolved

\* prepareHotelFolioIntent: a known intent is returned whatever its status; a
\* new one is refused while any intent of the lodge is unresolved.
MayPrepare(i) ==
  /\ user = Owner[i]
  /\ journal[i] = "none" => \A j \in Intents : journal[j] \notin Unresolved

\* What the desk submits: a charge that it does not know to be posted, under a
\* new key, or under the key of a form that was rejected.
Wanted(i) ==
  \/ journal[i] = "none" /\ \A j \in told : Charge[j] # Charge[i]
  \/ journal[i] = "rejected"

Marked(i, status) == journal' = [journal EXCEPT ![i] = status]

\* dispatchIntent, after runHotelFolioIntentOnce: marked, then sent.
Dispatch(i) ==
  /\ i \notin inFlight
  /\ Marked(i, "submitting")
  /\ inFlight' = inFlight \cup {i}
  /\ verdict' = [verdict EXCEPT ![i] = "none"]
  /\ UNCHANGED <<server, user, told, excused>>

SubmitIntent(i) == MayPrepare(i) /\ Wanted(i) /\ Dispatch(i)

\* The mark fails, or the process dies before it: the intent is prepared only.
SubmitStops(i) ==
  /\ MayPrepare(i) /\ Wanted(i)
  /\ journal[i] = "none"
  /\ Marked(i, "prepared")
  /\ UNCHANGED <<inFlight, server, user, history>>

\* The owner retries a saved intent.
RetryIntent(i) == user = Owner[i] /\ journal[i] \in Unresolved /\ Dispatch(i)

\* A saved intent that turns out confirmed is answered from the journal.
RetryKnown(i) ==
  /\ user = Owner[i] /\ journal[i] = "confirmed"
  /\ told' = told \cup {i}
  /\ UNCHANGED <<journal, inFlight, server, user, excused, verdict>>

-----------------------------------------------------------------------------
(* The end of the request *)

Answered(i) == i \in inFlight /\ inFlight' = inFlight \ {i} /\ user' = user

\* A matching receipt, and its mark; the desk sees it, or the window is gone.
Confirmed(i) ==
  /\ Answered(i) /\ Applied(i)
  /\ Marked(i, "confirmed")
  /\ \/ told' = told \cup {i} /\ excused' = excused
     \/ excused' = excused \cup {i} /\ told' = told
  /\ verdict' = verdict

\* A matching receipt whose mark fails: the intent stays reserved.
ConfirmedUnsaved(i) ==
  /\ Answered(i) /\ Applied(i)
  /\ UNCHANGED <<journal, history>>

\* The intent is marked rejected, for one of the reasons.
Rejection(i, reason) ==
  /\ Marked(i, "rejected")
  /\ verdict' = [verdict EXCEPT ![i] = reason]
  /\ excused' = excused \cup {i} /\ told' = told

\* success = false: the server answers so only for a key under which it holds
\* nothing and runs nothing.
Refused(i) ==
  /\ Answered(i)
  /\ server[i] # "applied"
  /\ server' = [server EXCEPT ![i] = "none"]
  /\ Rejection(i, "refused") \/ UNCHANGED <<journal, history>>

\* An error raised by hotel_folio_mutation_v1 before it looks for a receipt:
\* the session or the role is not accepted (any more).
Denied(i) ==
  /\ Answered(i)
  /\ server' = server
  /\ Rejection(i, "denied") \/ UNCHANGED <<journal, history>>

\* Mutant: an operation without an answer is taken back.
NoAnswerRejected(i) ==
  /\ Answered(i) /\ Abandoned(i)
  /\ Marked(i, "rejected")
  /\ UNCHANGED history

\* Mutant: a status that readJournal calls malformed.
NoAnswerFailed(i) ==
  /\ Answered(i) /\ Abandoned(i)
  /\ Marked(i, "failed")
  /\ UNCHANGED history

\* isAmbiguousFolioError: no answer came.  Only a failed mark leaves it as it was.
NoAnswer(i) ==
  /\ Answered(i) /\ Abandoned(i)
  /\ Marked(i, "unknown") \/ UNCHANGED journal
  /\ UNCHANGED history

\* An answer that is no receipt, or not the matching one: unknown.  When that
\* mark fails, the failure itself is caught and marked as a rejection.
NoReceipt(i) ==
  /\ Answered(i)
  /\ Abandoned(i) \/ Applied(i)
  /\ \/ Marked(i, "unknown") /\ UNCHANGED history
     \/ Rejection(i, "unsaved")
     \/ UNCHANGED <<journal, history>>

-----------------------------------------------------------------------------
(* The environment *)

SignIn(u) == user' = u /\ UNCHANGED <<journal, inFlight, server, history>>

Crash ==
  /\ inFlight' = {}
  /\ server' = [i \in Intents |->
       IF server[i] = "none" /\ i \in inFlight THEN "late" ELSE server[i]]
  /\ UNCHANGED <<journal, user, history>>

Operate(i) ==
  \/ SubmitIntent(i) \/ SubmitStops(i) \/ RetryIntent(i) \/ RetryKnown(i)
Answer(i) ==
  \/ Confirmed(i) \/ ConfirmedUnsaved(i) \/ Refused(i) \/ Denied(i)
  \/ NoAnswer(i) \/ NoReceipt(i)

Next ==
  \/ \E i \in Intents : Operate(i) \/ Answer(i) \/ LateExecute(i)
  \/ \E u \in Users : SignIn(u)
  \/ Crash

Spec == Init /\ [][Next]_vars
-----------------------------------------------------------------------------
(* Properties *)

TypeOK ==
  /\ journal \in [Intents -> Statuses] /\ server \in [Intents -> Outcomes]
  /\ inFlight \subseteq Intents /\ user \in Users
  /\ told \subseteq Intents /\ excused \subseteq Intents
  /\ verdict \in [Intents -> Verdicts]

\* A charge is not posted under two intents, whatever is retried by whom, late,
\* or unsaved, unless the desk saw one of them rejected or missed its
\* confirmation (prepareHotelFolioIntent, dispatchIntent).
OnePosting ==
  \A i, j \in Intents :
    i # j /\ Charge[i] = Charge[j] /\ server[i] = "applied" /\ server[j] = "applied"
      => i \in excused \/ j \in excused

\* An operation that is out, or that the server has or may still execute, is
\* listed for recovery or confirmed in the journal, through retries, late
\* executions, lost marks and crashes.  The exceptions are intents marked as
\* rejected upon an error that says nothing of the operation (denied), or because
\* the mark of an answer that was no receipt failed (unsaved); such an intent is
\* rejected though it may be posted (markHotelFolioIntent,
\* listHotelFolioRecoveryIntents).
KeptInRecovery ==
  \A i \in Intents : server[i] # "none" \/ i \in inFlight =>
    \/ journal[i] \in Unresolved
    \/ journal[i] = "confirmed" /\ server[i] = "applied"
    \/ journal[i] = "rejected" /\ verdict[i] \in {"denied", "unsaved"}

\* "This folio operation was definitively rejected": what the server refused or
\* denied, it does not have (retryIntent, isAmbiguousFolioError).
RejectedNotPosted ==
  \A i \in Intents :
    journal[i] = "rejected" /\ verdict[i] # "unsaved" => server[i] # "applied"
=============================================================================
