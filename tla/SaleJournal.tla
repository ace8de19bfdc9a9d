---------------------------- MODULE SaleJournal -----------------------------
(***************************************************************************)
(* A sale at the Till: the submit journal, the online and the offline path *)
(* of createPosOrder, the recovery check, what the replay pass and the     *)
(* review actions do to the sale's queue row and to the journal, and what  *)
(* the operator knows.                                                     *)
(*                                                                         *)
(* A sale is a submit intent: the order id and the operation key derive    *)
(* from it.  The same basket may be rung up under several intents.         *)
(*                                                                         *)
(* A synchronous section that makes several durable writes makes the first *)
(* one in its own action and the others in Proceed, one by one: no other   *)
(* handler runs in between, but the process may crash and a write may fail. *)
(***************************************************************************)
EXTENDS Sequences

CONSTANTS Sales,    \* submit intents
          Baskets,  \* what customers buy
          Basket    \* Basket[s]: what s was minted for

ASSUME BasketAssumption == Basket \in [Sales -> Baskets]

VARIABLES
  journal,        \* pos-submit-attempts.json: the status of each attempt
  rows,           \* the files that hold the sale's row: queue, failed
  server,         \* does the server have it, or an abandoned request for it
  call,           \* the sale sent by the Till and not yet answered
  pass, sending,  \* where the replay pass stands, the sale it has sent
  completed, dead,  \* its completedQueueIds and the sales of its deadLetter
  doing, todo,    \* the section under way: its sale and its open writes
  told,           \* history: the operator knows that the sale is recorded
  fate,           \* history: what befell the intent
  undone          \* history: queued again under a pass that holds it dead

replay == <<pass, sending, completed, dead>>
section == <<doing, todo>>
history == <<told, fate, undone>>
vars == <<journal, rows, server, call, replay, section, history>>

NoSale == "none"
ASSUME NoSaleAssumption == NoSale \notin Sales

Statuses == {"none", "pending", "provisional", "committed"}
\* Late: the client gave the request up, the network did not.
Outcomes == {"none", "late", "applied"}
\* Refused for good; cut short by a crash once queued; cleared by a manager.
Fates == {"unused", "open", "refused", "cut", "cleared"}
\* A pass whose loop is over holds its dead letters until they are flushed.
Stages == {"idle", "loop"}
Steps == {"mark", "reply", "unfail", "reopen", "clear", "drop"}

Init ==
  /\ journal = [s \in Sales |-> "none"] /\ rows = [s \in Sales |-> {}]
  /\ server = [s \in Sales |-> "none"] /\ call = NoSale
  /\ pass = "idle" /\ sending = NoSale /\ completed = {} /\ dead = {}
  /\ doing = NoSale /\ todo = <<>>
  /\ told = {} /\ fate = [s \in Sales |-> "unused"] /\ undone = {}

\* No section is half done.
Settled == todo = <<>>

\* The section of s has made its first write and goes on with these.
Begin(s, writes) == doing' = s /\ todo' = writes

-----------------------------------------------------------------------------
(* The server: a second request with the same key changes nothing *)

Applied(s) == server' = [server EXCEPT ![s] = "applied"]
Abandoned(s) == server' = [server EXCEPT ![s] = IF @ = "none" THEN "late" ELSE @]

\* A definitive refusal is given only for a key under which the server holds
\* nothing and runs nothing.
Rejected(s) ==
  /\ server[s] # "applied"
  /\ server' = [server EXCEPT ![s] = "none"]

\* The server executes a request that its client has given up.
LateExecute(s) ==
  /\ server[s] = "late"
  /\ Applied(s)
  /\ UNCHANGED <<journal, rows, call, replay, section, history>>

-----------------------------------------------------------------------------
(* createPosOrder *)

\* Mutant: a provisional attempt blocks, a pending one does not.
UnresolvedProvisional(s) ==
  journal[s] = "none" /\ \E t \in Sales : journal[t] = "provisional"

\* resolvePosSubmitAttempt: a new attempt is refused while another one of this
\* operator is unresolved.
Unresolved(s) == journal[s] = "none" /\ \E t \in Sales : journal[t] = "pending"

\* What the operator submits: a new intent, for a basket not known to be sold,
\* or the one that the recovery banner offers.
MaySubmit(s) ==
  \/ fate[s] = "unused" /\ \A t \in told : Basket[t] # Basket[s]
  \/ journal[s] = "pending"

\* resolvePosSubmitAttempt: the attempt is recorded as pending, or reused as it
\* is.
Record(s) ==
  /\ Settled /\ call = NoSale
  /\ MaySubmit(s) /\ ~Unresolved(s)
  /\ journal' = [journal EXCEPT ![s] = IF @ = "none" THEN "pending" ELSE @]
  /\ fate' = [fate EXCEPT ![s] = IF @ = "unused" THEN "open" ELSE @]
  /\ UNCHANGED <<server, replay, told>>

\* A new attempt lacks a required choice: it stays recorded, nothing is sent.
ChoicesMissing(s) ==
  /\ Record(s)
  /\ journal[s] = "none"
  /\ UNCHANGED <<rows, call, section, undone>>

\* Online: the RPC is sent.
SubmitOnline(s) ==
  /\ Record(s)
  /\ call' = s
  /\ UNCHANGED <<rows, section, undone>>

\* The row goes into the queue file, from where a pass erases it that has given
\* it up.
Queued(s) ==
  /\ rows' = [rows EXCEPT ![s] = @ \cup {"queue"}]
  /\ undone' = IF s \in dead THEN undone \cup {s} ELSE undone \ {s}

\* Offline: the row is queued, the attempt becomes provisional, and the operator
\* gets a provisional receipt.  (If it ends between the journal and the queue, it
\* leaves what ChoicesMissing leaves.)
SubmitOffline(s) ==
  /\ Record(s) /\ Queued(s)
  /\ Begin(s, <<"mark", "reply">>)
  /\ UNCHANGED call

\* The Till's RPC ends.
Answered(s) == Settled /\ call = s /\ call' = NoSale

\* Success: commitPosSubmitAttempt.
Committed(s) == [journal EXCEPT ![s] = IF @ = "none" THEN @ ELSE "committed"]
TillSucceeds(s) ==
  /\ Answered(s) /\ Applied(s)
  /\ journal' = Committed(s)
  /\ told' = told \cup {s}
  /\ UNCHANGED <<rows, replay, section, fate, undone>>

\* A structured refusal outside the ambiguous codes: clearPosSubmitAttempt.
TillRefused(s) ==
  /\ Answered(s) /\ Rejected(s)
  /\ journal' = [journal EXCEPT ![s] = "none"]
  /\ fate' = [fate EXCEPT ![s] = "refused"]
  /\ UNCHANGED <<rows, replay, section, told, undone>>

\* A code that says nothing of an earlier attempt (Till proof, shift, tab,
\* receipt identity): the attempt stays.
TillUndecided(s) ==
  /\ Answered(s)
  /\ UNCHANGED <<journal, rows, server, replay, section, history>>

\* Mutant: a sale whose outcome is unknown is called provisional.
TimeoutProvisional(s) ==
  /\ Answered(s) /\ Abandoned(s)
  /\ journal' = [journal EXCEPT ![s] = IF @ = "pending" THEN "provisional" ELSE @]
  /\ UNCHANGED <<rows, replay, section, history>>

\* The deadline passed or the transport failed: the attempt stays pending, and
\* the request may be executed later.
TillTimesOut(s) ==
  /\ Answered(s) /\ Abandoned(s)
  /\ UNCHANGED <<journal, rows, replay, section, history>>

\* getPendingPosSubmitAttempt: the server has the order of a pending attempt, so
\* the attempt is cleared and the operator is told.  Otherwise nothing changes.
RecoveryFinds(s) ==
  /\ Settled
  /\ journal[s] = "pending" /\ server[s] = "applied"
  /\ journal' = [journal EXCEPT ![s] = "none"]
  /\ told' = told \cup {s}
  /\ UNCHANGED <<rows, server, call, replay, section, fate, undone>>

-----------------------------------------------------------------------------
(* The replay pass, as far as it concerns sales *)

\* writeReplayQueue writes the whole file: the rows of the pass and the arrivals
\* on the disk, save those that it has completed or holds dead.
ReplayQueue ==
  [s \in Sales |->
     rows[s] \ (IF s \in completed \cup dead THEN {"queue"} ELSE {})]

\* The pass is in its loop and has no sale under way (other rows may be).
InLoop == Settled /\ pass = "loop" /\ sending = NoSale

\* _runSyncQueue finds rows to send; the sweep before it is Sweep.
StartPass ==
  /\ Settled /\ pass = "idle" /\ dead = {}
  /\ \E s \in Sales : "queue" \in rows[s]
  /\ pass' = "loop"
  /\ UNCHANGED <<journal, rows, server, call, sending, completed, dead, section, history>>

\* The queue file is written for the sake of other rows.
WriteReplayQueue ==
  /\ InLoop
  /\ UNCHANGED replay
  /\ rows' = ReplayQueue
  /\ UNCHANGED <<journal, server, call, section, history>>

\* The next row of the pass that is due.
Picks(s) == InLoop /\ "queue" \in rows[s] /\ s \notin completed \cup dead

ReplaySends(s) ==
  /\ Picks(s)
  /\ sending' = s
  /\ UNCHANGED <<pass, completed, dead>>
  /\ rows' = ReplayQueue
  /\ UNCHANGED <<journal, server, call, section, history>>

ReplayEnds(s) == Settled /\ sending = s /\ sending' = NoSale /\ pass' = pass

ReplaySucceeds(s) ==
  /\ ReplayEnds(s) /\ Applied(s)
  /\ completed' = completed \cup {s} /\ dead' = dead
  /\ journal' = Committed(s)
  /\ Begin(s, <<"drop">>)
  /\ UNCHANGED <<rows, call, history>>

\* A transient failure with attempts left.
ReplayPostponed(s) ==
  /\ ReplayEnds(s) /\ Abandoned(s)
  /\ UNCHANGED <<completed, dead>>
  /\ rows' = ReplayQueue
  /\ UNCHANGED <<journal, call, section, history>>

GivesUp(s, writes) ==
  dead' = dead \cup {s} /\ completed' = completed /\ Begin(s, writes)

\* Mutant: the failed file is written by the flush at the end of the run only.
DeadLetterInMemory(s, writes) == GivesUp(s, writes) /\ UNCHANGED <<rows, undone>>

\* The writes of a dead letter: the failed file first, then the journal and the
\* queue.
DeadLetter(s, writes) ==
  /\ GivesUp(s, writes)
  /\ rows' = [rows EXCEPT ![s] = @ \cup {"failed"}]
  /\ undone' = undone \ {s}

\* The attempts are used up by transient failures, or the refusal does not prove
\* that the sale is absent: shouldRetainPosSubmitJournal reopens the attempt.
ReplayUnproven(s) ==
  /\ ReplayEnds(s) /\ Abandoned(s)
  /\ DeadLetter(s, <<"reopen", "drop">>)
  /\ UNCHANGED <<journal, call, told, fate>>

\* A definitive refusal parks the row and clears the attempt; the operator
\* learns that the sale was not recorded.
ReplayRefused(s) ==
  /\ ReplayEnds(s) /\ Rejected(s)
  /\ DeadLetter(s, <<"clear", "drop">>)
  /\ told' = told \ {s}
  /\ fate' = [fate EXCEPT ![s] = "refused"]
  /\ UNCHANGED <<journal, call>>

\* A row it waits for can no longer succeed, or it is in a dependency cycle: it
\* is parked unsent, and the journal is left alone.
ReplaySkips(s) ==
  /\ Picks(s)
  /\ DeadLetter(s, <<"drop">>)
  /\ UNCHANGED <<journal, server, call, pass, sending, told, fate>>

\* The loop is over: nothing is due, or the link is gone.
EndPass ==
  /\ InLoop
  /\ pass' = "idle" /\ completed' = {}
  /\ UNCHANGED <<sending, dead>>
  /\ rows' = ReplayQueue
  /\ UNCHANGED <<journal, server, call, section, history>>

\* The pass holds no row dead any more.  What was put back under it and is still
\* in a file has escaped it.
ForgetsDead == dead' = {} /\ undone' = {s \in undone : rows'[s] = {}}

\* The flush at the end of the run shows every dead letter again.
Flush ==
  /\ Settled /\ pass = "idle" /\ dead # {}
  /\ rows' = [s \in Sales |-> rows[s] \cup (IF s \in dead THEN {"failed"} ELSE {})]
  /\ ForgetsDead
  /\ UNCHANGED <<journal, server, call, pass, sending, completed, section, told, fate>>

-----------------------------------------------------------------------------
(* Review actions *)

\* A failed row returns to the queue.
Requeue(s) ==
  /\ Settled
  /\ "failed" \in rows[s]
  /\ Queued(s)
  /\ Begin(s, <<"unfail">>)
  /\ UNCHANGED <<journal, server, call, replay, told, fate>>

\* The automatic sweeps take rows that failed half an hour ago, or that waited for
\* a server contract before the pass: none that the pass under way has given up.
Sweep(s) == s \notin dead /\ Requeue(s)

\* retrySyncItems takes any row, also one that a pass under way has given up.
ManagerRetries(s) == Requeue(s)

\* clearSyncFailed takes the row out of review; the attempt stays as it is.
ManagerClears(s) ==
  /\ Settled
  /\ "failed" \in rows[s]
  /\ rows' = [rows EXCEPT ![s] = @ \ {"failed"}]
  /\ told' = told \ {s}
  /\ fate' = [fate EXCEPT ![s] = "cleared"]
  /\ UNCHANGED <<journal, server, call, replay, section, undone>>

-----------------------------------------------------------------------------
(* The durable writes of a section, one by one *)

Step(name) ==
  /\ ~Settled /\ Head(todo) = name
  /\ todo' = Tail(todo)
  /\ doing' = IF Tail(todo) = <<>> THEN NoSale ELSE doing

OnlyRows == UNCHANGED <<journal, server, call, replay, history>>
OnlyJournal == UNCHANGED <<rows, server, call, replay, history>>

DropRow == Step("drop") /\ OnlyRows /\ rows' = ReplayQueue
UnfailRow == Step("unfail") /\ OnlyRows
             /\ rows' = [rows EXCEPT ![doing] = @ \ {"failed"}]

\* markPosSubmitAttemptProvisional and reopenPosSubmitAttempt change an attempt
\* only from the status they expect.
Changed(from, to) == [journal EXCEPT ![doing] = IF @ = from THEN to ELSE @]

\* Mutant: a status that readAttempts rejects as corrupt.
MarkQueued == Step("mark") /\ OnlyJournal /\ journal' = Changed("pending", "queued")

MarkProvisional == Step("mark") /\ OnlyJournal /\ journal' = Changed("pending", "provisional")
Reopen == Step("reopen") /\ OnlyJournal /\ journal' = Changed("provisional", "pending")
Clear == Step("clear") /\ OnlyJournal /\ journal' = [journal EXCEPT ![doing] = "none"]

Reply ==
  /\ Step("reply")
  /\ told' = told \cup {doing}
  /\ UNCHANGED <<journal, rows, server, call, replay, fate, undone>>

Proceed ==
  \/ DropRow \/ UnfailRow
  \/ MarkProvisional \/ Reopen \/ Clear \/ Reply

-----------------------------------------------------------------------------
(* Failed writes and the process *)

\* The rest of the section is not made.  A sale that was queued and whose
\* receipt was never given is cut short.
Abandon ==
  /\ doing' = NoSale /\ todo' = <<>>
  /\ fate' = [s \in Sales |->
       IF s = doing /\ Head(todo) \in {"mark", "reply"} THEN "cut" ELSE fate[s]]

Interrupted == pass' = "idle" /\ sending' = NoSale /\ completed' = {} /\ ForgetsDead

\* A later write of a handler throws: the caller gets the error, a pass goes on.
WriteFails ==
  /\ ~Settled /\ Head(todo) \in {"mark", "unfail"}
  /\ Abandon
  /\ UNCHANGED <<journal, rows, server, call, replay, told, undone>>

\* A write of the pass throws and ends it (the incremental write of a dead
\* letter is caught).  The rows it held dead are not flushed.
PassFails ==
  /\ pass = "loop" \/ dead # {}
  /\ sending = NoSale
  /\ ~Settled => Head(todo) \in {"reopen", "clear", "drop"}
  /\ UNCHANGED <<journal, rows, server, call, told>>
  /\ Abandon
  /\ Interrupted

\* The process dies.  Requests that are out stay out.
Crash ==
  /\ ~Settled \/ call # NoSale \/ pass = "loop" \/ dead # {}
  /\ UNCHANGED <<journal, rows, told>>
  /\ Abandon
  /\ Interrupted
  /\ call' = NoSale
  /\ server' = [s \in Sales |->
       IF server[s] = "none" /\ s \in {call, sending} THEN "late" ELSE server[s]]

Till(s) ==
  \/ ChoicesMissing(s) \/ SubmitOnline(s) \/ SubmitOffline(s)
  \/ TillSucceeds(s) \/ TillRefused(s) \/ TillUndecided(s) \/ TillTimesOut(s)
  \/ RecoveryFinds(s)

Replay(s) ==
  \/ ReplaySends(s) \/ ReplaySucceeds(s) \/ ReplayPostponed(s)
  \/ ReplayUnproven(s) \/ ReplayRefused(s) \/ ReplaySkips(s)

Review(s) == Sweep(s) \/ ManagerRetries(s) \/ ManagerClears(s)

Next ==
  \/ \E s \in Sales : Till(s) \/ Replay(s) \/ Review(s) \/ LateExecute(s)
  \/ StartPass \/ WriteReplayQueue \/ EndPass \/ Flush
  \/ Proceed \/ Crash \/ PassFails \/ WriteFails

Spec == Init /\ [][Next]_vars
-----------------------------------------------------------------------------
(* Properties *)

TypeOK ==
  /\ journal \in [Sales -> Statuses] /\ rows \in [Sales -> SUBSET {"queue", "failed"}]
  /\ server \in [Sales -> Outcomes] /\ fate \in [Sales -> Fates] /\ told \subseteq Sales
  /\ call \in Sales \cup {NoSale} /\ sending \in Sales \cup {NoSale}
  /\ pass \in Stages /\ completed \subseteq Sales /\ dead \subseteq Sales
  /\ undone \subseteq Sales
  /\ todo \in Seq(Steps) /\ doing \in Sales \cup {NoSale}
  /\ todo = <<>> <=> doing = NoSale

\* The operator was given a reason to ring the basket up again, or lost the
\* answer to a sale that was queued.
Excused(s) == fate[s] \in {"refused", "cut", "cleared"}

\* A basket is not sold twice, whatever requests time out, execute late, are
\* retried, queued, dead-lettered and recovered, unless one of its sales was
\* refused or cleared, or a crash cut it short after it was queued
\* (resolvePosSubmitAttempt, getPendingPosSubmitAttempt).
OneSalePerBasket ==
  \A s, t \in Sales :
    s # t /\ Basket[s] = Basket[t] /\ server[s] = "applied" /\ server[t] = "applied"
      => Excused(s) \/ Excused(t)

\* "A structured server rejection is authoritative proof that this attempt did
\* not commit": a refused sale is not recorded, then or later (createPosOrder).
RefusedStaysOut == \A s \in Sales : fate[s] = "refused" => server[s] # "applied"

\* A sale that the operator knows as recorded is not lost: the server has it, or
\* one of the files (createPosOrder offline, the writes of a dead letter, of a
\* success and of a requeue, and the pass's writes of the whole queue).  The
\* exception is a sale put back into the queue under the pass that had given it
\* up: the pass erases it, and keeps it in memory only until it ends.
ToldSaleKept ==
  \A s \in told : server[s] = "applied" \/ rows[s] # {} \/ s \in undone

\* A provisional attempt, which neither blocks a new sale nor shows in the
\* banner, is owned by the queue: its row is in a file, unless the server has the
\* sale or a manager cleared it, or it was put back into the queue under the pass
\* that had given it up (markPosSubmitAttemptProvisional).
ProvisionalOwned ==
  \A s \in Sales : journal[s] = "provisional" =>
    rows[s] # {} \/ server[s] = "applied" \/ fate[s] = "cleared" \/ s \in undone
=============================================================================
