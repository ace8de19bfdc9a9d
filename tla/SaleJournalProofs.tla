-------------------------- MODULE SaleJournalProofs --------------------------
(***************************************************************************)
(* The Till's promises hold for any number of sales and baskets.           *)
(***************************************************************************)
EXTENDS SaleJournal, TLAPS

(* What a section may still have to write *)
Marking == <<"mark", "reply">>
Replying == <<"reply">>
Submitting == {Marking, Replying}
Unfailing == <<"unfail">>
Reopening == <<"reopen", "drop">>
Clearing == <<"clear", "drop">>
Judging == {Reopening, Clearing}
Dropping == <<"drop">>
Replaying == {Dropping} \cup Judging
Sections == {<<>>, Unfailing} \cup Submitting \cup Replaying

\* An intent that was never submitted has left no trace.
NoTrace == \A s \in Sales : fate[s] = "unused" =>
  /\ journal[s] = "none" /\ rows[s] = {} /\ server[s] = "none"
  /\ s \notin told /\ s \notin dead /\ call # s /\ sending # s /\ doing # s

\* The operator knows of an open sale, or the journal blocks the Till for it, or
\* its receipt is being made.
Accounted == \A s \in Sales : fate[s] = "open" =>
  s \in told \/ journal[s] = "pending" \/ (doing = s /\ todo \in Submitting)

\* The operator knows of an open sale with a row.
RowsTold == \A s \in Sales :
  fate[s] = "open" /\ (rows[s] # {} \/ s \in dead \/ doing = s) =>
    s \in told \/ (doing = s /\ todo \in Submitting)

\* One open sale for a basket.
OneOpen == \A s, t \in Sales :
  s # t /\ Basket[s] = Basket[t] => ~(fate[s] = "open" /\ fate[t] = "open")

\* What the section under way has already achieved.
SectionOK ==
  /\ todo \in Sections
  /\ todo \in Submitting \cup {Unfailing} =>
       "queue" \in rows[doing] /\ (doing \in dead => doing \in undone)
  /\ todo \in Replaying => sending = NoSale
  /\ \A s \in Sales : sending = s => "queue" \in rows[s]

\* Why the pass may erase the rows it has completed or given up: the server has
\* the sale, or the failed file, unless it was put back under the pass, or nobody
\* counts on it.
ErasesSafely ==
  /\ \A s \in completed : server[s] = "applied"
  /\ \A s \in dead :
       \/ server[s] = "applied" \/ "failed" \in rows[s] \/ s \in undone
       \/ s \notin told /\ (journal[s] = "provisional" => fate[s] = "cleared")

IInv ==
  /\ TypeOK /\ NoTrace /\ Accounted /\ RowsTold /\ OneOpen /\ SectionOK
  /\ ErasesSafely /\ ToldSaleKept /\ ProvisionalOwned

-----------------------------------------------------------------------------
(* Sections as sequences *)

\* The sections are sequences of writes, all of them different.
LEMMA SectionsTyped == Sections \subseteq Seq(Steps)
BY DEF Sections, Submitting, Replaying, Judging, Unfailing, Marking, Replying,
       Reopening, Clearing, Dropping, Steps

LEMMA Lengths ==
  /\ Len(<<>>) = 0 /\ Len(Replying) = 1 /\ Len(Dropping) = 1 /\ Len(Unfailing) = 1
  /\ Len(Marking) = 2 /\ Len(Reopening) = 2 /\ Len(Clearing) = 2
BY DEF Unfailing, Marking, Replying, Reopening, Clearing, Dropping

LEMMA Heads ==
  /\ Head(Replying) = "reply" /\ Head(Dropping) = "drop" /\ Head(Unfailing) = "unfail"
  /\ Head(Marking) = "mark" /\ Head(Reopening) = "reopen" /\ Head(Clearing) = "clear"
BY DEF Unfailing, Marking, Replying, Reopening, Clearing, Dropping

LEMMA Tails ==
  /\ Tail(Replying) = <<>> /\ Tail(Dropping) = <<>> /\ Tail(Unfailing) = <<>>
  /\ Tail(Marking) = Replying /\ Tail(Reopening) = Dropping /\ Tail(Clearing) = Dropping
BY DEF Unfailing, Marking, Replying, Reopening, Clearing, Dropping

\* The next write tells the section.
LEMMA ByHead ==
  ASSUME NEW x \in Sections, x # <<>>
  PROVE  /\ Head(x) = "mark" => x = Marking
         /\ Head(x) = "reply" => x = Replying
         /\ Head(x) = "reopen" => x = Reopening
         /\ Head(x) = "clear" => x = Clearing
         /\ Head(x) = "drop" => x = Dropping
         /\ Head(x) = "unfail" => x = Unfailing
BY Heads DEF Sections, Submitting, Replaying, Judging

\* Sections of different kinds differ.
LEMMA Kinds ==
  /\ <<>> \in Sections /\ Unfailing \in Sections
  /\ Submitting \subseteq Sections /\ Replaying \subseteq Sections
  /\ <<>> \notin Submitting /\ <<>> \notin Replaying /\ <<>> # Unfailing
  /\ Unfailing \notin Submitting /\ Unfailing \notin Replaying
  /\ \A x \in Submitting : x \notin Replaying
  /\ Marking \in Submitting /\ Replying \in Submitting
  /\ Reopening \in Replaying /\ Clearing \in Replaying /\ Dropping \in Replaying
BY Lengths, Heads DEF Sections, Submitting, Replaying, Judging

-----------------------------------------------------------------------------
(* The initial state *)

LEMMA NoSaleApart == NoSale \notin Sales
BY NoSaleAssumption

LEMMA InitInvariant == Init => IInv
<1> SUFFICES ASSUME Init PROVE IInv
  OBVIOUS
<1>1. todo \in Sections
  BY DEF Init, Sections
<1>2. TypeOK
  BY <1>1, SectionsTyped DEF Init, TypeOK, Statuses, Outcomes, Fates, Stages
<1>3. NoTrace /\ Accounted /\ RowsTold /\ OneOpen /\ ToldSaleKept /\ ProvisionalOwned
  BY NoSaleApart DEF Init, NoTrace, Accounted, RowsTold, OneOpen, ToldSaleKept, ProvisionalOwned
<1>4. SectionOK /\ ErasesSafely
  BY Kinds, NoSaleApart DEF Init, SectionOK, ErasesSafely
<1> QED  BY <1>2, <1>3, <1>4 DEF IInv

-----------------------------------------------------------------------------
(* Steps between sections *)

\* A sale recorded and not sent.
LEMMA RecordChoices ==
  ASSUME IInv, NEW s \in Sales, ChoicesMissing(s)
  PROVE  IInv'
<1> USE DEF IInv, TypeOK, ChoicesMissing, Settled, Record, MaySubmit, Unresolved,
            replay, section, history
<1>1. TypeOK'
  BY NoSaleApart, Kinds, SectionsTyped
  DEF Statuses, Outcomes, Fates, Stages, SectionOK, NoTrace
<1>2. NoTrace'
  BY NoSaleApart, Kinds DEF NoTrace, SectionOK
<1>3. Accounted'
  BY NoSaleApart, Kinds DEF Accounted, NoTrace, RowsTold, SectionOK
<1>4. RowsTold'
  BY NoSaleApart, Kinds DEF RowsTold, NoTrace, SectionOK
<1>5. OneOpen'
  BY NoSaleApart, Kinds DEF OneOpen, NoTrace, Accounted
<1>6. SectionOK'
  BY NoSaleApart, Kinds DEF SectionOK
<1>7. ErasesSafely'
  BY NoSaleApart, Kinds DEF ErasesSafely, SectionOK
<1>8. ToldSaleKept'
  BY NoSaleApart, Kinds DEF ToldSaleKept, SectionOK, ErasesSafely, NoTrace
<1>9. ProvisionalOwned'
  BY NoSaleApart, Kinds DEF ProvisionalOwned, SectionOK, ErasesSafely, NoTrace
<1> QED  BY <1>1, <1>2, <1>3, <1>4, <1>5, <1>6, <1>7, <1>8, <1>9 DEF IInv

\* A sale sent online.
LEMMA RecordOnline ==
  ASSUME IInv, NEW s \in Sales, SubmitOnline(s)
  PROVE  IInv'
<1> USE DEF IInv, TypeOK, SubmitOnline, Settled, Record, MaySubmit, Unresolved,
            replay, section, history
<1>1. TypeOK'
  BY NoSaleApart, Kinds, SectionsTyped
  DEF Statuses, Outcomes, Fates, Stages, SectionOK, NoTrace
<1>2. NoTrace'
  BY NoSaleApart, Kinds DEF NoTrace, SectionOK
<1>3. Accounted'
  BY NoSaleApart, Kinds DEF Accounted, NoTrace, RowsTold, SectionOK
<1>4. RowsTold'
  BY NoSaleApart, Kinds DEF RowsTold, NoTrace, SectionOK
<1>5. OneOpen'
  BY NoSaleApart, Kinds DEF OneOpen, NoTrace, Accounted
<1>6. SectionOK'
  BY NoSaleApart, Kinds DEF SectionOK
<1>7. ErasesSafely'
  BY NoSaleApart, Kinds DEF ErasesSafely, SectionOK
<1>8. ToldSaleKept'
  BY NoSaleApart, Kinds DEF ToldSaleKept, SectionOK, ErasesSafely, NoTrace
<1>9. ProvisionalOwned'
  BY NoSaleApart, Kinds DEF ProvisionalOwned, SectionOK, ErasesSafely, NoTrace
<1> QED  BY <1>1, <1>2, <1>3, <1>4, <1>5, <1>6, <1>7, <1>8, <1>9 DEF IInv

\* The server's success answered to the Till.
LEMMA TillSuccess ==
  ASSUME IInv, NEW s \in Sales, TillSucceeds(s)
  PROVE  IInv'
<1> USE DEF IInv, TypeOK, TillSucceeds, Answered, Applied, Committed, Settled,
            replay, section, history
<1>1. TypeOK'
  BY NoSaleApart, Kinds, SectionsTyped
  DEF Statuses, Outcomes, Fates, Stages, SectionOK, NoTrace
<1>2. NoTrace'
  BY NoSaleApart, Kinds DEF NoTrace, SectionOK
<1>3. Accounted'
  BY NoSaleApart, Kinds DEF Accounted, NoTrace, RowsTold, SectionOK
<1>4. RowsTold'
  BY NoSaleApart, Kinds DEF RowsTold, NoTrace, SectionOK
<1>5. OneOpen'
  BY NoSaleApart, Kinds DEF OneOpen, NoTrace, Accounted
<1>6. SectionOK'
  BY NoSaleApart, Kinds DEF SectionOK
<1>7. ErasesSafely'
  BY NoSaleApart, Kinds DEF ErasesSafely, SectionOK
<1>8. ToldSaleKept'
  BY NoSaleApart, Kinds DEF ToldSaleKept, SectionOK, ErasesSafely, NoTrace
<1>9. ProvisionalOwned'
  BY NoSaleApart, Kinds DEF ProvisionalOwned, SectionOK, ErasesSafely, NoTrace
<1> QED  BY <1>1, <1>2, <1>3, <1>4, <1>5, <1>6, <1>7, <1>8, <1>9 DEF IInv

\* A refusal answered to the Till.
LEMMA TillRefusal ==
  ASSUME IInv, NEW s \in Sales, TillRefused(s)
  PROVE  IInv'
<1> USE DEF IInv, TypeOK, TillRefused, Answered, Rejected, Settled, replay,
            section, history
<1>1. TypeOK'
  BY NoSaleApart, Kinds, SectionsTyped
  DEF Statuses, Outcomes, Fates, Stages, SectionOK, NoTrace
<1>2. NoTrace'
  BY NoSaleApart, Kinds DEF NoTrace, SectionOK
<1>3. Accounted'
  BY NoSaleApart, Kinds DEF Accounted, NoTrace, RowsTold, SectionOK
<1>4. RowsTold'
  BY NoSaleApart, Kinds DEF RowsTold, NoTrace, SectionOK
<1>5. OneOpen'
  BY NoSaleApart, Kinds DEF OneOpen, NoTrace, Accounted
<1>6. SectionOK'
  BY NoSaleApart, Kinds DEF SectionOK
<1>7. ErasesSafely'
  BY NoSaleApart, Kinds DEF ErasesSafely, SectionOK
<1>8. ToldSaleKept'
  BY NoSaleApart, Kinds DEF ToldSaleKept, SectionOK, ErasesSafely, NoTrace
<1>9. ProvisionalOwned'
  BY NoSaleApart, Kinds DEF ProvisionalOwned, SectionOK, ErasesSafely, NoTrace
<1> QED  BY <1>1, <1>2, <1>3, <1>4, <1>5, <1>6, <1>7, <1>8, <1>9 DEF IInv

\* An answer without a verdict, or none.
LEMMA TillNoVerdict ==
  ASSUME IInv, NEW s \in Sales, TillUndecided(s) \/ TillTimesOut(s)
  PROVE  IInv'
<1> USE DEF IInv, TypeOK, TillUndecided, TillTimesOut, Answered, Abandoned,
            Settled, replay, section, history
<1>1. TypeOK'
  BY NoSaleApart, Kinds, SectionsTyped
  DEF Statuses, Outcomes, Fates, Stages, SectionOK, NoTrace
<1>2. NoTrace'
  BY NoSaleApart, Kinds DEF NoTrace, SectionOK
<1>3. Accounted'
  BY NoSaleApart, Kinds DEF Accounted, NoTrace, RowsTold, SectionOK
<1>4. RowsTold'
  BY NoSaleApart, Kinds DEF RowsTold, NoTrace, SectionOK
<1>5. OneOpen'
  BY NoSaleApart, Kinds DEF OneOpen, NoTrace, Accounted
<1>6. SectionOK'
  BY NoSaleApart, Kinds DEF SectionOK
<1>7. ErasesSafely'
  BY NoSaleApart, Kinds DEF ErasesSafely, SectionOK
<1>8. ToldSaleKept'
  BY NoSaleApart, Kinds DEF ToldSaleKept, SectionOK, ErasesSafely, NoTrace
<1>9. ProvisionalOwned'
  BY NoSaleApart, Kinds DEF ProvisionalOwned, SectionOK, ErasesSafely, NoTrace
<1> QED  BY <1>1, <1>2, <1>3, <1>4, <1>5, <1>6, <1>7, <1>8, <1>9 DEF IInv

\* The recovery check finds the sale.
LEMMA Recovery ==
  ASSUME IInv, NEW s \in Sales, RecoveryFinds(s)
  PROVE  IInv'
<1> USE DEF IInv, TypeOK, RecoveryFinds, Settled, replay, section, history
<1>1. TypeOK'
  BY NoSaleApart, Kinds, SectionsTyped
  DEF Statuses, Outcomes, Fates, Stages, SectionOK, NoTrace
<1>2. NoTrace'
  BY NoSaleApart, Kinds DEF NoTrace, SectionOK
<1>3. Accounted'
  BY NoSaleApart, Kinds DEF Accounted, NoTrace, RowsTold, SectionOK
<1>4. RowsTold'
  BY NoSaleApart, Kinds DEF RowsTold, NoTrace, SectionOK
<1>5. OneOpen'
  BY NoSaleApart, Kinds DEF OneOpen, NoTrace, Accounted
<1>6. SectionOK'
  BY NoSaleApart, Kinds DEF SectionOK
<1>7. ErasesSafely'
  BY NoSaleApart, Kinds DEF ErasesSafely, SectionOK
<1>8. ToldSaleKept'
  BY NoSaleApart, Kinds DEF ToldSaleKept, SectionOK, ErasesSafely, NoTrace
<1>9. ProvisionalOwned'
  BY NoSaleApart, Kinds DEF ProvisionalOwned, SectionOK, ErasesSafely, NoTrace
<1> QED  BY <1>1, <1>2, <1>3, <1>4, <1>5, <1>6, <1>7, <1>8, <1>9 DEF IInv

\* A manager clears a failed row.
LEMMA ManagerClear ==
  ASSUME IInv, NEW s \in Sales, ManagerClears(s)
  PROVE  IInv'
<1> USE DEF IInv, TypeOK, ManagerClears, Settled, replay, section, history
<1>1. TypeOK'
  BY NoSaleApart, Kinds, SectionsTyped
  DEF Statuses, Outcomes, Fates, Stages, SectionOK, NoTrace
<1>2. NoTrace'
  BY NoSaleApart, Kinds DEF NoTrace, SectionOK
<1>3. Accounted'
  BY NoSaleApart, Kinds DEF Accounted, NoTrace, RowsTold, SectionOK
<1>4. RowsTold'
  BY NoSaleApart, Kinds DEF RowsTold, NoTrace, SectionOK
<1>5. OneOpen'
  BY NoSaleApart, Kinds DEF OneOpen, NoTrace, Accounted
<1>6. SectionOK'
  BY NoSaleApart, Kinds DEF SectionOK
<1>7. ErasesSafely'
  BY NoSaleApart, Kinds DEF ErasesSafely, SectionOK
<1>8. ToldSaleKept'
  BY NoSaleApart, Kinds DEF ToldSaleKept, SectionOK, ErasesSafely, NoTrace
<1>9. ProvisionalOwned'
  BY NoSaleApart, Kinds DEF ProvisionalOwned, SectionOK, ErasesSafely, NoTrace
<1> QED  BY <1>1, <1>2, <1>3, <1>4, <1>5, <1>6, <1>7, <1>8, <1>9 DEF IInv

\* The server executes an abandoned request.
LEMMA LateExecution ==
  ASSUME IInv, NEW s \in Sales, LateExecute(s)
  PROVE  IInv'
<1> USE DEF IInv, TypeOK, LateExecute, Applied, replay, section, history
<1>1. TypeOK'
  BY NoSaleApart, Kinds, SectionsTyped
  DEF Statuses, Outcomes, Fates, Stages, SectionOK, NoTrace
<1>2. NoTrace'
  BY NoSaleApart, Kinds DEF NoTrace, SectionOK
<1>3. Accounted'
  BY NoSaleApart, Kinds DEF Accounted, NoTrace, RowsTold, SectionOK
<1>4. RowsTold'
  BY NoSaleApart, Kinds DEF RowsTold, NoTrace, SectionOK
<1>5. OneOpen'
  BY NoSaleApart, Kinds DEF OneOpen, NoTrace, Accounted
<1>6. SectionOK'
  BY NoSaleApart, Kinds DEF SectionOK
<1>7. ErasesSafely'
  BY NoSaleApart, Kinds DEF ErasesSafely, SectionOK
<1>8. ToldSaleKept'
  BY NoSaleApart, Kinds DEF ToldSaleKept, SectionOK, ErasesSafely, NoTrace
<1>9. ProvisionalOwned'
  BY NoSaleApart, Kinds DEF ProvisionalOwned, SectionOK, ErasesSafely, NoTrace
<1> QED  BY <1>1, <1>2, <1>3, <1>4, <1>5, <1>6, <1>7, <1>8, <1>9 DEF IInv

-----------------------------------------------------------------------------
(* Steps of the pass *)

\* A pass begins.
LEMMA PassStart ==
  ASSUME IInv, StartPass
  PROVE  IInv'
<1> USE DEF IInv, TypeOK, StartPass, Settled, replay, section, history
<1>1. TypeOK'
  BY NoSaleApart, Kinds, SectionsTyped
  DEF Statuses, Outcomes, Fates, Stages, SectionOK, NoTrace
<1>2. NoTrace'
  BY NoSaleApart, Kinds DEF NoTrace, SectionOK
<1>3. Accounted'
  BY NoSaleApart, Kinds DEF Accounted, NoTrace, RowsTold, SectionOK
<1>4. RowsTold'
  BY NoSaleApart, Kinds DEF RowsTold, NoTrace, SectionOK
<1>5. OneOpen'
  BY NoSaleApart, Kinds DEF OneOpen, NoTrace, Accounted
<1>6. SectionOK'
  BY NoSaleApart, Kinds DEF SectionOK
<1>7. ErasesSafely'
  BY NoSaleApart, Kinds DEF ErasesSafely, SectionOK
<1>8. ToldSaleKept'
  BY NoSaleApart, Kinds DEF ToldSaleKept, SectionOK, ErasesSafely, NoTrace
<1>9. ProvisionalOwned'
  BY NoSaleApart, Kinds DEF ProvisionalOwned, SectionOK, ErasesSafely, NoTrace
<1> QED  BY <1>1, <1>2, <1>3, <1>4, <1>5, <1>6, <1>7, <1>8, <1>9 DEF IInv

\* The queue file is written for other rows.
LEMMA QueueWrite ==
  ASSUME IInv, WriteReplayQueue
  PROVE  IInv'
<1> USE DEF IInv, TypeOK, WriteReplayQueue, ReplayQueue, InLoop, Settled, replay,
            section, history
<1>1. TypeOK'
  BY NoSaleApart, Kinds, SectionsTyped
  DEF Statuses, Outcomes, Fates, Stages, SectionOK, NoTrace
<1>2. NoTrace'
  BY NoSaleApart, Kinds DEF NoTrace, SectionOK
<1>3. Accounted'
  BY NoSaleApart, Kinds DEF Accounted, NoTrace, RowsTold, SectionOK
<1>4. RowsTold'
  BY NoSaleApart, Kinds DEF RowsTold, NoTrace, SectionOK
<1>5. OneOpen'
  BY NoSaleApart, Kinds DEF OneOpen, NoTrace, Accounted
<1>6. SectionOK'
  BY NoSaleApart, Kinds DEF SectionOK
<1>7. ErasesSafely'
  BY NoSaleApart, Kinds DEF ErasesSafely, SectionOK
<1>8. ToldSaleKept'
  BY NoSaleApart, Kinds DEF ToldSaleKept, SectionOK, ErasesSafely, NoTrace
<1>9. ProvisionalOwned'
  BY NoSaleApart, Kinds DEF ProvisionalOwned, SectionOK, ErasesSafely, NoTrace
<1> QED  BY <1>1, <1>2, <1>3, <1>4, <1>5, <1>6, <1>7, <1>8, <1>9 DEF IInv

\* The pass sends the row.
LEMMA ReplaySend ==
  ASSUME IInv, NEW s \in Sales, ReplaySends(s)
  PROVE  IInv'
<1> USE DEF IInv, TypeOK, ReplaySends, Picks, ReplayQueue, InLoop, Settled,
            replay, section, history
<1>1. TypeOK'
  BY NoSaleApart, Kinds, SectionsTyped
  DEF Statuses, Outcomes, Fates, Stages, SectionOK, NoTrace
<1>2. NoTrace'
  BY NoSaleApart, Kinds DEF NoTrace, SectionOK
<1>3. Accounted'
  BY NoSaleApart, Kinds DEF Accounted, NoTrace, RowsTold, SectionOK
<1>4. RowsTold'
  BY NoSaleApart, Kinds DEF RowsTold, NoTrace, SectionOK
<1>5. OneOpen'
  BY NoSaleApart, Kinds DEF OneOpen, NoTrace, Accounted
<1>6. SectionOK'
  BY NoSaleApart, Kinds DEF SectionOK
<1>7. ErasesSafely'
  BY NoSaleApart, Kinds DEF ErasesSafely, SectionOK
<1>8. ToldSaleKept'
  BY NoSaleApart, Kinds DEF ToldSaleKept, SectionOK, ErasesSafely, NoTrace
<1>9. ProvisionalOwned'
  BY NoSaleApart, Kinds DEF ProvisionalOwned, SectionOK, ErasesSafely, NoTrace
<1> QED  BY <1>1, <1>2, <1>3, <1>4, <1>5, <1>6, <1>7, <1>8, <1>9 DEF IInv

\* The pass keeps the row for later.
LEMMA ReplayPostpone ==
  ASSUME IInv, NEW s \in Sales, ReplayPostponed(s)
  PROVE  IInv'
<1> USE DEF IInv, TypeOK, ReplayPostponed, ReplayEnds, ReplayQueue, Abandoned,
            Settled, replay, section, history
<1>1. TypeOK'
  BY NoSaleApart, Kinds, SectionsTyped
  DEF Statuses, Outcomes, Fates, Stages, SectionOK, NoTrace
<1>2. NoTrace'
  BY NoSaleApart, Kinds DEF NoTrace, SectionOK
<1>3. Accounted'
  BY NoSaleApart, Kinds DEF Accounted, NoTrace, RowsTold, SectionOK
<1>4. RowsTold'
  BY NoSaleApart, Kinds DEF RowsTold, NoTrace, SectionOK
<1>5. OneOpen'
  BY NoSaleApart, Kinds DEF OneOpen, NoTrace, Accounted
<1>6. SectionOK'
  BY NoSaleApart, Kinds DEF SectionOK
<1>7. ErasesSafely'
  BY NoSaleApart, Kinds DEF ErasesSafely, SectionOK
<1>8. ToldSaleKept'
  BY NoSaleApart, Kinds DEF ToldSaleKept, SectionOK, ErasesSafely, NoTrace
<1>9. ProvisionalOwned'
  BY NoSaleApart, Kinds DEF ProvisionalOwned, SectionOK, ErasesSafely, NoTrace
<1> QED  BY <1>1, <1>2, <1>3, <1>4, <1>5, <1>6, <1>7, <1>8, <1>9 DEF IInv

\* The loop is over.
LEMMA PassEnd ==
  ASSUME IInv, EndPass
  PROVE  IInv'
<1> USE DEF IInv, TypeOK, EndPass, ReplayQueue, InLoop, Settled, replay, section,
            history
<1>1. TypeOK'
  BY NoSaleApart, Kinds, SectionsTyped
  DEF Statuses, Outcomes, Fates, Stages, SectionOK, NoTrace
<1>2. NoTrace'
  BY NoSaleApart, Kinds DEF NoTrace, SectionOK
<1>3. Accounted'
  BY NoSaleApart, Kinds DEF Accounted, NoTrace, RowsTold, SectionOK
<1>4. RowsTold'
  BY NoSaleApart, Kinds DEF RowsTold, NoTrace, SectionOK
<1>5. OneOpen'
  BY NoSaleApart, Kinds DEF OneOpen, NoTrace, Accounted
<1>6. SectionOK'
  BY NoSaleApart, Kinds DEF SectionOK
<1>7. ErasesSafely'
  BY NoSaleApart, Kinds DEF ErasesSafely, SectionOK
<1>8. ToldSaleKept'
  BY NoSaleApart, Kinds DEF ToldSaleKept, SectionOK, ErasesSafely, NoTrace
<1>9. ProvisionalOwned'
  BY NoSaleApart, Kinds DEF ProvisionalOwned, SectionOK, ErasesSafely, NoTrace
<1> QED  BY <1>1, <1>2, <1>3, <1>4, <1>5, <1>6, <1>7, <1>8, <1>9 DEF IInv

\* The dead letters are flushed.
LEMMA FlushStep ==
  ASSUME IInv, Flush
  PROVE  IInv'
<1> USE DEF IInv, TypeOK, Flush, ForgetsDead, Settled, replay, section, history
<1>1. TypeOK'
  BY NoSaleApart, Kinds, SectionsTyped
  DEF Statuses, Outcomes, Fates, Stages, SectionOK, NoTrace
<1>2. NoTrace'
  BY NoSaleApart, Kinds DEF NoTrace, SectionOK
<1>3. Accounted'
  BY NoSaleApart, Kinds DEF Accounted, NoTrace, RowsTold, SectionOK
<1>4. RowsTold'
  BY NoSaleApart, Kinds DEF RowsTold, NoTrace, SectionOK
<1>5. OneOpen'
  BY NoSaleApart, Kinds DEF OneOpen, NoTrace, Accounted
<1>6. SectionOK'
  BY NoSaleApart, Kinds DEF SectionOK
<1>7. ErasesSafely'
  BY NoSaleApart, Kinds DEF ErasesSafely, SectionOK
<1>8. ToldSaleKept'
  BY NoSaleApart, Kinds DEF ToldSaleKept, SectionOK, ErasesSafely, NoTrace
<1>9. ProvisionalOwned'
  BY NoSaleApart, Kinds DEF ProvisionalOwned, SectionOK, ErasesSafely, NoTrace
<1> QED  BY <1>1, <1>2, <1>3, <1>4, <1>5, <1>6, <1>7, <1>8, <1>9 DEF IInv

-----------------------------------------------------------------------------
(* Steps that begin a section *)

\* A sale is queued.
LEMMA OfflineSale ==
  ASSUME IInv, NEW s \in Sales, SubmitOffline(s)
  PROVE  IInv'
<1> USE DEF IInv, TypeOK, SubmitOffline, Queued, Record, MaySubmit, Unresolved,
            Begin, Settled, replay, section, history
<1>a. todo' = Marking
  BY DEF Marking
<1>1. TypeOK'
  BY NoSaleApart, Kinds, <1>a, SectionsTyped
  DEF Statuses, Outcomes, Fates, Stages, SectionOK, NoTrace
<1>2. NoTrace'
  BY NoSaleApart, Kinds, <1>a DEF NoTrace, SectionOK
<1>3. Accounted'
  BY NoSaleApart, Kinds, <1>a DEF Accounted, NoTrace, RowsTold, SectionOK
<1>4. RowsTold'
  BY NoSaleApart, Kinds, <1>a DEF RowsTold, NoTrace, SectionOK
<1>5. OneOpen'
  BY NoSaleApart, Kinds, <1>a DEF OneOpen, NoTrace, Accounted
<1>6. SectionOK'
  BY NoSaleApart, Kinds, <1>a DEF SectionOK
<1>7. ErasesSafely'
  BY NoSaleApart, Kinds, <1>a DEF ErasesSafely, SectionOK
<1>8. ToldSaleKept'
  BY NoSaleApart, Kinds, <1>a DEF ToldSaleKept, SectionOK, ErasesSafely, NoTrace
<1>9. ProvisionalOwned'
  BY NoSaleApart, Kinds, <1>a DEF ProvisionalOwned, SectionOK, ErasesSafely, NoTrace
<1> QED  BY <1>1, <1>2, <1>3, <1>4, <1>5, <1>6, <1>7, <1>8, <1>9 DEF IInv

\* The pass is answered with success.
LEMMA ReplaySuccess ==
  ASSUME IInv, NEW s \in Sales, ReplaySucceeds(s)
  PROVE  IInv'
<1> USE DEF IInv, TypeOK, ReplaySucceeds, ReplayEnds, Applied, Committed, Begin,
            Settled, replay, section, history
<1>a. todo' = Dropping
  BY DEF Dropping
<1>1. TypeOK'
  BY NoSaleApart, Kinds, <1>a, SectionsTyped
  DEF Statuses, Outcomes, Fates, Stages, SectionOK, NoTrace
<1>2. NoTrace'
  BY NoSaleApart, Kinds, <1>a DEF NoTrace, SectionOK
<1>3. Accounted'
  BY NoSaleApart, Kinds, <1>a DEF Accounted, NoTrace, RowsTold, SectionOK
<1>4. RowsTold'
  BY NoSaleApart, Kinds, <1>a DEF RowsTold, NoTrace, SectionOK
<1>5. OneOpen'
  BY NoSaleApart, Kinds, <1>a DEF OneOpen, NoTrace, Accounted
<1>6. SectionOK'
  BY NoSaleApart, Kinds, <1>a DEF SectionOK
<1>7. ErasesSafely'
  BY NoSaleApart, Kinds, <1>a DEF ErasesSafely, SectionOK
<1>8. ToldSaleKept'
  BY NoSaleApart, Kinds, <1>a DEF ToldSaleKept, SectionOK, ErasesSafely, NoTrace
<1>9. ProvisionalOwned'
  BY NoSaleApart, Kinds, <1>a DEF ProvisionalOwned, SectionOK, ErasesSafely, NoTrace
<1> QED  BY <1>1, <1>2, <1>3, <1>4, <1>5, <1>6, <1>7, <1>8, <1>9 DEF IInv

\* The pass gives the row up without a verdict.
LEMMA ReplayDead ==
  ASSUME IInv, NEW s \in Sales, ReplayUnproven(s)
  PROVE  IInv'
<1> USE DEF IInv, TypeOK, ReplayUnproven, ReplayEnds, Abandoned, DeadLetter,
            GivesUp, Begin, Settled, replay, section, history
<1>a. todo' = Reopening
  BY DEF Reopening
<1>1. TypeOK'
  BY NoSaleApart, Kinds, <1>a, SectionsTyped
  DEF Statuses, Outcomes, Fates, Stages, SectionOK, NoTrace
<1>2. NoTrace'
  BY NoSaleApart, Kinds, <1>a DEF NoTrace, SectionOK
<1>3. Accounted'
  BY NoSaleApart, Kinds, <1>a DEF Accounted, NoTrace, RowsTold, SectionOK
<1>4. RowsTold'
  BY NoSaleApart, Kinds, <1>a DEF RowsTold, NoTrace, SectionOK
<1>5. OneOpen'
  BY NoSaleApart, Kinds, <1>a DEF OneOpen, NoTrace, Accounted
<1>6. SectionOK'
  BY NoSaleApart, Kinds, <1>a DEF SectionOK
<1>7. ErasesSafely'
  BY NoSaleApart, Kinds, <1>a DEF ErasesSafely, SectionOK
<1>8. ToldSaleKept'
  BY NoSaleApart, Kinds, <1>a DEF ToldSaleKept, SectionOK, ErasesSafely, NoTrace
<1>9. ProvisionalOwned'
  BY NoSaleApart, Kinds, <1>a DEF ProvisionalOwned, SectionOK, ErasesSafely, NoTrace
<1> QED  BY <1>1, <1>2, <1>3, <1>4, <1>5, <1>6, <1>7, <1>8, <1>9 DEF IInv

\* The pass is answered with a refusal.
LEMMA ReplayRefusal ==
  ASSUME IInv, NEW s \in Sales, ReplayRefused(s)
  PROVE  IInv'
<1> USE DEF IInv, TypeOK, ReplayRefused, ReplayEnds, Rejected, DeadLetter,
            GivesUp, Begin, Settled, replay, section, history
<1>a. todo' = Clearing
  BY DEF Clearing
<1>1. TypeOK'
  BY NoSaleApart, Kinds, <1>a, SectionsTyped
  DEF Statuses, Outcomes, Fates, Stages, SectionOK, NoTrace
<1>2. NoTrace'
  BY NoSaleApart, Kinds, <1>a DEF NoTrace, SectionOK
<1>3. Accounted'
  BY NoSaleApart, Kinds, <1>a DEF Accounted, NoTrace, RowsTold, SectionOK
<1>4. RowsTold'
  BY NoSaleApart, Kinds, <1>a DEF RowsTold, NoTrace, SectionOK
<1>5. OneOpen'
  BY NoSaleApart, Kinds, <1>a DEF OneOpen, NoTrace, Accounted
<1>6. SectionOK'
  BY NoSaleApart, Kinds, <1>a DEF SectionOK
<1>7. ErasesSafely'
  BY NoSaleApart, Kinds, <1>a DEF ErasesSafely, SectionOK
<1>8. ToldSaleKept'
  BY NoSaleApart, Kinds, <1>a DEF ToldSaleKept, SectionOK, ErasesSafely, NoTrace
<1>9. ProvisionalOwned'
  BY NoSaleApart, Kinds, <1>a DEF ProvisionalOwned, SectionOK, ErasesSafely, NoTrace
<1> QED  BY <1>1, <1>2, <1>3, <1>4, <1>5, <1>6, <1>7, <1>8, <1>9 DEF IInv

\* The pass parks the row unsent.
LEMMA ReplaySkip ==
  ASSUME IInv, NEW s \in Sales, ReplaySkips(s)
  PROVE  IInv'
<1> USE DEF IInv, TypeOK, ReplaySkips, Picks, InLoop, DeadLetter, GivesUp, Begin,
            Settled, replay, section, history
<1>a. todo' = Dropping
  BY DEF Dropping
<1>1. TypeOK'
  BY NoSaleApart, Kinds, <1>a, SectionsTyped
  DEF Statuses, Outcomes, Fates, Stages, SectionOK, NoTrace
<1>2. NoTrace'
  BY NoSaleApart, Kinds, <1>a DEF NoTrace, SectionOK
<1>3. Accounted'
  BY NoSaleApart, Kinds, <1>a DEF Accounted, NoTrace, RowsTold, SectionOK
<1>4. RowsTold'
  BY NoSaleApart, Kinds, <1>a DEF RowsTold, NoTrace, SectionOK
<1>5. OneOpen'
  BY NoSaleApart, Kinds, <1>a DEF OneOpen, NoTrace, Accounted
<1>6. SectionOK'
  BY NoSaleApart, Kinds, <1>a DEF SectionOK
<1>7. ErasesSafely'
  BY NoSaleApart, Kinds, <1>a DEF ErasesSafely, SectionOK
<1>8. ToldSaleKept'
  BY NoSaleApart, Kinds, <1>a DEF ToldSaleKept, SectionOK, ErasesSafely, NoTrace
<1>9. ProvisionalOwned'
  BY NoSaleApart, Kinds, <1>a DEF ProvisionalOwned, SectionOK, ErasesSafely, NoTrace
<1> QED  BY <1>1, <1>2, <1>3, <1>4, <1>5, <1>6, <1>7, <1>8, <1>9 DEF IInv

\* A failed row goes back to the queue.
LEMMA Requeued ==
  ASSUME IInv, NEW s \in Sales, Requeue(s)
  PROVE  IInv'
<1> USE DEF IInv, TypeOK, Requeue, Queued, Begin, Settled, replay, section, history
<1>a. todo' = Unfailing
  BY DEF Unfailing
<1>1. TypeOK'
  BY NoSaleApart, Kinds, <1>a, SectionsTyped
  DEF Statuses, Outcomes, Fates, Stages, SectionOK, NoTrace
<1>2. NoTrace'
  BY NoSaleApart, Kinds, <1>a DEF NoTrace, SectionOK
<1>3. Accounted'
  BY NoSaleApart, Kinds, <1>a DEF Accounted, NoTrace, RowsTold, SectionOK
<1>4. RowsTold'
  BY NoSaleApart, Kinds, <1>a DEF RowsTold, NoTrace, SectionOK
<1>5. OneOpen'
  BY NoSaleApart, Kinds, <1>a DEF OneOpen, NoTrace, Accounted
<1>6. SectionOK'
  BY NoSaleApart, Kinds, <1>a DEF SectionOK
<1>7. ErasesSafely'
  BY NoSaleApart, Kinds, <1>a DEF ErasesSafely, SectionOK
<1>8. ToldSaleKept'
  BY NoSaleApart, Kinds, <1>a DEF ToldSaleKept, SectionOK, ErasesSafely, NoTrace
<1>9. ProvisionalOwned'
  BY NoSaleApart, Kinds, <1>a DEF ProvisionalOwned, SectionOK, ErasesSafely, NoTrace
<1> QED  BY <1>1, <1>2, <1>3, <1>4, <1>5, <1>6, <1>7, <1>8, <1>9 DEF IInv

-----------------------------------------------------------------------------
(* Steps of a section *)

\* The queue file is written without the row.
LEMMA DropStep ==
  ASSUME IInv, DropRow
  PROVE  IInv'
<1> USE DEF IInv, TypeOK, DropRow, OnlyRows, ReplayQueue, replay, section, history
<1>a. todo # <<>> /\ todo \in Sections /\ doing \in Sales
  BY DEF SectionOK, Step, Settled
<1>b. todo = Dropping
  BY <1>a, ByHead DEF Step
<1>c. todo' = <<>>
  BY <1>b, Tails DEF Step
<1>d. doing' = NoSale
  BY <1>c DEF Step
<1>1. TypeOK'
  BY NoSaleApart, Kinds, <1>a, <1>b, <1>c, <1>d, SectionsTyped
  DEF Statuses, Outcomes, Fates, Stages, SectionOK, NoTrace
<1>2. NoTrace'
  BY NoSaleApart, Kinds, <1>a, <1>b, <1>c, <1>d DEF NoTrace, SectionOK
<1>3. Accounted'
  BY NoSaleApart, Kinds, <1>a, <1>b, <1>c, <1>d
  DEF Accounted, NoTrace, RowsTold, SectionOK
<1>4. RowsTold'
  BY NoSaleApart, Kinds, <1>a, <1>b, <1>c, <1>d DEF RowsTold, NoTrace, SectionOK
<1>5. OneOpen'
  BY NoSaleApart, Kinds, <1>a, <1>b, <1>c, <1>d DEF OneOpen, NoTrace, Accounted
<1>6. SectionOK'
  BY NoSaleApart, Kinds, <1>a, <1>b, <1>c, <1>d DEF SectionOK
<1>7. ErasesSafely'
  BY NoSaleApart, Kinds, <1>a, <1>b, <1>c, <1>d DEF ErasesSafely, SectionOK
<1>8. ToldSaleKept'
  BY NoSaleApart, Kinds, <1>a, <1>b, <1>c, <1>d
  DEF ToldSaleKept, SectionOK, ErasesSafely, NoTrace
<1>9. ProvisionalOwned'
  BY NoSaleApart, Kinds, <1>a, <1>b, <1>c, <1>d
  DEF ProvisionalOwned, SectionOK, ErasesSafely, NoTrace
<1> QED  BY <1>1, <1>2, <1>3, <1>4, <1>5, <1>6, <1>7, <1>8, <1>9 DEF IInv

\* The row leaves the failed file.
LEMMA UnfailStep ==
  ASSUME IInv, UnfailRow
  PROVE  IInv'
<1> USE DEF IInv, TypeOK, UnfailRow, OnlyRows, replay, section, history
<1>a. todo # <<>> /\ todo \in Sections /\ doing \in Sales
  BY DEF SectionOK, Step, Settled
<1>b. todo = Unfailing
  BY <1>a, ByHead DEF Step
<1>c. todo' = <<>>
  BY <1>b, Tails DEF Step
<1>d. doing' = NoSale
  BY <1>c DEF Step
<1>1. TypeOK'
  BY NoSaleApart, Kinds, <1>a, <1>b, <1>c, <1>d, SectionsTyped
  DEF Statuses, Outcomes, Fates, Stages, SectionOK, NoTrace
<1>2. NoTrace'
  BY NoSaleApart, Kinds, <1>a, <1>b, <1>c, <1>d DEF NoTrace, SectionOK
<1>3. Accounted'
  BY NoSaleApart, Kinds, <1>a, <1>b, <1>c, <1>d
  DEF Accounted, NoTrace, RowsTold, SectionOK
<1>4. RowsTold'
  BY NoSaleApart, Kinds, <1>a, <1>b, <1>c, <1>d DEF RowsTold, NoTrace, SectionOK
<1>5. OneOpen'
  BY NoSaleApart, Kinds, <1>a, <1>b, <1>c, <1>d DEF OneOpen, NoTrace, Accounted
<1>6. SectionOK'
  BY NoSaleApart, Kinds, <1>a, <1>b, <1>c, <1>d DEF SectionOK
<1>7. ErasesSafely'
  BY NoSaleApart, Kinds, <1>a, <1>b, <1>c, <1>d DEF ErasesSafely, SectionOK
<1>8. ToldSaleKept'
  BY NoSaleApart, Kinds, <1>a, <1>b, <1>c, <1>d
  DEF ToldSaleKept, SectionOK, ErasesSafely, NoTrace
<1>9. ProvisionalOwned'
  BY NoSaleApart, Kinds, <1>a, <1>b, <1>c, <1>d
  DEF ProvisionalOwned, SectionOK, ErasesSafely, NoTrace
<1> QED  BY <1>1, <1>2, <1>3, <1>4, <1>5, <1>6, <1>7, <1>8, <1>9 DEF IInv

\* The attempt becomes provisional.
LEMMA MarkStep ==
  ASSUME IInv, MarkProvisional
  PROVE  IInv'
<1> USE DEF IInv, TypeOK, MarkProvisional, OnlyJournal, Changed, replay, section,
            history
<1>a. todo # <<>> /\ todo \in Sections /\ doing \in Sales
  BY DEF SectionOK, Step, Settled
<1>b. todo = Marking
  BY <1>a, ByHead DEF Step
<1>c. todo' = Replying
  BY <1>b, Tails DEF Step
<1>d. doing' = doing
  BY <1>c, Kinds DEF Step
<1>1. TypeOK'
  BY NoSaleApart, Kinds, <1>a, <1>b, <1>c, <1>d, SectionsTyped
  DEF Statuses, Outcomes, Fates, Stages, SectionOK, NoTrace
<1>2. NoTrace'
  BY NoSaleApart, Kinds, <1>a, <1>b, <1>c, <1>d DEF NoTrace, SectionOK
<1>3. Accounted'
  BY NoSaleApart, Kinds, <1>a, <1>b, <1>c, <1>d
  DEF Accounted, NoTrace, RowsTold, SectionOK
<1>4. RowsTold'
  BY NoSaleApart, Kinds, <1>a, <1>b, <1>c, <1>d DEF RowsTold, NoTrace, SectionOK
<1>5. OneOpen'
  BY NoSaleApart, Kinds, <1>a, <1>b, <1>c, <1>d DEF OneOpen, NoTrace, Accounted
<1>6. SectionOK'
  BY NoSaleApart, Kinds, <1>a, <1>b, <1>c, <1>d DEF SectionOK
<1>7. ErasesSafely'
  BY NoSaleApart, Kinds, <1>a, <1>b, <1>c, <1>d DEF ErasesSafely, SectionOK
<1>8. ToldSaleKept'
  BY NoSaleApart, Kinds, <1>a, <1>b, <1>c, <1>d
  DEF ToldSaleKept, SectionOK, ErasesSafely, NoTrace
<1>9. ProvisionalOwned'
  BY NoSaleApart, Kinds, <1>a, <1>b, <1>c, <1>d
  DEF ProvisionalOwned, SectionOK, ErasesSafely, NoTrace
<1> QED  BY <1>1, <1>2, <1>3, <1>4, <1>5, <1>6, <1>7, <1>8, <1>9 DEF IInv

\* The attempt is pending again.
LEMMA ReopenStep ==
  ASSUME IInv, Reopen
  PROVE  IInv'
<1> USE DEF IInv, TypeOK, Reopen, OnlyJournal, Changed, replay, section, history
<1>a. todo # <<>> /\ todo \in Sections /\ doing \in Sales
  BY DEF SectionOK, Step, Settled
<1>b. todo = Reopening
  BY <1>a, ByHead DEF Step
<1>c. todo' = Dropping
  BY <1>b, Tails DEF Step
<1>d. doing' = doing
  BY <1>c, Kinds DEF Step
<1>1. TypeOK'
  BY NoSaleApart, Kinds, <1>a, <1>b, <1>c, <1>d, SectionsTyped
  DEF Statuses, Outcomes, Fates, Stages, SectionOK, NoTrace
<1>2. NoTrace'
  BY NoSaleApart, Kinds, <1>a, <1>b, <1>c, <1>d DEF NoTrace, SectionOK
<1>3. Accounted'
  BY NoSaleApart, Kinds, <1>a, <1>b, <1>c, <1>d
  DEF Accounted, NoTrace, RowsTold, SectionOK
<1>4. RowsTold'
  BY NoSaleApart, Kinds, <1>a, <1>b, <1>c, <1>d DEF RowsTold, NoTrace, SectionOK
<1>5. OneOpen'
  BY NoSaleApart, Kinds, <1>a, <1>b, <1>c, <1>d DEF OneOpen, NoTrace, Accounted
<1>6. SectionOK'
  BY NoSaleApart, Kinds, <1>a, <1>b, <1>c, <1>d DEF SectionOK
<1>7. ErasesSafely'
  BY NoSaleApart, Kinds, <1>a, <1>b, <1>c, <1>d DEF ErasesSafely, SectionOK
<1>8. ToldSaleKept'
  BY NoSaleApart, Kinds, <1>a, <1>b, <1>c, <1>d
  DEF ToldSaleKept, SectionOK, ErasesSafely, NoTrace
<1>9. ProvisionalOwned'
  BY NoSaleApart, Kinds, <1>a, <1>b, <1>c, <1>d
  DEF ProvisionalOwned, SectionOK, ErasesSafely, NoTrace
<1> QED  BY <1>1, <1>2, <1>3, <1>4, <1>5, <1>6, <1>7, <1>8, <1>9 DEF IInv

\* The attempt is cleared.
LEMMA ClearStep ==
  ASSUME IInv, Clear
  PROVE  IInv'
<1> USE DEF IInv, TypeOK, Clear, OnlyJournal, replay, section, history
<1>a. todo # <<>> /\ todo \in Sections /\ doing \in Sales
  BY DEF SectionOK, Step, Settled
<1>b. todo = Clearing
  BY <1>a, ByHead DEF Step
<1>c. todo' = Dropping
  BY <1>b, Tails DEF Step
<1>d. doing' = doing
  BY <1>c, Kinds DEF Step
<1>1. TypeOK'
  BY NoSaleApart, Kinds, <1>a, <1>b, <1>c, <1>d, SectionsTyped
  DEF Statuses, Outcomes, Fates, Stages, SectionOK, NoTrace
<1>2. NoTrace'
  BY NoSaleApart, Kinds, <1>a, <1>b, <1>c, <1>d DEF NoTrace, SectionOK
<1>3. Accounted'
  BY NoSaleApart, Kinds, <1>a, <1>b, <1>c, <1>d
  DEF Accounted, NoTrace, RowsTold, SectionOK
<1>4. RowsTold'
  BY NoSaleApart, Kinds, <1>a, <1>b, <1>c, <1>d DEF RowsTold, NoTrace, SectionOK
<1>5. OneOpen'
  BY NoSaleApart, Kinds, <1>a, <1>b, <1>c, <1>d DEF OneOpen, NoTrace, Accounted
<1>6. SectionOK'
  BY NoSaleApart, Kinds, <1>a, <1>b, <1>c, <1>d DEF SectionOK
<1>7. ErasesSafely'
  BY NoSaleApart, Kinds, <1>a, <1>b, <1>c, <1>d DEF ErasesSafely, SectionOK
<1>8. ToldSaleKept'
  BY NoSaleApart, Kinds, <1>a, <1>b, <1>c, <1>d
  DEF ToldSaleKept, SectionOK, ErasesSafely, NoTrace
<1>9. ProvisionalOwned'
  BY NoSaleApart, Kinds, <1>a, <1>b, <1>c, <1>d
  DEF ProvisionalOwned, SectionOK, ErasesSafely, NoTrace
<1> QED  BY <1>1, <1>2, <1>3, <1>4, <1>5, <1>6, <1>7, <1>8, <1>9 DEF IInv

\* The operator gets the receipt.
LEMMA ReplyStep ==
  ASSUME IInv, Reply
  PROVE  IInv'
<1> USE DEF IInv, TypeOK, Reply, Accounted, replay, section, history
<1>a. todo # <<>> /\ todo \in Sections /\ doing \in Sales
  BY DEF SectionOK, Step, Settled
<1>b. todo = Replying
  BY <1>a, ByHead DEF Step
<1>c. todo' = <<>>
  BY <1>b, Tails DEF Step
<1>d. doing' = NoSale
  BY <1>c DEF Step
<1>1. TypeOK'
  BY NoSaleApart, Kinds, <1>a, <1>b, <1>c, <1>d, SectionsTyped
  DEF Statuses, Outcomes, Fates, Stages, SectionOK, NoTrace
<1>2. NoTrace'
  BY NoSaleApart, Kinds, <1>a, <1>b, <1>c, <1>d DEF NoTrace, SectionOK
<1>3. Accounted'
  BY NoSaleApart, Kinds, <1>a, <1>b, <1>c, <1>d
  DEF Accounted, NoTrace, RowsTold, SectionOK
<1>4. RowsTold'
  BY NoSaleApart, Kinds, <1>a, <1>b, <1>c, <1>d DEF RowsTold, NoTrace, SectionOK
<1>5. OneOpen'
  BY NoSaleApart, Kinds, <1>a, <1>b, <1>c, <1>d DEF OneOpen, NoTrace, Accounted
<1>6. SectionOK'
  BY NoSaleApart, Kinds, <1>a, <1>b, <1>c, <1>d DEF SectionOK
<1>7. ErasesSafely'
  BY NoSaleApart, Kinds, <1>a, <1>b, <1>c, <1>d DEF ErasesSafely, SectionOK
<1>8. ToldSaleKept'
  BY NoSaleApart, Kinds, <1>a, <1>b, <1>c, <1>d
  DEF ToldSaleKept, SectionOK, ErasesSafely, NoTrace
<1>9. ProvisionalOwned'
  BY NoSaleApart, Kinds, <1>a, <1>b, <1>c, <1>d
  DEF ProvisionalOwned, SectionOK, ErasesSafely, NoTrace
<1> QED  BY <1>1, <1>2, <1>3, <1>4, <1>5, <1>6, <1>7, <1>8, <1>9 DEF IInv

-----------------------------------------------------------------------------
(* Failed writes and the process *)

\* A write of a handler throws.
LEMMA WriteFailure ==
  ASSUME IInv, WriteFails
  PROVE  IInv'
<1> USE DEF IInv, TypeOK, WriteFails, Abandon, Settled, replay, section, history
<1>a. todo # <<>> => todo \in Sections /\ doing \in Sales
  BY DEF SectionOK
<1>b. todo = <<>> => doing = NoSale
  OBVIOUS
<1>c. \A s \in Sales : fate'[s] # fate[s] => doing = s /\ todo \in Submitting
  BY <1>a, <1>b, NoSaleApart, ByHead, Kinds
<1>d. \A s \in Sales : fate'[s] # fate[s] => fate'[s] = "cut"
  OBVIOUS
<1>e. \A s \in Sales : doing = s /\ todo \in Submitting => fate'[s] = "cut"
  BY Heads DEF Submitting
<1>f. fate' \in [Sales -> Fates]
  BY DEF Fates
<1>1. TypeOK'
  BY NoSaleApart, Kinds, <1>a, <1>b, <1>c, <1>d, <1>e, <1>f, SectionsTyped
  DEF Statuses, Outcomes, Fates, Stages, SectionOK, NoTrace
<1>2. NoTrace'
  BY NoSaleApart, Kinds, <1>a, <1>b, <1>c, <1>d, <1>e, <1>f DEF NoTrace, SectionOK
<1>3. Accounted'
  BY NoSaleApart, Kinds, <1>a, <1>b, <1>c, <1>d, <1>e, <1>f
  DEF Accounted, NoTrace, RowsTold, SectionOK
<1>4. RowsTold'
  BY NoSaleApart, Kinds, <1>a, <1>b, <1>c, <1>d, <1>e, <1>f
  DEF RowsTold, NoTrace, SectionOK
<1>5. OneOpen'
  BY NoSaleApart, Kinds, <1>a, <1>b, <1>c, <1>d, <1>e, <1>f
  DEF OneOpen, NoTrace, Accounted
<1>6. SectionOK'
  BY NoSaleApart, Kinds, <1>a, <1>b, <1>c, <1>d, <1>e, <1>f DEF SectionOK
<1>7. ErasesSafely'
  BY NoSaleApart, Kinds, <1>a, <1>b, <1>c, <1>d, <1>e, <1>f
  DEF ErasesSafely, SectionOK
<1>8. ToldSaleKept'
  BY NoSaleApart, Kinds, <1>a, <1>b, <1>c, <1>d, <1>e, <1>f
  DEF ToldSaleKept, SectionOK, ErasesSafely, NoTrace
<1>9. ProvisionalOwned'
  BY NoSaleApart, Kinds, <1>a, <1>b, <1>c, <1>d, <1>e, <1>f
  DEF ProvisionalOwned, SectionOK, ErasesSafely, NoTrace
<1> QED  BY <1>1, <1>2, <1>3, <1>4, <1>5, <1>6, <1>7, <1>8, <1>9 DEF IInv

\* A write of the pass throws.
LEMMA PassFailure ==
  ASSUME IInv, PassFails
  PROVE  IInv'
<1> USE DEF IInv, TypeOK, PassFails, Abandon, Interrupted, ForgetsDead, Settled,
            replay, section, history
<1>a. todo # <<>> => todo \in Sections /\ doing \in Sales
  BY DEF SectionOK
<1>b. todo = <<>> => doing = NoSale
  OBVIOUS
<1>c. \A s \in Sales : fate'[s] # fate[s] => doing = s /\ todo \in Submitting
  BY <1>a, <1>b, NoSaleApart, ByHead, Kinds
<1>d. \A s \in Sales : fate'[s] # fate[s] => fate'[s] = "cut"
  OBVIOUS
<1>e. \A s \in Sales : doing = s /\ todo \in Submitting => fate'[s] = "cut"
  BY Heads DEF Submitting
<1>f. fate' \in [Sales -> Fates]
  BY DEF Fates
<1>1. TypeOK'
  BY NoSaleApart, Kinds, <1>a, <1>b, <1>c, <1>d, <1>e, <1>f, SectionsTyped
  DEF Statuses, Outcomes, Fates, Stages, SectionOK, NoTrace
<1>2. NoTrace'
  BY NoSaleApart, Kinds, <1>a, <1>b, <1>c, <1>d, <1>e, <1>f DEF NoTrace, SectionOK
<1>3. Accounted'
  BY NoSaleApart, Kinds, <1>a, <1>b, <1>c, <1>d, <1>e, <1>f
  DEF Accounted, NoTrace, RowsTold, SectionOK
<1>4. RowsTold'
  BY NoSaleApart, Kinds, <1>a, <1>b, <1>c, <1>d, <1>e, <1>f
  DEF RowsTold, NoTrace, SectionOK
<1>5. OneOpen'
  BY NoSaleApart, Kinds, <1>a, <1>b, <1>c, <1>d, <1>e, <1>f
  DEF OneOpen, NoTrace, Accounted
<1>6. SectionOK'
  BY NoSaleApart, Kinds, <1>a, <1>b, <1>c, <1>d, <1>e, <1>f DEF SectionOK
<1>7. ErasesSafely'
  BY NoSaleApart, Kinds, <1>a, <1>b, <1>c, <1>d, <1>e, <1>f
  DEF ErasesSafely, SectionOK
<1>8. ToldSaleKept'
  BY NoSaleApart, Kinds, <1>a, <1>b, <1>c, <1>d, <1>e, <1>f
  DEF ToldSaleKept, SectionOK, ErasesSafely, NoTrace
<1>9. ProvisionalOwned'
  BY NoSaleApart, Kinds, <1>a, <1>b, <1>c, <1>d, <1>e, <1>f
  DEF ProvisionalOwned, SectionOK, ErasesSafely, NoTrace
<1> QED  BY <1>1, <1>2, <1>3, <1>4, <1>5, <1>6, <1>7, <1>8, <1>9 DEF IInv

\* A crash, whatever section, pass and requests are under way.
LEMMA CrashStep ==
  ASSUME IInv, Crash
  PROVE  IInv'
<1> USE DEF IInv, TypeOK, Crash, Abandon, Interrupted, ForgetsDead, Settled,
            replay, section, history
<1>a. todo # <<>> => todo \in Sections /\ doing \in Sales
  BY DEF SectionOK
<1>b. todo = <<>> => doing = NoSale
  OBVIOUS
<1>c. \A s \in Sales : fate'[s] # fate[s] => doing = s /\ todo \in Submitting
  BY <1>a, <1>b, NoSaleApart, ByHead, Kinds
<1>d. \A s \in Sales : fate'[s] # fate[s] => fate'[s] = "cut"
  OBVIOUS
<1>e. \A s \in Sales : doing = s /\ todo \in Submitting => fate'[s] = "cut"
  BY Heads DEF Submitting
<1>f. fate' \in [Sales -> Fates]
  BY DEF Fates
<1>1. TypeOK'
  BY NoSaleApart, Kinds, <1>a, <1>b, <1>c, <1>d, <1>e, <1>f, SectionsTyped
  DEF Statuses, Outcomes, Fates, Stages, SectionOK, NoTrace
<1>2. NoTrace'
  BY NoSaleApart, Kinds, <1>a, <1>b, <1>c, <1>d, <1>e, <1>f DEF NoTrace, SectionOK
<1>3. Accounted'
  BY NoSaleApart, Kinds, <1>a, <1>b, <1>c, <1>d, <1>e, <1>f
  DEF Accounted, NoTrace, RowsTold, SectionOK
<1>4. RowsTold'
  BY NoSaleApart, Kinds, <1>a, <1>b, <1>c, <1>d, <1>e, <1>f
  DEF RowsTold, NoTrace, SectionOK
<1>5. OneOpen'
  BY NoSaleApart, Kinds, <1>a, <1>b, <1>c, <1>d, <1>e, <1>f
  DEF OneOpen, NoTrace, Accounted
<1>6. SectionOK'
  BY NoSaleApart, Kinds, <1>a, <1>b, <1>c, <1>d, <1>e, <1>f DEF SectionOK
<1>7. ErasesSafely'
  BY NoSaleApart, Kinds, <1>a, <1>b, <1>c, <1>d, <1>e, <1>f
  DEF ErasesSafely, SectionOK
<1>8. ToldSaleKept'
  BY NoSaleApart, Kinds, <1>a, <1>b, <1>c, <1>d, <1>e, <1>f
  DEF ToldSaleKept, SectionOK, ErasesSafely, NoTrace
<1>9. ProvisionalOwned'
  BY NoSaleApart, Kinds, <1>a, <1>b, <1>c, <1>d, <1>e, <1>f
  DEF ProvisionalOwned, SectionOK, ErasesSafely, NoTrace
<1> QED  BY <1>1, <1>2, <1>3, <1>4, <1>5, <1>6, <1>7, <1>8, <1>9 DEF IInv

LEMMA NextInvariant == IInv /\ [Next]_vars => IInv'
<1> SUFFICES ASSUME IInv, [Next]_vars PROVE IInv'
  OBVIOUS
<1>1. ASSUME NEW s \in Sales, Till(s) PROVE IInv'
  BY <1>1, RecordChoices, RecordOnline, OfflineSale, TillSuccess, TillRefusal,
     TillNoVerdict, Recovery DEF Till
<1>2. ASSUME NEW s \in Sales, Replay(s) PROVE IInv'
  BY <1>2, ReplaySend, ReplaySuccess, ReplayPostpone, ReplayDead, ReplayRefusal,
     ReplaySkip DEF Replay
<1>3. ASSUME NEW s \in Sales, Review(s) \/ LateExecute(s) PROVE IInv'
  BY <1>3, LateExecution, Requeued, ManagerClear DEF Review, Sweep, ManagerRetries
<1>4. CASE StartPass \/ WriteReplayQueue \/ EndPass \/ Flush
  BY <1>4, PassStart, QueueWrite, PassEnd, FlushStep
<1>5. CASE Proceed
  BY <1>5, DropStep, UnfailStep, MarkStep, ReopenStep, ClearStep, ReplyStep DEF Proceed
<1>6. CASE Crash \/ PassFails \/ WriteFails
  BY <1>6, CrashStep, PassFailure, WriteFailure
<1>7. CASE UNCHANGED vars
  BY <1>7 DEF vars, replay, section, history, IInv, TypeOK, NoTrace, Accounted, RowsTold,
              OneOpen, SectionOK, ErasesSafely, ToldSaleKept, ProvisionalOwned
<1> QED  BY <1>1, <1>2, <1>3, <1>4, <1>5, <1>6, <1>7 DEF Next

\* An applied sale was submitted, and if nothing excuses it, it is open.
LEMMA InvariantImpliesOneSale == IInv => OneSalePerBasket
BY DEF IInv, NoTrace, OneOpen, OneSalePerBasket, Excused, TypeOK, Fates

THEOREM InvariantHolds == Spec => []IInv
BY InitInvariant, NextInvariant, PTL DEF Spec

\* Every variable keeps its type, whatever is retried, refused, late or cut short
\* (createPosOrder, the submit journal, the replay of a sale).
THEOREM TypeCorrect == Spec => []TypeOK
<1>1. IInv => TypeOK
  BY DEF IInv
<1> QED  BY InvariantHolds, <1>1, PTL

\* No basket is sold twice without a reason the operator was given, for any
\* number of sales and baskets (resolvePosSubmitAttempt).
THEOREM NoDoubleSale == Spec => []OneSalePerBasket
BY InvariantHolds, InvariantImpliesOneSale, PTL

\* What the operator was told is recorded stays with the server or in a file,
\* although the pass writes the whole queue file, unless it was put back under
\* the pass that had given it up (createPosOrder offline, the dead letter, the
\* requeue, writeReplayQueue).
THEOREM NoToldSaleLost == Spec => []ToldSaleKept
<1>1. IInv => ToldSaleKept
  BY DEF IInv
<1> QED  BY InvariantHolds, <1>1, PTL

\* A provisional attempt is owned by the queue, with the same exception
\* (markPosSubmitAttemptProvisional, reopenPosSubmitAttempt, writeReplayQueue).
THEOREM QueueOwnsProvisional == Spec => []ProvisionalOwned
<1>1. IInv => ProvisionalOwned
  BY DEF IInv
<1> QED  BY InvariantHolds, <1>1, PTL
=============================================================================
