--------------------------- MODULE MessengerUpdate ---------------------------
(***************************************************************************)
(* One update of a messenger (src/backend/social) that the messenger may   *)
(* deliver more than once: the message of a client, or the reply a manager *)
(* writes to a client from a messenger.  The webhook hands it to a Celery  *)
(* task, or handles it itself when the broker refuses; webhook_once keeps  *)
(* the copies apart with two entries of the cache; the handler stores a    *)
(* row of the support chat, and the row of a reply is delivered to the     *)
(* client by deliver_outbound_message with its retries.                    *)
(***************************************************************************)
EXTENDS Naturals, FiniteSets

CONSTANTS
    Handlers,     \* bound: requests and tasks of the update at a time
    MaxRows,      \* bound: rows the update may leave in the support chat
    MaxRetries,   \* retries of the task of an update (2)
    MaxTries,     \* retries of deliver_outbound_message (3)
    MaxAttempts,  \* times one POST is sent: _TELEGRAM_RETRIES, 1 elsewhere
    MaxUnheard,   \* bound: attempts a messenger shows without an answer
    MaxArrivals,  \* bound: times the messenger delivers the update
    MaxLosses,    \* bound: processes that die at work, tasks the broker loses
    MaxKept       \* bound: tasks the broker keeps although it reports an error

ASSUME AttemptsAssumption == MaxAttempts \in Nat \ {0} /\ MaxUnheard \in Nat

ASSUME BoundAssumption ==
    /\ MaxRows \in Nat /\ MaxRetries \in Nat
    /\ MaxTries \in Nat /\ MaxArrivals \in Nat
    /\ MaxLosses \in Nat /\ MaxKept \in Nat

VARIABLES
    kind,     \* what the update is: a client's "message" or a staff "reply"
    done,     \* the cache says that the update has been handled
    lock,     \* the cache says that it is being handled
    handler,  \* what each request or task of the update is in the middle of
    row,      \* the rows the update has left, with their delivery
    tally     \* history: what befell the update, for bounds and properties

vars == <<kind, done, lock, handler, row, tally>>

\* The rows by their primary keys, which grow; 0 is the row of a handler that
\* has stored none.
Rows == 1..MaxRows

NoRow == 0

Slot(pc, web, retries) ==
    [pc |-> pc, web |-> web, retries |-> retries, row |-> NoRow]

Free == Slot("free", FALSE, 0)

\* A reply is numbered in the chat only when its delivery has been confirmed.
Absent ==
    [stored |-> FALSE, taken |-> FALSE, told |-> FALSE, numbered |-> FALSE,
     task |-> "none", tries |-> 0, inline |-> FALSE, dropped |-> FALSE,
     copies |-> 0, doubts |-> 0]

\* A handler between the lock and the end of webhook_once ...
Handling ==
    {"handling", "stored", "taken", "inline", "posting", "posted", "telling",
     "finished", "marked", "retrying", "failing"}

\* ... and one whose row is stored while the update is not yet marked as done.
Unmarked == {"stored", "taken", "inline", "posting", "posted", "telling", "finished"}

\* States of the task deliver_outbound_message of a row.
Underway == {"queued", "posting", "posted"}

Stored == {r \in Rows : row[r].stored}

Moves(h, pc) == handler' = [handler EXCEPT ![h].pc = pc]

Leaves(h) == handler' = [handler EXCEPT ![h] = Free]

Notes(r, field, value) == row' = [row EXCEPT ![r][field] = value]

Counts(field) == tally' = [tally EXCEPT ![field] = @ + 1]

Losses == tally.deaths + tally.lost

\* The numbers of attempts, n at most, that the messenger may show although the
\* program has no answer to them.
Unheard(n) == {more \in 0..n : tally.unheard + more <= MaxUnheard}

-----------------------------------------------------------------------------
Init ==
    /\ kind \in {"message", "reply"}
    /\ done = FALSE
    /\ lock = FALSE
    /\ handler = [h \in Handlers |-> Free]
    /\ row = [r \in Rows |-> Absent]
    /\ tally = [arrivals |-> 0, gaps |-> 0, refused |-> 0, broken |-> 0,
                failed |-> 0, deaths |-> 0, lost |-> 0, kept |-> 0,
                unheard |-> 0]

-----------------------------------------------------------------------------
(* The webhook: accept_bot_webhook, VkCallbackView.post                    *)

\* The messenger delivers the update, for the first time or once more.
Arrives(h) ==
    /\ handler[h].pc = "free"
    /\ tally.arrivals < MaxArrivals
    /\ handler' = [handler EXCEPT ![h] = Slot("accepted", TRUE, 0)]
    /\ Counts("arrivals")
    /\ UNCHANGED <<kind, done, lock, row>>

\* The task is enqueued and the request answered.
Enqueues(h) ==
    /\ handler[h].pc = "accepted"
    /\ handler' = [handler EXCEPT ![h] = Slot("queued", FALSE, 0)]
    /\ UNCHANGED <<kind, done, lock, row, tally>>

\* The broker reports an error: the request handles the update itself ...
FallsBack(h) ==
    /\ handler[h].pc = "accepted"
    /\ Moves(h, "queued")
    /\ UNCHANGED <<kind, done, lock, row, tally>>

\* ... also when the broker has kept the task all the same.
FallsBackBeside(h, g) ==
    /\ handler[h].pc = "accepted" /\ handler[g].pc = "free"
    /\ tally.kept < MaxKept
    /\ handler' = [handler EXCEPT ![h] = Slot("queued", TRUE, 0),
                                  ![g] = Slot("queued", FALSE, 0)]
    /\ Counts("kept")
    /\ UNCHANGED <<kind, done, lock, row>>

-----------------------------------------------------------------------------
(* webhook_once, in a task or in a request                                 *)

SkipsDone(h) ==
    /\ handler[h].pc = "queued" /\ done
    /\ Leaves(h)
    /\ UNCHANGED <<kind, done, lock, row, tally>>

Checks(h) ==
    /\ handler[h].pc = "queued" /\ ~done
    /\ Moves(h, "checked")
    /\ UNCHANGED <<kind, done, lock, row, tally>>

SkipsLocked(h) ==
    /\ handler[h].pc = "checked" /\ lock
    /\ Leaves(h)
    /\ UNCHANGED <<kind, done, lock, row, tally>>

\* Mutant: the answer of cache.add is not looked at.
LocksAnyway(h) ==
    /\ handler[h].pc = "checked"
    /\ lock' = TRUE
    /\ Moves(h, "handling")
    /\ tally' = [tally EXCEPT !.gaps = IF done THEN @ + 1 ELSE @]
    /\ UNCHANGED <<kind, done, row>>

\* Mutant: the update is marked as done before it is handled.
LocksAndMarks(h) ==
    /\ handler[h].pc = "checked" /\ ~lock
    /\ lock' = TRUE
    /\ done' = TRUE
    /\ Moves(h, "handling")
    /\ tally' = [tally EXCEPT !.gaps = IF done THEN @ + 1 ELSE @]
    /\ UNCHANGED <<kind, row>>

\* The lock is free; the entry that was read before it may be out of date.
Locks(h) ==
    /\ handler[h].pc = "checked" /\ ~lock
    /\ lock' = TRUE
    /\ Moves(h, "handling")
    /\ tally' = [tally EXCEPT !.gaps = IF done THEN @ + 1 ELSE @]
    /\ UNCHANGED <<kind, done, row>>

\* The handler has returned: the update is done, then the lock is let go.
MarksDone(h) ==
    /\ handler[h].pc = "finished"
    /\ done' = TRUE
    /\ Moves(h, "marked")
    /\ UNCHANGED <<kind, lock, row, tally>>

Unlocks(h) ==
    /\ handler[h].pc = "marked"
    /\ lock' = FALSE
    /\ Leaves(h)
    /\ UNCHANGED <<kind, done, row, tally>>

\* Mutant: a failed handler keeps the lock.
UnlocksToRetryNot(h) ==
    /\ handler[h].pc = "retrying"
    /\ handler' = [handler EXCEPT ![h] = Slot("queued", FALSE, handler[h].retries + 1)]
    /\ UNCHANGED <<kind, done, lock, row, tally>>

\* The handler has raised: the lock is let go, and celery tries a task again
\* after an OSError while retries are left.
UnlocksToRetry(h) ==
    /\ handler[h].pc = "retrying"
    /\ lock' = FALSE
    /\ handler' = [handler EXCEPT ![h] = Slot("queued", FALSE, handler[h].retries + 1)]
    /\ UNCHANGED <<kind, done, row, tally>>

UnlocksToFail(h) ==
    /\ handler[h].pc = "failing"
    /\ lock' = FALSE
    /\ Leaves(h)
    /\ Counts("failed")
    /\ UNCHANGED <<kind, done, row>>

-----------------------------------------------------------------------------
(* The handler: _ingest_support_text and _try_staff_*_reply                *)

\* A client's message is known by its number in the messenger, a reply is not.
IsDuplicate == kind = "message" /\ Stored # {}

\* The text is rejected, the sender may not reply, or there is no such dialog.
Refuses(h) ==
    /\ handler[h].pc = "handling" /\ ~IsDuplicate
    /\ Moves(h, "finished")
    /\ Counts("refused")
    /\ UNCHANGED <<kind, done, lock, row>>

\* The file of a client's message cannot be saved, which rolls the row back.
FileFails(h) ==
    /\ handler[h].pc = "handling" /\ kind = "message" /\ ~IsDuplicate
    /\ Moves(h, IF ~handler[h].web /\ handler[h].retries < MaxRetries
                THEN "retrying" ELSE "failing")
    /\ UNCHANGED <<kind, done, lock, row, tally>>

\* The database fails before anything is stored.
StoreFails(h) ==
    /\ handler[h].pc = "handling"
    /\ Moves(h, "failing")
    /\ UNCHANGED <<kind, done, lock, row, tally>>

\* add_inbound_message finds the row of the message and schedules nothing.
FindsRow(h) ==
    /\ handler[h].pc = "handling" /\ IsDuplicate
    /\ Moves(h, "finished")
    /\ UNCHANGED <<kind, done, lock, row, tally>>

\* add_inbound_message or add_staff_reply commits a row.
Stores(h, r) ==
    /\ handler[h].pc = "handling" /\ ~IsDuplicate
    /\ Stored = 1..(r - 1)
    /\ Notes(r, "stored", TRUE)
    /\ handler' = [handler EXCEPT ![h].pc = "stored", ![h].row = r]
    /\ UNCHANGED <<kind, done, lock, tally>>

\* The calls on commit enqueue the assistant and the alerts, or the notices of
\* a reply.
Takes(h) ==
    /\ handler[h].pc = "stored"
    /\ Notes(handler[h].row, "taken", TRUE)
    /\ Moves(h, IF kind = "reply" THEN "taken" ELSE "finished")
    /\ UNCHANGED <<kind, done, lock, tally>>

\* One of them raises: the row is committed and the handler has failed.
TakeFails(h) ==
    /\ handler[h].pc = "stored"
    /\ Moves(h, "failing")
    /\ Counts("broken")
    /\ UNCHANGED <<kind, done, lock, row>>

\* submit_staff_reply hands the row over for delivery ...
Delivers(h) ==
    /\ handler[h].pc = "taken"
    /\ Notes(handler[h].row, "task", "queued")
    /\ Moves(h, "telling")
    /\ UNCHANGED <<kind, done, lock, tally>>

\* ... or delivers it itself when the broker reports an error, which may have
\* kept the task.
DeliversInline(h) ==
    /\ handler[h].pc = "taken"
    /\ Notes(handler[h].row, "inline", TRUE)
    /\ Moves(h, "inline")
    /\ UNCHANGED <<kind, done, lock, tally>>

DeliversTwice(h) ==
    /\ handler[h].pc = "taken"
    /\ tally.kept < MaxKept
    /\ row' = [row EXCEPT ![handler[h].row].inline = TRUE,
                          ![handler[h].row].task = "queued"]
    /\ Moves(h, "inline")
    /\ Counts("kept")
    /\ UNCHANGED <<kind, done, lock>>

\* The manager is told that the reply has been sent.
Tells(h) ==
    /\ handler[h].pc = "telling"
    /\ Notes(handler[h].row, "told", TRUE)
    /\ Moves(h, "finished")
    /\ UNCHANGED <<kind, done, lock, tally>>

-----------------------------------------------------------------------------
(* deliver_outbound_message, called by the handler                         *)

\* The row has its number already.
InlineSkips(h) ==
    /\ handler[h].pc = "inline" /\ row[handler[h].row].numbered
    /\ Moves(h, "telling")
    /\ UNCHANGED <<kind, done, lock, row, tally>>

InlineReads(h) ==
    /\ handler[h].pc = "inline" /\ ~row[handler[h].row].numbered
    /\ Moves(h, "posting")
    /\ UNCHANGED <<kind, done, lock, row, tally>>

\* The messenger has no token: nothing is posted, and that is the end of it.
InlineUnconfigured(h) ==
    /\ handler[h].pc = "posting"
    /\ Notes(handler[h].row, "dropped", TRUE)
    /\ Moves(h, "telling")
    /\ UNCHANGED <<kind, done, lock, tally>>

\* An attempt is answered.  _telegram_urlopen has sent the POST again after a
\* timeout, a 5xx or a 429, and the messenger may have shown the attempts that
\* came before: to the caller all of them are one success.
InlinePosts(h) ==
    /\ handler[h].pc = "posting"
    /\ \E more \in Unheard(MaxAttempts - 1) :
         /\ Notes(handler[h].row, "copies", row[handler[h].row].copies + 1 + more)
         /\ tally' = [tally EXCEPT !.unheard = @ + more]
    /\ Moves(h, "posted")
    /\ UNCHANGED <<kind, done, lock>>

\* The number in the answer is saved, if there is one.
InlineNumbers(h) ==
    /\ handler[h].pc = "posted"
    /\ \E numbered \in BOOLEAN :
         Notes(handler[h].row, "numbered", row[handler[h].row].numbered \/ numbered)
    /\ Moves(h, "telling")
    /\ UNCHANGED <<kind, done, lock, tally>>

\* Mutant: the error is logged and forgotten.
InlineFailsQuietly(h) ==
    /\ handler[h].pc = "posting"
    /\ Moves(h, "telling")
    /\ UNCHANGED <<kind, done, lock, row, tally>>

\* self.retry of a task that is called directly raises the error: the handler
\* fails with it.  The messenger may have shown the reply, at each attempt.
InlineFails(h) ==
    /\ handler[h].pc = "posting"
    /\ \E more \in Unheard(MaxAttempts) :
         /\ row' = [row EXCEPT ![handler[h].row].copies = @ + more,
                               ![handler[h].row].doubts = @ + more]
         /\ tally' = [tally EXCEPT !.broken = @ + 1, !.unheard = @ + more]
    /\ Moves(h, "failing")
    /\ UNCHANGED <<kind, done, lock>>

-----------------------------------------------------------------------------
(* deliver_outbound_message, as a task                                     *)

DeliverSkips(r) ==
    /\ row[r].task = "queued" /\ row[r].numbered
    /\ Notes(r, "task", "over")
    /\ UNCHANGED <<kind, done, lock, handler, tally>>

DeliverReads(r) ==
    /\ row[r].task = "queued" /\ ~row[r].numbered
    /\ Notes(r, "task", "posting")
    /\ UNCHANGED <<kind, done, lock, handler, tally>>

DeliverUnconfigured(r) ==
    /\ row[r].task = "posting"
    /\ row' = [row EXCEPT ![r].task = "over", ![r].dropped = TRUE]
    /\ UNCHANGED <<kind, done, lock, handler, tally>>

\* As for InlinePosts: one success may have shown several copies.
DeliverPosts(r) ==
    /\ row[r].task = "posting"
    /\ \E more \in Unheard(MaxAttempts - 1) :
         /\ row' = [row EXCEPT ![r].task = "posted", ![r].copies = @ + 1 + more]
         /\ tally' = [tally EXCEPT !.unheard = @ + more]
    /\ UNCHANGED <<kind, done, lock, handler>>

\* Mutant: an answer without a number is tried again.
DeliverNumbersOrRetries(r) ==
    /\ row[r].task = "posted"
    /\ \E numbered \in BOOLEAN :
         row' = [row EXCEPT ![r].task = IF numbered THEN "over" ELSE "queued",
                            ![r].numbered = @ \/ numbered]
    /\ UNCHANGED <<kind, done, lock, handler, tally>>

DeliverNumbers(r) ==
    /\ row[r].task = "posted"
    /\ \E numbered \in BOOLEAN :
         row' = [row EXCEPT ![r].task = "over", ![r].numbered = @ \/ numbered]
    /\ UNCHANGED <<kind, done, lock, handler, tally>>

\* An error is tried again, or is the last one; the reply may have been shown,
\* at each attempt of the POST.
DeliverFails(r) ==
    /\ row[r].task = "posting"
    /\ \E more \in Unheard(MaxAttempts) :
         /\ row' = [row EXCEPT
                      ![r].copies = @ + more,
                      ![r].doubts = @ + more,
                      ![r].task = IF row[r].tries < MaxTries THEN "queued" ELSE "over",
                      ![r].tries = IF @ < MaxTries THEN @ + 1 ELSE @,
                      ![r].dropped = @ \/ row[r].tries = MaxTries]
         /\ tally' = [tally EXCEPT !.unheard = @ + more]
    /\ UNCHANGED <<kind, done, lock, handler>>

-----------------------------------------------------------------------------
(* Failures                                                                *)

LeavesRow(h) == handler[h].pc \in Unmarked /\ handler[h].row # NoRow

\* A worker or a web process is killed.  Its task was acknowledged when it
\* began and does not come back; a lock stays until it expires.
HandlerDies(h) ==
    /\ handler[h].pc \in Handling \cup {"accepted", "checked"}
    /\ Losses < MaxLosses
    /\ Leaves(h)
    /\ tally' = [tally EXCEPT !.deaths = @ + 1,
                              !.broken = IF LeavesRow(h) THEN @ + 1 ELSE @]
    /\ UNCHANGED <<kind, done, lock, row>>

DeliverDies(r) ==
    /\ row[r].task \in {"posting", "posted"}
    /\ Losses < MaxLosses
    /\ Notes(r, "task", "lost")
    /\ Counts("deaths")
    /\ UNCHANGED <<kind, done, lock, handler>>

\* The broker loses a task.
UpdateLost(h) ==
    /\ handler[h].pc = "queued" /\ ~handler[h].web
    /\ Losses < MaxLosses
    /\ Leaves(h)
    /\ Counts("lost")
    /\ UNCHANGED <<kind, done, lock, row>>

DeliverLost(r) ==
    /\ row[r].task = "queued"
    /\ Losses < MaxLosses
    /\ Notes(r, "task", "lost")
    /\ Counts("lost")
    /\ UNCHANGED <<kind, done, lock, handler>>

\* The lock of a dead handler expires.  A living one is stopped before that:
\* by the time limit of tasks or of gunicorn.
LockExpires ==
    /\ lock
    /\ \A h \in Handlers : handler[h].pc \notin Handling
    /\ lock' = FALSE
    /\ UNCHANGED <<kind, done, handler, row, tally>>

-----------------------------------------------------------------------------
Handle(h) ==
    \/ Enqueues(h) \/ FallsBack(h) \/ (\E g \in Handlers : FallsBackBeside(h, g))
    \/ SkipsDone(h) \/ Checks(h) \/ SkipsLocked(h) \/ Locks(h)
    \/ MarksDone(h) \/ Unlocks(h) \/ UnlocksToRetry(h) \/ UnlocksToFail(h)
    \/ Refuses(h) \/ FileFails(h) \/ StoreFails(h)
    \/ FindsRow(h) \/ (\E r \in Rows : Stores(h, r))
    \/ Takes(h) \/ TakeFails(h)
    \/ Delivers(h) \/ DeliversInline(h) \/ DeliversTwice(h) \/ Tells(h)
    \/ InlineSkips(h) \/ InlineReads(h) \/ InlineUnconfigured(h)
    \/ InlinePosts(h) \/ InlineNumbers(h) \/ InlineFails(h)

Deliver(r) ==
    \/ DeliverSkips(r) \/ DeliverReads(r) \/ DeliverUnconfigured(r)
    \/ DeliverPosts(r) \/ DeliverNumbers(r) \/ DeliverFails(r)

Failure ==
    \/ \E h \in Handlers : HandlerDies(h) \/ UpdateLost(h)
    \/ \E r \in Rows : DeliverDies(r) \/ DeliverLost(r)

Next ==
    \/ \E h \in Handlers : Arrives(h) \/ Handle(h)
    \/ \E r \in Rows : Deliver(r)
    \/ Failure
    \/ LockExpires

Spec == Init /\ [][Next]_vars

(***************************************************************************)
(* Fairness: requests and tasks of the update go on once they have begun,  *)
(* the broker delivers those it holds, and a lock that nobody holds        *)
(* expires.  Nothing is assumed of the messenger or of the deliveries.     *)
(***************************************************************************)
FairSpec ==
    /\ Spec
    /\ \A h \in Handlers : WF_vars(Handle(h))
    /\ WF_vars(LockExpires)

-----------------------------------------------------------------------------
HandlerStates ==
    [pc : {"free", "accepted", "queued", "checked"} \cup Handling,
     web : BOOLEAN, retries : 0..MaxRetries, row : Rows \cup {NoRow}]

RowStates ==
    [stored : BOOLEAN, taken : BOOLEAN, told : BOOLEAN, numbered : BOOLEAN,
     task : {"none", "over", "lost"} \cup Underway, tries : 0..MaxTries,
     inline : BOOLEAN, dropped : BOOLEAN, copies : Nat, doubts : Nat]

Tallies ==
    [arrivals : Nat, gaps : Nat, refused : Nat, broken : Nat,
     failed : Nat, deaths : Nat, lost : Nat, kept : Nat, unheard : Nat]

\* Types of the cache entries, the handlers, the rows and the histories; a
\* handler that is past the store has its row.
TypeOK ==
    /\ kind \in {"message", "reply"}
    /\ done \in BOOLEAN /\ lock \in BOOLEAN
    /\ handler \in [Handlers -> HandlerStates]
    /\ row \in [Rows -> RowStates]
    /\ tally \in Tallies
    /\ \A h \in Handlers :
         handler[h].pc \in Unmarked \ {"finished"} => handler[h].row # NoRow

-----------------------------------------------------------------------------
\* A message that is delivered again leaves one row, and so does a reply, but
\* for what webhook_once lets through: a handler that read the entry before it
\* was made and took the lock after it was let go, and one that failed or died
\* with its row stored, which leaves the update retryable.
HandledOnce ==
    Cardinality(Stored) <=
        1 + (IF kind = "reply" THEN tally.gaps + tally.broken ELSE 0)

\* An update marked as done has been answered for: its text was refused, or the
\* assistant, the alerts or the notices have been told of its row, unless a
\* handler broke off with the row stored (webhook_once marks what succeeded).
DoneIsTakenUp ==
    done => \/ tally.refused > 0 \/ tally.broken > 0
            \/ \E r \in Stored : row[r].taken

\* The client sees a reply once, whatever deliver_outbound_message retries, but
\* for the copies shown by a POST that ended in an error, and for a row delivered
\* by its handler beside the task the broker had kept (submit_staff_reply). Once
\* is one POST: on Telegram it is sent, and may be shown, up to
\* _TELEGRAM_RETRIES times (_telegram_urlopen).
SeenOnce ==
    \A r \in Rows :
        row[r].copies <=
            row[r].doubts + MaxAttempts
              + (IF row[r].inline /\ row[r].task # "none" THEN MaxAttempts ELSE 0)

\* A manager who was told that the reply is sent has not been deceived: the
\* client sees it, its task is under way or was lost, or the messenger would
\* not have it (submit_staff_reply).
ToldIsUnderway ==
    \A r \in Rows : row[r].told =>
        \/ row[r].copies > 0 \/ row[r].dropped
        \/ row[r].task \in Underway \cup {"lost"}

\* An update that the webhook took is not forgotten: it is done, or a request or a
\* task of it is still at work, unless its handler failed for good or with its
\* process, or the broker lost it. A copy that was skipped relied on another
\* (webhook_once, accept_bot_webhook).
NotForgotten ==
    tally.arrivals > 0 =>
        \/ done \/ tally.failed > 0 \/ tally.deaths > 0 \/ tally.lost > 0
        \/ \E h \in Handlers : handler[h].pc # "free"

\* An update does not get stuck between its copies, its lock and its retries:
\* it is done, unless its handler failed for good or with its process, or the
\* broker lost it (webhook_once, process_telegram_update_task).
UpdateSettles ==
    (\E h \in Handlers : handler[h].pc # "free") ~>
        \/ done \/ tally.failed > 0 \/ tally.deaths > 0 \/ tally.lost > 0
=============================================================================
