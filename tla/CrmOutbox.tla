------------------------------ MODULE CrmOutbox ------------------------------
(***************************************************************************)
(* One outbound letter of the CRM (src/backend/crm): the row EmailMessage, *)
(* the deliveries of the Celery task send_crm_email for it, the sweep that *)
(* hands stuck letters back to the broker, and the staff who queue it by   *)
(* hand or save its form.                                                  *)
(*                                                                         *)
(* The task is acknowledged late: a delivery that dies with its worker     *)
(* comes back, so several deliveries may be in the middle of one letter.   *)
(* The status of the row decides which of them talks to SMTP, and every    *)
(* read and write of the row is a step of its own.                         *)
(***************************************************************************)
EXTENDS Naturals, Sequences, FiniteSets

CONSTANTS
    Deliveries,   \* bound: deliveries of the task in existence at a time
    Operators,    \* staff with the letter open in the admin
    NoId,         \* message_id of a letter that has none (NULL)
    MaxRetries,   \* max_retries of send_crm_email
    MaxRequests,  \* bound: requests of the staff
    MaxDeaths,    \* bound: workers lost in the middle of a delivery
    MaxLost,      \* bound: messages the broker and stamps the cache loses
    MaxDoubts     \* bound: copies accepted with an error reported

ASSUME DeliveriesAssumption == IsFiniteSet(Deliveries) /\ NoId \notin Deliveries

ASSUME BoundAssumption ==
    /\ MaxRetries \in Nat /\ MaxRequests \in Nat
    /\ MaxDeaths \in Nat /\ MaxLost \in Nat /\ MaxDoubts \in Nat

VARIABLES
    letter,    \* status and Message-ID of the row
    stamp,     \* the cache entry crm:email-send: absent, recent or old
    delivery,  \* what each delivery of send_crm_email is in the middle of
    page,      \* what each member of staff has read and not yet written
    sweep,     \* the sweep has seen the letter QUEUED with an old stamp
    mail,      \* history: Message-IDs of the copies SMTP has accepted
    tally      \* history: what happened to the letter, for bounds and properties

vars == <<letter, stamp, delivery, page, sweep, mail, tally>>

Statuses == {"draft", "queued", "sending", "sent", "failed"}

\* Mutant: a row another worker is sending may be claimed.
ClaimableSending == {"draft", "queued", "failed", "sending"}

\* The statuses claim_crm_email_send moves to SENDING.
Claimable == {"draft", "queued", "failed"}

Free == [pc |-> "free", retries |-> 0, id |-> NoId]

Enqueued(retries) == [pc |-> "enqueued", retries |-> retries, id |-> NoId]

NoPage == [step |-> "none", seen |-> "draft"]

\* A delivery that has claimed the letter and has not written the result yet.
Holding == {"claimed", "accepted", "failing"}

\* ... or is about to raise the retry.
Claimed == Holding \cup {"retrying"}

Stale == stamp # "recent"

Counts(field) == tally' = [tally EXCEPT ![field] = @ + 1]

-----------------------------------------------------------------------------
\* create_outbound_email: a draft, or a queued letter with its task.
Init ==
    /\ \E status \in {"draft", "queued"}, d \in Deliveries :
         /\ letter = [status |-> status, id |-> NoId]
         /\ stamp = IF status = "queued" THEN "recent" ELSE "absent"
         /\ delivery = [e \in Deliveries |->
                          IF e = d /\ status = "queued" THEN Enqueued(0)
                                                        ELSE Free]
    /\ page = [o \in Operators |-> NoPage]
    /\ sweep = FALSE
    /\ mail = <<>>
    /\ tally = [requests |-> 0, deaths |-> 0, lost |-> 0,
                resent |-> 0, restored |-> 0, overlooked |-> 0,
                doubtful |-> 0, spoilt |-> 0]

-----------------------------------------------------------------------------
(* send_crm_email, delivery d.                                             *)

Becomes(d, pc) == delivery' = [delivery EXCEPT ![d].pc = pc]

Ends(d) == delivery' = [delivery EXCEPT ![d] = Free]

\* The letter is sent or being sent: nothing to do.
SendReturns(d) ==
    /\ delivery[d].pc = "enqueued"
    /\ letter.status \in {"sending", "sent"}
    /\ Ends(d)
    /\ UNCHANGED <<letter, stamp, page, sweep, mail, tally>>

\* The row is read; without a Message-ID the delivery makes one of its own.
SendLoads(d) ==
    /\ delivery[d].pc = "enqueued"
    /\ letter.status \notin {"sending", "sent"}
    /\ delivery' = [delivery EXCEPT
                      ![d].pc = "loaded",
                      ![d].id = IF letter.id = NoId THEN d ELSE letter.id]
    /\ UNCHANGED <<letter, stamp, page, sweep, mail, tally>>

\* The Message-ID is stored where there is still none.
SendStoresId(d) ==
    /\ delivery[d].pc = "loaded"
    /\ letter' = [letter EXCEPT !.id = IF @ = NoId THEN delivery[d].id ELSE @]
    /\ Becomes(d, "prepared")
    /\ UNCHANGED <<stamp, page, sweep, mail, tally>>

\* An exception before the claim (database, mailbox, attachments) reaches the
\* same handler as an SMTP error.
SendBreaks(d) ==
    /\ delivery[d].pc \in {"loaded", "prepared"}
    /\ Becomes(d, "broken")
    /\ UNCHANGED <<letter, stamp, page, sweep, mail, tally>>

\* claim_crm_email_send: the conditional UPDATE and the stamp.
SendClaims(d) ==
    /\ delivery[d].pc = "prepared"
    /\ letter.status \in Claimable
    /\ letter' = [letter EXCEPT !.status = "sending"]
    /\ stamp' = "recent"
    /\ Becomes(d, "claimed")
    /\ UNCHANGED <<page, sweep, mail, tally>>

SendSkips(d) ==
    /\ delivery[d].pc = "prepared"
    /\ letter.status \notin Claimable
    /\ Ends(d)
    /\ UNCHANGED <<letter, stamp, page, sweep, mail, tally>>

SmtpAccepts(d) ==
    /\ delivery[d].pc = "claimed"
    /\ mail' = Append(mail, delivery[d].id)
    /\ Becomes(d, "accepted")
    /\ UNCHANGED <<letter, stamp, page, sweep, tally>>

SmtpRefuses(d) ==
    /\ delivery[d].pc = "claimed"
    /\ Becomes(d, "failing")
    /\ UNCHANGED <<letter, stamp, page, sweep, mail, tally>>

\* The copy is accepted and the worker sees an error: the answer was lost, or
\* the soft time limit struck.
SmtpDoubts(d) ==
    /\ tally.doubtful < MaxDoubts
    /\ delivery[d].pc = "claimed"
    /\ mail' = Append(mail, delivery[d].id)
    /\ Counts("doubtful")
    /\ Becomes(d, "failing")
    /\ UNCHANGED <<letter, stamp, page, sweep>>

MarksSent(d) ==
    /\ delivery[d].pc = "accepted"
    /\ letter' = [letter EXCEPT !.status = "sent"]
    /\ Ends(d)
    /\ UNCHANGED <<stamp, page, sweep, mail, tally>>

\* Mutant: the retry is raised without mark_failed.
MarksFailedNot(d) ==
    /\ delivery[d].pc \in {"failing", "broken"}
    /\ Becomes(d, "retrying")
    /\ UNCHANGED <<letter, stamp, page, sweep, mail, tally>>

\* mark_failed writes the status whatever it is by now.  A delivery that never
\* claimed the letter may spoil the claim or the result of another one.
MarksFailed(d) ==
    /\ delivery[d].pc \in {"failing", "broken"}
    /\ letter' = [letter EXCEPT !.status = "failed"]
    /\ IF delivery[d].pc = "broken" /\ letter.status \notin Claimable
       THEN Counts("spoilt")
       ELSE UNCHANGED tally
    /\ Becomes(d, "retrying")
    /\ UNCHANGED <<stamp, page, sweep, mail>>

RetriesLeft(d) == delivery[d].retries < MaxRetries

\* self.retry, or the end of the last try.
SendRetries(d) ==
    /\ delivery[d].pc = "retrying"
    /\ delivery' = [delivery EXCEPT
                      ![d] = IF RetriesLeft(d) THEN Enqueued(@.retries + 1)
                                               ELSE Free]
    /\ UNCHANGED <<letter, stamp, page, sweep, mail, tally>>

-----------------------------------------------------------------------------
(* requeue_stale_crm_emails.                                               *)

\* send_crm_email.delay, in a delivery not in use.
Enqueues ==
    \E d \in Deliveries :
        /\ delivery[d].pc = "free"
        /\ delivery' = [delivery EXCEPT ![d] = Enqueued(0)]

\* Mutant: a row without a stamp is passed over.
SweepStampsNot == FALSE

\* A QUEUED row seen without a stamp is stamped and left to wait.
SweepStamps ==
    /\ letter.status = "queued"
    /\ stamp = "absent"
    /\ stamp' = "recent"
    /\ UNCHANGED <<letter, delivery, page, sweep, mail, tally>>

\* The row is QUEUED and its stamp is old ...
SweepSees ==
    /\ ~sweep
    /\ letter.status = "queued"
    /\ stamp = "old"
    /\ sweep' = TRUE
    /\ UNCHANGED <<letter, stamp, delivery, page, mail, tally>>

\* ... and, whatever has become of it, goes to the broker again.
SweepRequeues ==
    /\ sweep
    /\ sweep' = FALSE
    /\ stamp' = "recent"
    /\ Enqueues
    /\ UNCHANGED <<letter, page, mail, tally>>

-----------------------------------------------------------------------------
(* The admin of the letters.                                               *)

Asks(o, step) ==
    /\ page[o] = NoPage
    /\ tally.requests < MaxRequests
    /\ page' = [page EXCEPT ![o] = [step |-> step, seen |-> letter.status]]
    /\ Counts("requests")

Leaves(o) == page' = [page EXCEPT ![o] = NoPage]

\* Staff write a status over one that has moved on: a letter that is being
\* sent or has been sent is put back, or SENDING is restored; or a letter
\* becomes QUEUED that is not enqueued for it.
CountsWritten(status, enqueued) ==
    tally' = [tally EXCEPT
                !.resent = IF letter.status \notin Claimable /\ status \in Claimable
                           THEN @ + 1 ELSE @,
                !.restored = IF letter.status # "sending" /\ status = "sending"
                             THEN @ + 1 ELSE @,
                !.overlooked = IF letter.status # "queued" /\ status = "queued"
                                    /\ ~enqueued
                               THEN @ + 1 ELSE @]

\* queue_send reads the rows and the stamps: drafts, failures and letters that
\* have been queued or in sending for too long.
QueueReads(o) ==
    /\ letter.status \in {"queued", "sending"} => Stale
    /\ letter.status # "sent"
    /\ Asks(o, "update")
    /\ UNCHANGED <<letter, stamp, delivery, sweep, mail>>

\* The statuses the UPDATE asks for, by the status that was read.
QueueFrom(seen) == IF seen \in {"queued", "sending"} THEN {seen}
                                                     ELSE {"draft", "failed"}

\* ... the conditional UPDATE matches ...
QueueUpdates(o) ==
    /\ page[o].step = "update"
    /\ letter.status \in QueueFrom(page[o].seen)
    /\ letter' = [letter EXCEPT !.status = "queued"]
    /\ CountsWritten("queued", TRUE)
    /\ page' = [page EXCEPT ![o].step = "enqueue"]
    /\ UNCHANGED <<stamp, delivery, sweep, mail>>

\* ... or does not, and the letter is skipped.
QueueSkips(o) ==
    /\ page[o].step = "update"
    /\ letter.status \notin QueueFrom(page[o].seen)
    /\ Leaves(o)
    /\ UNCHANGED <<letter, stamp, delivery, sweep, mail, tally>>

\* enqueue_crm_email: the stamp and the task.
QueueEnqueues(o) ==
    /\ page[o].step = "enqueue"
    /\ stamp' = "recent"
    /\ Enqueues
    /\ Leaves(o)
    /\ UNCHANGED <<letter, sweep, mail, tally>>

\* The change form shows the status the row has ...
FormOpens(o) ==
    /\ Asks(o, "form")
    /\ UNCHANGED <<letter, stamp, delivery, sweep, mail>>

\* ... save_model reads the row's own, to see whether it is QUEUED already ...
FormChecks(o) ==
    /\ page[o].step = "form"
    /\ page' = [page EXCEPT ![o].step = IF letter.status = "queued" THEN "keep" ELSE "save"]
    /\ UNCHANGED <<letter, stamp, delivery, sweep, mail, tally>>

\* Mutant: the row is enqueued if the form was opened on another status.
FormSavesBySeen(o) ==
    /\ page[o].step \in {"save", "keep"}
    /\ \E status \in {page[o].seen, "queued"} :
         /\ letter' = [letter EXCEPT !.status = status]
         /\ CountsWritten(status, page[o].step = "save")
         /\ IF status = "queued" /\ page[o].seen # "queued"
            THEN stamp' = "recent" /\ Enqueues
            ELSE UNCHANGED <<stamp, delivery>>
    /\ Leaves(o)
    /\ UNCHANGED <<sweep, mail>>

\* ... and writes back the status of the form, or QUEUED if staff chose that; a
\* row that was not QUEUED at the look, and is now, is enqueued.
FormSaves(o) ==
    /\ page[o].step \in {"save", "keep"}
    /\ \E status \in {page[o].seen, "queued"} :
         /\ letter' = [letter EXCEPT !.status = status]
         /\ CountsWritten(status, page[o].step = "save")
         /\ IF status = "queued" /\ page[o].step = "save"
            THEN stamp' = "recent" /\ Enqueues
            ELSE UNCHANGED <<stamp, delivery>>
    /\ Leaves(o)
    /\ UNCHANGED <<sweep, mail>>

-----------------------------------------------------------------------------
(* Failure and time.                                                       *)

\* The worker dies in the middle of delivery d: acks_late and
\* reject_on_worker_lost bring it back, a hard time limit or an exception in
\* mark_sent or mark_failed does not.
WorkerDies(d) ==
    /\ tally.deaths < MaxDeaths
    /\ delivery[d].pc \notin {"free", "enqueued"}
    /\ delivery' \in {[delivery EXCEPT ![d] = Free],
                      [delivery EXCEPT ![d] = Enqueued(@.retries)]}
    /\ Counts("deaths")
    /\ UNCHANGED <<letter, stamp, page, sweep, mail>>

BrokerLoses(d) ==
    /\ tally.lost < MaxLost
    /\ delivery[d].pc = "enqueued"
    /\ Ends(d)
    /\ Counts("lost")
    /\ UNCHANGED <<letter, stamp, page, sweep, mail>>

CacheLoses ==
    /\ tally.lost < MaxLost
    /\ stamp # "absent"
    /\ stamp' = "absent"
    /\ Counts("lost")
    /\ UNCHANGED <<letter, delivery, page, sweep, mail>>

\* Twenty minutes pass since the stamp.  The task's time limit is six: a
\* delivery that claimed the letter, and stamped it, has ended by then.
StampAges ==
    /\ stamp = "recent"
    /\ \A d \in Deliveries : delivery[d].pc \notin Claimed
    /\ stamp' = "old"
    /\ UNCHANGED <<letter, delivery, page, sweep, mail, tally>>

-----------------------------------------------------------------------------
Send(d) ==
    \/ SendReturns(d) \/ SendLoads(d) \/ SendStoresId(d) \/ SendBreaks(d)
    \/ SendClaims(d) \/ SendSkips(d)
    \/ SmtpAccepts(d) \/ SmtpRefuses(d) \/ SmtpDoubts(d)
    \/ MarksSent(d) \/ MarksFailed(d) \/ SendRetries(d)

Sweep == SweepStamps \/ SweepSees \/ SweepRequeues

Staff(o) ==
    \/ QueueReads(o) \/ QueueUpdates(o) \/ QueueSkips(o) \/ QueueEnqueues(o)
    \/ FormOpens(o) \/ FormChecks(o) \/ FormSaves(o)

Failure ==
    \/ \E d \in Deliveries : WorkerDies(d) \/ BrokerLoses(d)
    \/ CacheLoses

Next ==
    \/ \E d \in Deliveries : Send(d)
    \/ Sweep
    \/ \E o \in Operators : Staff(o)
    \/ Failure
    \/ StampAges

Spec == Init /\ [][Next]_vars

(***************************************************************************)
(* Fairness: the broker delivers and a worker goes on with a delivery      *)
(* (first in, first out, and a hard time limit); celery beat keeps         *)
(* sweeping and time passes.  Nothing is assumed of staff or of SMTP.      *)
(***************************************************************************)
FairSpec ==
    /\ Spec
    /\ \A d \in Deliveries : WF_vars(Send(d))
    /\ WF_vars(Sweep)
    /\ WF_vars(StampAges)

-----------------------------------------------------------------------------
Letters == [status : Statuses, id : Deliveries \cup {NoId}]

Slots ==
    [pc : {"free", "enqueued", "loaded", "prepared", "broken"} \cup Claimed,
     retries : 0..MaxRetries,
     id : Deliveries \cup {NoId}]

Pages ==
    [step : {"none", "update", "enqueue", "form", "keep", "save"}, seen : Statuses]

Tallies ==
    [requests : Nat, deaths : Nat, lost : Nat, resent : Nat, restored : Nat,
     overlooked : Nat, doubtful : Nat, spoilt : Nat]

\* Types of the row, the stamp, the deliveries, the pages and the histories.
TypeOK ==
    /\ letter \in Letters
    /\ stamp \in {"absent", "recent", "old"}
    /\ delivery \in [Deliveries -> Slots]
    /\ page \in [Operators -> Pages]
    /\ sweep \in BOOLEAN
    /\ mail \in Seq(Deliveries)
    /\ tally \in Tallies

-----------------------------------------------------------------------------
\* A letter goes out once, whatever is redelivered, requeued or retried.  The
\* only ways to a further copy: staff put a sent letter back, SMTP accepted a
\* copy and reported an error, or a delivery that never claimed the letter
\* marked it failed over the one that did (claim_crm_email_send, mark_failed).
OneCopy ==
    Len(mail) <= 1 + tally.resent + tally.doubtful + tally.spoilt

\* A letter is in SENDING only while a delivery holds it, unless a worker died
\* or an old form was saved over it: every error path of send_crm_email leaves
\* SENDING, the one unfinished status the sweep does not look after.
SendingIsHeld ==
    letter.status = "sending" /\ tally.deaths = 0 /\ tally.restored = 0 =>
        \E d \in Deliveries : delivery[d].pc \in Holding

\* A delivery that will still send the letter if it is QUEUED.
Carries(d) == delivery[d].pc \in {"enqueued", "loaded", "prepared", "broken"}

\* A letter that is QUEUED has a delivery on its way or about to be enqueued, and
\* does not need the sweep: unless a worker died, the broker lost the task, or the
\* letter moved on between save_model's look at the row and its save, which leaves
\* it QUEUED without a task (enqueue_crm_email, save_model, queue_send).
QueuedIsCarried ==
    letter.status = "queued" =>
        \/ tally.deaths > 0 \/ tally.lost > 0 \/ tally.overlooked > 0
        \/ \E d \in Deliveries : Carries(d)
        \/ \E o \in Operators : page[o].step = "enqueue"

\* A queued letter does not wait for ever, with its task, its stamp or both
\* lost: it is sent or failed in the end, or was in the hands of a worker that
\* died (requeue_stale_crm_emails).
QueuedSettles ==
    letter.status = "queued" ~>
        \/ letter.status \in {"sent", "failed"}
        \/ letter.status = "sending" /\ tally.deaths > 0
=============================================================================
