# hoocon-cms in TLA+

hoocon-cms is the site of an equipment manufacturer: a Django back end
(`src/backend`) with a public catalogue, articles, a client cabinet, a CRM with
mail and telephony, a support chat whose first line is an assistant built on a
language model, and a React front end over its API. PostgreSQL holds the data
(READ COMMITTED, no request-wide transaction), Redis is the cache and the Celery
broker, one Celery worker process runs two tasks at a time and `celery beat`
starts the periodic ones.

What can go wrong in this program goes wrong between two of its actors: a task
that read a row before a slow call and writes after it, two workers with the same
row, a client who writes while a manager answers, a worker that dies between two
writes. The modules here model those parts. Text, layout, queries and parsing are
left out.

## 1. Inventory

| part | state | operations | what is hard |
|---|---|---|---|
| Support dialog (`supportchat`) | `Conversation` row (status, assignee, `ai_active`, `ai_escalated_at`, `ai_turn_count`, unread, e-mail), its `Message` rows, delayed Celery tasks | `add_inbound_message`, `add_staff_reply`, `add_staff_note`, `assign_conversation`, the views of the mobile application and of the admin, `gigachat_reply`, `_escalate_conversation`, `support_escalation_busy_followup`, `support_manager_silence_watchdog`, `supportchat_housekeeping` | reads outside the row lock, a call to the model of up to minutes, overlapping countdowns, lost tasks |
| Staff alerts and delivery (`accounts/tasks.py`, `webpush`, `staff_api/tasks.py`, `deliver_outbound_message`) | a cache key per channel and message, `external_message_id` | debounce, claim, send, retry | the claim precedes the send; a send may fail and have been shown |
| CRM mail outbox (`crm/tasks.py`, `crm/services.py`, `crm/admin/email.py`) | `EmailMessage.status`, a time stamp in the cache, the broker | create, send, claim, requeue, retry by hand | redelivery, a crash around SMTP, two tasks on one row |
| CRM quotes (`crm/quote_ops.py`, `crm/quote_reply.py`, `crm/admin/quote.py`) | `Quote.status`, `sent_at`, `valid_until`, the order made of it, its lead | the board and the form move it, issue (stamp, PDF, letter, lead), recall, the client accepts by the public link, order | the client and two members of staff act on one row; the issue is several commits; the lead is judged by a copy |
| Planned touches (`crm/outreach.py`) | touch row, notification mark | sweep and notify | the lock is released before the send |
| IMAP import (`crm/imap_fetch.py`, `crm/tasks.py`) | a cursor per mailbox, a cache lock with a time to live, cached counts of failures, letters, cards and leads | poll, fetch, recognise, store, defer, pass over, save the cursor | a run dies or overlaps another half way; a sound letter meets a unique key |
| Leads (`leads/services.py`, `leads/rfq_bundle.py`, `leads/admin.py`) | lead status, assignee, processed-by, thread root | arrive, attach to a thread, take, set status, close one, several or a thread, edit in the form | inserts that do not see each other; rows saved as they were read |
| Client cabinet (`cabinet`) | account, e-mail code and its attempts | request, verify | counters in the cache |
| Staff codes (`accounts`, `config/admin_otp.py`) | one-time code, attempts, recovery codes | request, verify, use | a code used twice |
| Social announcements (`social/services.py`, `social/tasks.py`, `content`) | the news item, a `SocialPost` row per call and channel | publish by the form or the go-live beat, claim, dispatch, mark, retry, force | the claim locks rows that are SENT and none that is about to be |
| Messenger webhooks (`social/webhook_dedup.py`, `webhooks.py`, `tasks.py`) | two cache keys of an update, its task, the row it leaves | accept, enqueue or handle in the request, lock, store, mark, unlock, retry | get, then add, then delete on error; a row is committed before the calls that follow it |
| Catalogue (`catalog/http_cache.py`) | version in the cache | read, bump | a stale body stored under a new version |
| Redirects (`redirects`) | table and lookup cache | look up, edit | stale cache |
| Analytics (`analytics`) | counters in the cache, rows | count, flush | increments lost in a flush |
| Content, search, settings, web push subscriptions, staff requests | plain rows | create, read, update | nothing beyond a row save |
| Front end, deployment, scripts | - | - | no shared program state |

How they meet: every message of the support chat enqueues tasks of the assistant
and of the staff alerts; leads and quotes write letters into the outbox; an
article that goes live starts the announcements; webhooks of the messengers enter
the support chat through the check that handles an update once.

What makes each of them correct, in one line:

* dialog: the assistant answers only where it leads, the latest message, once;
  nobody is left waiting: a handoff that nobody takes returns to the assistant;
* alerts: one alert per message and channel, and at least one;
* outbox: a letter is sent at most once unless SMTP refused it, and a queued
  letter is sent in the end;
* quotes: the client agrees once, one order is live, an issue is stamped, written
  about and closes its lead, and no move goes round the issue;
* mail: no letter is lost, none is stored twice, two runs never overlap;
* leads: one thread for one request, a lead that is taken stays taken, its
  taking is announced once;
* announcements: an item is dispatched once to a channel, and the rows say what was
  posted;
* webhooks: an update leaves one row and is not lost on an error; the client sees a
  reply once (as often as its one POST was sent), and a manager who is told that it
  is sent is not deceived;
* touches: each handled once;
* codes: a code admits once, and the number of attempts is bounded;
* caches: what is served is not older than the last change that was announced.

## 2. Modules

| module | what it is |
|---|---|
| `SupportDialog` | one support conversation with its people, tasks, sweep, failures and time |
| `MCSupportDialog` | its small instances for TLC |
| `SupportDialogProofs` | theorems about `SupportDialog`, checked by TLAPS |
| `DialogLog` | the abstract dialog: what `SupportDialog` promises, without tasks, workers, time and failures |
| `CrmOutbox` | one outbound letter, the deliveries of its task, the sweep and the admin |
| `Announcements` | one news item, its publication and the calls that announce it in the channels |
| `MailImport` | the mailboxes, the runs of the import task and what they store in the CRM |
| `MailLedger` | the abstract ledger: what `MailImport` promises, without runs, lock, tries and crashes |
| `LeadDesk` | the leads of one company, their thread, and the managers' requests |
| `QuoteDesk` | one quotation, the staff who move it, the client's pages, its order and its lead |
| `MessengerUpdate` | one update of a messenger, the handlers of its copies, its rows and their delivery |
| `MCCrmOutbox`, `MCAnnouncements`, `MCMailImport`, `MCLeadDesk`, `MCQuoteDesk`, `MCMessengerUpdate` | small instances for TLC |
| `CrmOutboxProofs`, `AnnouncementsProofs`, `MailImportProofs`, `LeadDeskProofs`, `QuoteDeskProofs`, `MessengerUpdateProofs` | theorems about the module each is named after |

`SupportDialog` is composed with `DialogLog`, and `MailImport` with `MailLedger`, by
a refinement mapping. The components are not composed with each other: what passes
between them is the creation of a row (a letter of the outbox, a lead of the import,
a closed lead of a quote, a message of the dialog), which each module holds as far
as it decides anything there.

### 2.1 SupportDialog

State and code:

* `conv` is the row `Conversation`; `escalatedAt` is the number of messages the
  dialog had when `ai_escalated_at` was set. Both that column and
  `Message.created_at` are taken under the row lock, so "created at or after the
  escalation" is "a later message".
* `log` is the sequence of `Message` rows by id: an entry has its kind and, for an
  answer of the assistant, the inbound message it answers. The automatic reply
  outside working hours is left out: it is written in the transaction of the
  inbound message and no decision looks at it.
* `queue` is the set of Celery tasks enqueued and not started, each with the ticks
  of its countdown. Two enqueued copies of one task with the same countdown are
  one element: they run one after the other and the second finds what the first
  left. The delay before a retry is not kept.
* `worker` is what each worker slot is in the middle of, with what the task
  remembers of the row (`eligible`, `capped`) and, on its way to `_resume_stale_ai`,
  of the silence before its message (`silent`).
* `opened` and `sweep` are the two unlocked pairs of read and write outside the
  tasks: `change_view` of the admin, and the query and the write of the sweep.
* `clock` holds the age of the events the deadlines count from; `Tick` advances
  it and the countdowns. All ages stop at `Horizon`.

Actions: a transaction under `select_for_update` is one action. `gigachat_reply` is
several: it loads the row (`ReplyLoads`, or `ReplyContinues` and
`ReplyDeclinesContinue` for the button "continue with the bot"), finds itself
superseded, calls the model, or asks `_resume_stale_ai` (`ReplyAsksResume`), resumes
the stale dialog under the lock and then, as a separate step, says so; the answer,
its being too late, the retry and the last failure follow the call; the escalation
is a further transaction. The watchdog takes the dialog in one transaction and
announces it in the next. What the assistant says is the choice between an answer,
an answer with a handoff and an error. `WorkerCrashes` and `TaskLost` model early
acknowledgement and the broker.

Not in it: the admin form that saves the whole row, deletion of a dialog, ratings,
the file quota, the duplicate check on external ids (a redelivered messenger update
adds nothing; `MessengerUpdate` models it), delivery to the messenger, and the
switch that turns the assistant off.

### 2.2 CrmOutbox

State and code:

* `letter` is the row `EmailMessage`: its status and `message_id`.
* `stamp` is the cache entry `crm:email-send:<pk>`, by its age against the twenty
  minutes of `_EMAIL_SEND_STALE_SECONDS`.
* `delivery` is what each delivery of `send_crm_email` is in the middle of, with
  its retry count and the Message-ID it read or made. A delivery that is not in
  use is free; `Deliveries` bounds how many exist at a time. The delay before a
  retry is not kept.
* `page` is what a member of staff has read and not yet written: the rows
  `queue_send` iterates over, or a change form.
* `sweep` is the gap of `requeue_stale_crm_emails` between its last look at the
  row and the enqueue.
* `mail` and `tally` are histories: the Message-IDs of the copies SMTP accepted,
  and counts of the events the properties speak of.

Actions: each read or write of the row in `send_crm_email` is one (`SendLoads`,
`SendStoresId`, `SendClaims`, `MarksSent`, `MarksFailed`); so is the answer of
SMTP, which may accept, refuse, or accept and report an error. The one handler
for errors before and after the claim is `SendBreaks` or `SmtpRefuses`, then
`MarksFailed`, then `SendRetries`. `WorkerDies` brings the delivery back
(`acks_late`, `reject_on_worker_lost`) or not (hard time limit, an exception in
`mark_sent`). `StampAges` waits for deliveries that have claimed the letter: the
hard time limit of a task is six minutes.

A POST of the change form is two actions: `FormChecks`, the query of `save_model`
for the previous status, and `FormSaves`, the write of the status the form was
opened with (or QUEUED) and the enqueue. Between them the letter may move on, which
`tally.overlooked` counts. A request that dies between the commit and the enqueue is
no action of its own: it leaves what the loss of the task and of its stamp leaves
(`BrokerLoses`, `CacheLoses`). The write of the other columns is left out, and so
are inbound letters, attachments and the text.

### 2.3 DialogLog

The dialog as the code's comments promise it: a log that only grows, who leads
(`leader`), and the place of the handoff (`handoff`). The assistant answers the
client's last message and only where it leads, asks for an e-mail once and only
while nobody has replied, and each handoff and each way back is an action. It has
no tasks, clock or failures. `SupportDialog` instantiates it with
`leader <- Leader(conv)`, which is `Conversation.ai_eligible` of the row, and
`handoff <- conv.escalatedAt`; every step of every task, console and sweep maps to
one of its actions or to a stutter.

### 2.4 Announcements

* `news` is the item; `page` what `save_model` of each editor's form has read of
  `is_published`; `queue` the messages of `announce_content_task`.
* `call` is each call of `announce_content`: who runs it (the task, which
  retries; beat's go-live task; staff with `force=True`), the channel it is at, and
  whether it has claimed, posted or failed there.
* `sent` and `failed` are the `SocialPost` rows as the code asks for them: how many
  are SENT in a channel, and whether there is one FAILED or SKIPPED. A PENDING row
  is known by the call that holds it; one whose call has ended is looked at by nobody.
* `copies`, `excess` and `tally` are histories: posts a network has taken, dispatches
  that come on top of the one a channel is to get, and mishaps.
* `Attempts` is how often one dispatch may show its post. `_telegram_urlopen`
  (`social/publishers.py:84`) sends the request again after a timeout, a broken
  connection, a 5xx or a 429, up to `_TELEGRAM_RETRIES` times, and Telegram may have
  kept each attempt it did not answer; VK and MAX are called once. `Accepts` and
  `Doubts` therefore add any number of posts up to `Attempts`, and the row hears of
  one outcome.

A claim is one transaction (`Claims` or `Skips`), the post (`Accepts`, `Rejects`,
`Doubts`, or an exception: `Retries`, `Raises`) another step, the mark
(`Marks`) a third. Publishing is two steps for the form (`FormReads`, then
`FormSaves` or `FormCollides` on the unique slug) and two for beat. Left out: the
text and cover of a post, and the edit or deletion of one.

### 2.5 MailImport

* `inbox` is what each mailbox holds; a letter's position is its UID. `cursor` is
  `InboundMailboxState.last_uid`, `lock` the cache key of the task, `budget` the
  cached failures of a UID, up to `_TRANSIENT_RETRIES`.
* `run` is what a run of the task is in the middle of: the cursors it read at its
  start, the mailbox, how far it got, and inside a transaction whether it has found
  the sender.
* `clients`, `leads` and `rows` are what the CRM has: cards, leads, and how many
  rows each letter has. A letter is known by what the import decides by: whether it
  has a Message-ID, a From, and names a lead.

A letter is handled in two steps, the lookup and the commit, with the site creating
the card in between (`CardCreated`). The handler of errors is `Defers` and
`GivesUp` (transient, until the tries are used), `Collides` (a unique key, which it
takes for a broken letter) and `TimesOut`. `Dies` leaves the lock behind,
`LockExpires` removes it when the run is over (its time to live is above the
task's hard limit), `CacheLoses` empties the cache. `Broken` are letters without a
valid From; whatever else the handler at `imap_fetch.py:565` catches and passes over (a
time limit, an answer of the server without a body, line 473) is `TimesOut`, a mishap
that may fall on any letter. Left out: what a letter says, its attachments, the
linking of a reply to its thread, and a commit whose acknowledgement is lost, which
the handler would take for a failure.

`MailLedger` is what this adds up to, as `DialogLog` is for the dialog: letters come,
a letter goes in whole (row, card, lead) or is passed over with a mark, and a mailbox
is ticked off only as far as its letters have been dealt with. `MailImport`
instantiates it with `skipped` as the positions of `passed`; lookups, the lock,
failures and dead runs are stutters.

### 2.6 LeadDesk

* `stage` is how far the transaction that creates a lead has got, so that other
  transactions see committed rows only; `keyed` are the leads with the
  `rfq_bundle_key` in question, `root` their `rfq_bundle_root`, `keyLock` the
  advisory lock on the key, `old` those that have left the window of the thread.
* `row` has status, assignee and processed-by; `page` is what each manager's request
  has read and will save: one row, several, or the form.
* `notices` counts the `send_lead_taken_notice` tasks; the rest are histories.

`Takes` is one locked transaction. Everything else reads (`ReadsOne`,
`ReadsSome`, `FormOpens`, `FormPosts`) and saves later (`SavesRow` row by row,
`FormSaves`), every column of what it read. Left out: `seen_at`,
`contact_verified`, the form's own fields for who processed a lead, its type and the
root of its thread, deletion, and the letters about a lead. A root that staff set or
clear by hand in the form (`leads/admin.py:253`) is thus no case of `OneRoot`.

### 2.7 QuoteDesk

* `quote` has the status, whether `sent_at` is set and whether `valid_until` is
  over; `rowLock` is the row lock, which the client's answer and the order take; a
  write of anybody else waits for it.
* `page` is a request of staff, with the status, the stamp and the status of the lead
  it has read (`get_queryset` reads the lead in the same query); `tab` a
  page of the client; `orders` the number of its orders that are not cancelled.
* `lead` is the lead, which managers close and reopen at any time (`LeadMoved`).
* `written`, `agreed`, `tally` are histories.

A quotation begins as what the form that adds it says: `Quote.clean` checks nothing of
a new one (`crm/models.py:601`). `Init` has every status; one that is added as SENT has
been issued in the same transaction, its PDF made or not, and one that is added as
ACCEPTED or REJECTED has no stamp and no letter (`tally.unissued`, until it is SENT).

The board works in autocommit: the move, the stamp or its removal, the PDF and
the letter, and the closing of the lead are four actions (`BoardMoves`,
`BoardStamps`, `BoardWrites` or `PdfFails`, `BoardCloses`). The form is one
transaction after its read (`FormCommits`), in which the PDF may fail too. Both close
the lead only if the copy of it they have read is not done (`LeadAfter`). `AcceptLocks`
decides under the lock and `AcceptCommits` writes. The form of an order takes one away
(`OrderTakenAway`: cancelled, deleted, given to another quotation) or makes one more
live (`OrderByHand`: brought back, added, given to this one). "Written to" means the PDF
and, if the client has an address, the letter. Left out: moving a quotation
to another lead or client, copies and drafts made from a specification, the client's
comment, which changes no status, positions, prices, numbers, deletion.

### 2.8 MessengerUpdate

* `done` and `lock` are the two cache entries of `webhook_once` for one update; the
  update is a client's message or the reply of a manager written in a messenger
  (`kind`).
* `handler` is what each request or task of the update is in the middle of, with the
  retries of its task and the row it has stored. A copy that is enqueued is a handler
  too ("queued"), in a request (`web`) or not.
* `row` are the `Message` rows the update leaves: whether the calls on commit have
  run (`taken`), whether the manager was told, and where `deliver_outbound_message`
  is, as a task (`task`, `tries`) or called by the handler (`inline`); `copies` is
  what the client has seen, `doubts` the copies shown by a POST that ended in an error.
* `tally` is a history of what befell the update.

`cache.get` (`Checks`) and `cache.add` (`Locks`, `SkipsLocked`) are two steps, and
so are the commit of the row (`Stores`) and the calls after it (`Takes`,
`TakeFails`). An error of the file store is the `OSError` that Celery retries
(`FileFails`, `UnlocksToRetry`); other errors end the task. `FallsBackBeside` and
`DeliversTwice` are a broker that reports an error for a task it has kept. A POST
shows a reply up to `MaxAttempts` times: on Telegram `_telegram_urlopen` repeats it
and reports one outcome, so that `InlinePosts` and `DeliverPosts` may show copies
nobody answered for beside the one that was answered, and `InlineFails` and
`DeliverFails` as many as there were attempts. `HandlerDies` leaves the lock to
`LockExpires`: the soft time limit of tasks and the timeout of gunicorn stop a
living handler before the lock runs out.

Left out: updates without a key (nothing keeps their copies apart), menus, the
pending reply mode, notes, templates and reassignments written as commands, the web
channel (nothing is posted there), and the day after which the done entry expires,
which is longer than messengers repeat an update.

## 3. Runs

| run | what it asks | what it shows |
|---|---|---|
| `SupportWorkers` | two workers, a burst with the continue button, a failing model | `AnswersLatestInbound`, `BusyFollowupOnce`, `NeverInSilence`, `TypeOK` hold |
| `SupportConsoles` | a manager who replies, notes and reassigns | `WatchdogSparesManager`, `HandoffWatched` and the refinement `ImplementsDialogLog` hold; the last implies that the bot answers only where it leads and that a handoff pauses it |
| `SupportLiveness` | one message, one reply, closing and taking at will, fair workers | `BotAnswersEventually`, `HandoffTakenBack` hold |
| `SupportRescue` | as above with a lost task or worker, a client who returns, staff who mark read | `BusyFollowupRescued`, `TasksRunOut` hold |
| `AnswerOverManager` | a reply between the task's read and `_resume_stale_ai` | `NoAnswerOverManager` is violated: the silence is measured before the message |
| `OutboxCopies` | two deliveries, a retry, a death, a loss, a request of staff | `QueuedIsCarried`, `OneCopy`, `SendingIsHeld` hold |
| `OutboxSettles` | the same without staff, with fair workers and beat | `QueuedSettles` holds |
| `Announcements` | two calls, two channels, one of which repeats its POST, an editor, a forced call, a retry, a mishap | `ReturnsSettled`, `OneAnnouncement`, `SentTold`, `PublicationSettles` hold |
| `MailImport` | two runs, two letters of a new sender (one without a Message-ID, naming a lead) or a broken one, a card made meanwhile, a mishap | `TypeOK`, `NoLetterLost`, `NamelessStoredOnce`, `RunsApart`, the refinement `ImplementsMailLedger`, `MailArrives` hold; the refinement implies that a new sender has a lead |
| `Leads` | three leads, two managers, one of whom sees everything, five arrivals and requests | `OneRoot`, `TakenIsKept`, `TakingToldOnce`, `RowAddsUp` hold |
| `Quotes` | a quotation created as anything, two members of staff with two requests, two pages with two answers, a lead that is closed and reopened, a mishap or an order by hand | `AgreedOnce`, `OneLiveOrder`, `IssueAddsUp`, `IssuedFirst`, `IssueClosesLead` hold |
| `Messenger` | two copies of an update, two handlers, a retry, a POST that is sent twice, a death or a loss, a broker that keeps what it refused | `NotForgotten`, `HandledOnce`, `DoneIsTakenUp`, `SeenOnce`, `ToldIsUnderway`, `UpdateSettles` hold |

Most safety properties have the form "no more than one, plus what was counted": the
code allows a second copy, post or agreement in cases the model names one by one (an
error reported for what was accepted, a form posted over a newer row, an overlap
without a lock, a POST that Telegram got three times), and the property says that
there is no other case. The cases themselves are listed in section 5.

Several safety properties say what a liveness property rests on, for any scheduling.
`QueuedIsCarried`: a queued letter waits for the sweep only after a death, a loss or a
form saved over it. `ReturnsSettled`: a call of `announce_content` that returns has
left a row in every channel, unless it is cut short there. `NotForgotten`: an update
the webhook took is done or somebody is at work on it, unless it failed for good, died
with its process or was lost.

`TasksRunOut` rests on the bound of the retries: every escalation is preceded by a line
of the bot, so that a takeover enqueues no reply, whatever the turn count that
`tasks.py:690` keeps.

Two invariants say what the liveness of the dialog rests on, without fairness and
with everybody interfering: `HandoffWatched` (as long as no task is lost, a handoff
that waits has a watchdog in the queue that will find it due) and `NeverInSilence`
(while the bot leads, the last message has been followed by a line of somebody or a
task or worker is on its way to it). The cases they except are real: TLC violates each
of them when an exception is dropped, and section 5 says how.

Bounds. Two messages of the client are a burst; a third adds no new order of two
tasks. One turn reaches the cap, one retry reaches the last try. One manager and
one reply suffice: no rule tells managers apart, only whether somebody is
assigned. Durations are the smallest that keep their order: the busy delay and the
reply window are one tick, the takeover their sum, the two long silences two.
`Operations` names the unlimited operations people may perform in a run, and
`MaxSweeps`, `MaxNotes`, `MaxReassigns` bound those that write a message.
`PromptWorkers` makes time stop while a task is due: the runs about waiting use it,
so that what they find is not a slow worker. `SupportWorkers` runs without it and
with symmetric workers.

In `CrmOutbox` two deliveries are enough for one to overtake the other between any
two of its steps; a third, redelivered or requeued, finds a free slot as soon as
one ends. One retry, one death, one loss and one doubtful copy meet every error
path; one request of staff is a form or a queue action at any point. Several
requests at once are covered by the theorems, which bound nothing.

In `Announcements` two calls meet in every pair of steps, two channels make a call
go on after one, and one mishap falls on either; one channel repeats its POST and
the other does not, and two attempts tell a repeat from none. In `MailImport` one
mailbox and two letters let a run stop before, between and after them; two mailboxes
only repeat it, since cursors are apart, and the theorems cover any number. `Posts`
holds the two orders that matter, the nameless letter first and the broken one
first. `Tries` is two: one failure defers, the next gives up. In `LeadDesk` three
leads are what a thread needs for a root, a member and a rival root; five events are
three arrivals and two requests, or one arrival and four requests. In `QuoteDesk` a
quotation may begin as issued, so that two requests are a recall and a second issue,
a move and one that overlaps it, or two orders; one mishap is a death, a failed PDF
or an order made by hand. In `MessengerUpdate` two handlers meet between any two
steps, two rows are what a gap or a broken handler leaves, and one retry of either
task reaches the last try; two attempts tell a repeated POST from a single one, and
`MaxUnheard` lets two attempts in all be shown unanswered, in one POST or in two.
One process dies or one task is lost, and beside it one task is kept that the broker
refused. The theorems bound none of this. These runs may stop where everything has
been done, and do not ask for the absence of deadlock.

Fairness (`FairSpec`). `SupportDialog`: a worker goes on with the task it holds
(Celery's soft and hard time limits end every call); the queue is first in, first
out, so a due task of any kind is not passed over for ever (strong fairness, since
with one slot the start is disabled while the slot is busy); beat keeps sweeping
and time passes. Nothing is assumed of people. `SupportLiveness` runs without lost
tasks, without reassignment to nobody and without reopening by hand: each of these
leaves a waiting dialog with no task, and the code has no sweep for it.
`Announcements`: a call goes on, and a worker comes round to the task (strong, for
the same reason). `MailImport`: beat starts the task and a run goes on, both
weakly; the lock of a dead run expires. `QuoteDesk`: a request goes on and who
waits for the row lock gets it in the end (strong: another may take it first), and
a transaction ends. `MessengerUpdate`: requests and tasks of the update go on,
the broker delivers those it holds and a lock nobody holds expires, all weakly (each stays
possible until it happens); nothing is assumed of the messenger or of the delivery of
replies. `LeadDesk` states no liveness: nothing there happens unless
somebody asks.

## 4. Proofs

All theorems hold for any values of the constants that meet the assumptions named
in the modules: any number of people, workers, messages, channels, mailboxes,
leads, requests and mishaps.

`SupportDialogProofs`, with `TimingAssumption` (which `escalation_takeover_seconds`
guarantees):

* `TypeCorrect`: `TypeOK`;
* `EscalationPauses`: the invariant `EscalationPausesBot`, inductive with `TypeOK`;
* `AnswersLatest`: `AnswersLatestInbound`; the induction needs `Anchored`: every
  task in the queue and in a worker names a message the client wrote. `LogStep`
  says what a step may append, and is shared by the next two;
* `BusyOnce`: `BusyFollowupOnce`;
* `AnswersOnlyWhenLeading`: the action property `BotAnswersOnlyWhenLeading`;
* `WatchdogSpares`: the action property `WatchdogSparesManager`, from `Anchored`
  and the fact that only `WatchdogTakesOver` puts a worker into "tookOver";
* `HandoffIsWatched`: `HandoffWatched`, inductive with `TypeOK`, `Anchored` and
  `Dated` (a handoff happened at a message that is there). A watchdog that starts
  too early stands down, and is not the one the invariant speaks of: the sum of its
  countdown and the age of the handoff reaches the delay, and `Tick` keeps that sum.
  `OneMoreLine` says what a further message changes for the questions the code asks
  of the log, `HasLatest` that some message of the client is the last;
* `SilenceIsBroken`: `NeverInSilence`, with `Anchored` and `Replying` (whoever may call
  the model holds a reply task). An answer is dropped or superseded only when the
  message is not the last or the bot does not lead; every way back to the bot leaves
  a worker that will speak;
* `DialogRefines`: the refinement `ImplementsDialogLog`. `TypeOK /\ Anchored`
  suffices: each handler has a lemma (`...Promise`) that names the abstract action
  it is.

`CrmOutboxProofs`, for any finite set of deliveries:

* `OutboxTypeCorrect`: `TypeOK`, with `Named` (a delivery that has read the row
  has a Message-ID), since otherwise `mail` could hold a copy without one;
* `SendingHeld`: `SendingIsHeld`, inductive with `TypeOK`. A delivery about to
  retry does not count as a holder: it has written FAILED, and counting it would
  break the induction when it leaves;
* `CopiesCovered`: `OneCopy`. By itself it is not inductive: a claim that is under
  way will add a copy later. `Budget` adds to the copies that went out those that
  are owed (deliveries that have claimed and have not been accepted, or wait to
  write FAILED) and the one a claimable status stands for; every action keeps the
  sum covered. `SendClaims` turns the status into an owed copy, `SmtpAccepts` an
  owed copy into mail, `MarksFailed` an owed copy back into the status, or, if the
  delivery owed none, counts it as spoilt;
* `QueuedHasItsTask`: `QueuedIsCarried`, inductive with `TypeOK`. A delivery stops
  carrying the letter only where the letter is not QUEUED (`SendCarries`); whoever
  writes QUEUED enqueues it, is about to, or is counted in `tally.overlooked`
  (`StaffCarries`).

`AnnouncementsProofs`, for any finite set of calls:

* `AnnouncementsTypeCorrect`: `TypeOK`;
* `EverySentTold`: `SentTold`, inductive with `TypeOK`. `Posts` sums the dispatches whose
  post was taken: SENT rows, those about to be marked, those nobody could know of. A
  mark moves one between the terms; an acceptance adds one to the sum and between one
  and `Attempts` to the copies, so that copies stay between `Posts` and `Attempts` times
  `Posts`, which is equality for a channel whose POST is made once;
* `AnnouncedOnce`: `OneAnnouncement`, from `Budget`: the SENT rows of a channel, the
  claims that may still become SENT and the forced calls that have not reached the
  channel are covered by one, the forced calls so far and the overlapping claims.
  `SentTold` turns SENT rows into posts, with the factor `Attempts`;
* `CallsReturnSettled`: the action property `ReturnsSettled`, from `BehindSettled`:
  every channel a call has behind it has a row that says what happened.
  `SettledStays` says that no step of anybody takes that from a row, which is why a
  retry, or a call whose claim was refused, may go on.

`MailImportProofs`:

* `MailTypeCorrect`: `TypeOK`, with `Placed` (a run is at a letter its mailbox
  holds);
* `RunsStayApart`: `RunsApart`, from `Locked`: while the cache has lost nothing,
  whoever runs holds the lock, so two who run are one;
* `NoneLost`: `NoLetterLost`, from `Behind`: not only what the cursor has passed is
  dealt with, but also what each run has behind it, in the mailbox it is at and by
  the cursors it read at its start, which it will write back;
* `LeadForNewSender`: `NewSenderHasLead`, with `Found` (a sender the transaction has
  found has a card, since cards are not deleted);
* `NamelessOnce`: `NamelessStoredOnce`, from `Fresh` (while the cache has lost
  nothing, nobody moves the cursors a run has read) and `StoredAsPassed` (a letter has
  no more rows than copies that a cursor, or a run on its way, has passed);
* `ImportRefines`: the refinement `ImplementsMailLedger`. `ArrivesPromise`,
  `StorePromise` and `CursorPromise` name the abstract action of a step; a cursor is
  saved within what the ledger ticks off because of `Behind`;
* `RunsComeToAnEnd`: `RunsEnd`, the part of `MailArrives` that needs no fairness:
  `StepsLeft` is lowered by every step of a run and raised by none but its start, so
  a run that goes on ends after a number of steps that the mailboxes and
  IMAP_FETCH_LIMIT bound.

`LeadDeskProofs`:

* `LeadTypeCorrect`: `TypeOK`, with `Busy` (a request has rows to save); the oldest
  of several leads exists by well-founded induction on the numbers;
* `RowsAddUp`: `RowAddsUp`: every save passes through `Stamped`;
* `TakingKept`: `TakenIsKept`, with `Unheard` (nobody is told of a lead that is not
  committed);
* `TakingAnnouncedOnce`: `TakingToldOnce`, from `Announced`: a lead that is free has
  used up no announcement;
* `OneThread`: `OneRoot`, from `KeyHeld` (who has looked for a root and not committed
  holds the key), `DoneIsClosed` and `Roots`, which says the same of leads that are
  still in their transaction.

`QuoteDeskProofs`:

* `QuoteTypeCorrect`: `TypeOK`, which includes who holds the row lock;
* `ClientAgreesOnce`: `AgreedOnce`, from `Agreements`: an answer that goes ahead has
  found SENT, and nobody writes the row before it commits;
* `OrderedOnce`: `OneLiveOrder`, from `Orders`: whoever is about to create one holds the
  row lock and has found none, but for those made by hand;
* `QuoteIssuedFirst`: the action property `IssuedFirst`, from `Legal` (a request
  wants what the row it read allows) and `Agreements`;
* `IssuesAddUp`: `IssueAddsUp`, from `Ledger`: as long as requests come one by one,
  each stage of an issue knows what it has left to do, whatever the client does;
  `tally.unissued` keeps apart what was created past the issue.

`MessengerUpdateProofs`, for any set of handlers; the inductive invariant `IInv` has
a part for each property, and a lemma for each part:

* `UpdateTypeCorrect`: `TypeOK`, with `RetryInv` (a task about to be retried has a
  retry left);
* `UpdateHandledOnce`: `HandledOnce`, from `LockInv` (between lock and release a
  handler is alone) and `CountInv`: while a handler is about to store, or the next one
  to take the lock would, one row fewer is accounted for;
* `UpdateTakenUp`: `DoneIsTakenUp`, from `TakenInv`: a row whose calls have not run
  has a handler that will make them, or was left by a broken one;
* `ReplySeenOnce`: `SeenOnce`, from `CopyInv`, which charges the copies that are no doubts
  to the task once it has posted, or to the handler once it is no longer about to post:
  `MaxAttempts` to each, since one POST may have been sent that often. Lemmas say what
  each POST adds to the copies and the doubts of its row;
* `ManagerNotDeceived`: `ToldIsUnderway`, from `ToldInv`;
* `UpdateNotForgotten`: `NotForgotten`, from `HeldInv`: a lock for which a copy is
  skipped has a handler at work behind it, or one that died.

The type invariants of `LeadDesk`, `QuoteDesk`, `CrmOutbox`, `Announcements` and
`MessengerUpdate` are proved and no longer run. Every
safety and action property and both refinements that a passing run checks are proved.
Liveness stays with TLC (`BotAnswersEventually`, `HandoffTakenBack`,
`BusyFollowupRescued`, `TasksRunOut`, `QueuedSettles`, `PublicationSettles`,
`MailArrives`, `IssueClosesLead`, `UpdateSettles`): the prover handles neither
fairness nor ENABLED.

## 5. Races the models show

One has a run that finds it, `AnswerOverManager`. The others are admitted by name in
the properties above, or kept out of a run's operations, as section 3 says.

Support dialog:

* A sweep may close a dialog whose client wrote after the query
  (`HousekeepingSelects`, `HousekeepingCloses`).
* A message may be answered twice: the recheck before the answer does not ask
  whether the message has been answered (`tasks.py:707`).
* A reply committed between the assistant's answer and its escalation does not
  count as an answer to the handoff, and the busy follow-up is sent (`tasks.py:464`).
* Opening the admin page may clear the unread mark of a fresh handoff
  (`admin.py:434`).
* A task that read a row of people drops its message when the dialog has been given
  back to the bot meanwhile (`_resume_stale_ai` returns False at `tasks.py:302`). Two
  quick messages after a long silence do it: the first task passes the check for a
  newer message (`tasks.py:391`), the second reads the row as people's, the first
  resumes the dialog and its answer is dropped as superseded, the second finds the
  dialog led by the bot and ends. The client gets the notice that the bot is back and
  no answer, although `tasks.py:389` says that a burst gets one, to the latest message.
* A message whose task ran before that of the continue button stays unanswered when
  the button gives the dialog back: the task of the button is superseded by it. So
  does a message that people left, in a dialog that is reopened by the client's return
  or assigned to nobody: no task answers it (the exceptions of `NeverInSilence`).
* A handoff that was assigned and then assigned to nobody may have no watchdog that
  finds it due (the exception of `HandoffWatched`).
* A message that arrives while the bot leads gets no watchdog; if a manager takes
  the dialog before its task starts, the task ends (`tasks.py:402`) and nothing
  watches over the client.
* Each message after a handoff restarts the busy countdown and not the takeover's,
  so the takeover may come first (`gigachat/manager_silence.py:66`; its line 6
  says the follow-up does).
* After the busy follow-up a takeover answers nothing: `_ai_answered_after`
  (`tasks.py:718`) counts the follow-up as an answer (`tasks.py:721`).

CRM mail outbox:

* `save_model` reads the previous status without a lock and saves after it
  (`crm/admin/email.py:194`): if the letter was QUEUED at the look and has been
  claimed before the save, the save makes it QUEUED again with no task, and it waits
  for the sweep (the exception `tally.overlooked` of `QueuedIsCarried`).
* An error before the claim, such as a missing attachment, makes `mark_failed`
  overwrite the SENT of another delivery; the retry sends a second copy
  (`crm/tasks.py:268`; lines 91 and 93 say that only a claimed letter is sent).
* Two deliveries make a Message-ID each and only the first is stored
  (`crm/tasks.py:206`): replies to a letter sent under the other do not find it.
* The retry of a FAILED letter is lost with the broker: no sweep looks at FAILED
  (`crm/tasks.py:269`).

Announcements:

* `_claim_post` locks the SENT rows there are (`social/services.py:123`), so two
  first calls both claim, although its docstring (line 107) says that concurrent
  callers serialize and cannot both dispatch.
* A POST to Telegram that times out, or is answered with a 5xx or a 429, is sent
  again within the same dispatch (`social/publishers.py:84`): one SENT row may stand
  for up to three posts, and a FAILED one for as many (the factor `Attempts` of
  `OneAnnouncement` and `SentTold`).
* A channel that a call did not reach stays without a row, and the go-live task
  does not come back to an article that has its news item.

Messenger updates:

* `webhook_once` reads the done entry before it adds the lock
  (`social/webhook_dedup.py:97`): a copy that read early and locks late handles a
  reply once more.
* `TakeFails` and `InlineFails`: a reply whose row is committed when a call on commit
  or the inline delivery raises leaves the update unmarked, so that the manager, who
  sees no answer, or the messenger sends it again; a client's message is found by its
  number then (`supportchat/services.py:203`), and its alerts stay unsent.
* The refusal of a broker that has kept the task makes two deliveries of one reply
  (`supportchat/staff_actions.py:164`).
* A reply to a client on Telegram may be shown up to three times by one delivery that
  reports a plain success: `publish_telegram` goes through the same repeated POST
  (`social/publishers.py:84`; the factor `MaxAttempts` of `SeenOnce`).

Mail import: a card the site creates between the lookup and the INSERT of
`_resolve_client` raises `IntegrityError`, which is not among the transient errors: a
sound letter is passed over (`Collides`; `crm/imap_fetch.py:308`, although line 521
says that only a broken message is). The address of a mailbox changed while a run
works lets it save a cursor of the old one (`accounts/models.py:300`); this is
outside the model.

Leads: `take_lead_in_work` puts a lead that is done back to work and leaves
`processed_by` (`leads/services.py:469`), although line 498 says that leaving DONE
clears it. A save of a row read earlier takes a lead from its manager.

Quotes:

* The board writes over an ACCEPTED that came after its read (`quote_ops.py:109`).
* A request that dies between the stamp, the letter and the lead leaves an issued
  quotation that a second press does not repair: the status is SENT already.
* A recall that overlaps an issue clears the stamp of a quotation that is issued.
* The form that adds a quotation may make it ACCEPTED or REJECTED at once: `Quote.clean`
  returns when there is no key yet (`crm/models.py:601`) and `finalize_quote_status` has
  nothing to do. There is no PDF, no letter and no stamp, although the comment at
  `crm/models.py:501` says that a quote must be issued first (`tally.unissued` in
  `IssueAddsUp`; `IssuedFirst` speaks of moves).
* The lead is closed only if the copy read with the quotation was not done
  (`crm/quote_ops.py:77`): one that a manager reopens between the read and that line stays
  open after the issue (the antecedent of `IssueClosesLead`).
* The form of an order checks nothing of its quotation (`cabinet/admin.py:130`): it may
  add a second live order, or give it one of another (`tally.byHand` in `OneLiveOrder`).

## 6. Not modelled, and what remains

The repository has some 107000 lines. Most of them are an ETL of the catalogue run
by hand, the layout of the admin, texts and prompts, generated migrations and the
front end: they share no program state between actors, and a model of them would
restate them. What remains worth modelling, in order:

1. `StaffAlerts`: the cache claim of an alert before it is sent, and the debounce.
2. `PlannedTouches`: the sweep that reads under a lock, sends without it and marks.
3. `OneTimeCodes`: request, verify and attempts of cabinet and staff codes.
4. `VersionedCache`: the version of the catalogue cache, the redirect lookup and
   the analytics counters.
5. The admin form of a conversation (a whole-row save) as one more actor of
   `SupportDialog`: every property of the row would then except the forms saved
   over it; and deletion.

Text, layout and wording of the assistant (`gigachat/reply.py`, `triage.py`,
`quiz_bot.py`) are the nondeterministic choice of `SupportDialog` between an
answer, an answer with a handoff and an error.
