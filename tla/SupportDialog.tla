---------------------------- MODULE SupportDialog ----------------------------
(***************************************************************************)
(* One support conversation of the site chat and messengers                *)
(* (src/backend/supportchat): the client who writes, the managers who      *)
(* answer from several consoles, the GigaChat assistant that answers       *)
(* through Celery tasks, hands the dialog to people, and takes it back     *)
(* when people stay silent.                                                *)
(*                                                                         *)
(* A transaction that holds the row lock of the conversation               *)
(* (select_for_update) is one action.  Everything the code does outside a  *)
(* lock - the reads at the start of a task, the call to the language       *)
(* model, the notice that follows a takeover, the sweep that closes silent *)
(* dialogs, a page that is opened and then marks itself read - is a step   *)
(* of its own, so every order of two actors is a behaviour.                *)
(*                                                                         *)
(* Messages are kept in the order of their ids and carry only their kind   *)
(* and, for an answer of the assistant, the inbound message it answers.    *)
(* Whether a reply came after an escalation is decided by that order: both *)
(* timestamps are taken under the same row lock.  Durations are timers     *)
(* that Tick advances and that saturate at Horizon.                        *)
(***************************************************************************)
EXTENDS Naturals, Sequences, FiniteSets

CONSTANTS
    Managers,       \* staff who may handle support
    Nobody,         \* the assignee of an unassigned dialog (NULL)
    Workers,        \* Celery worker slots (concurrency 2 in deployment)
    MaxTurns,       \* ai_max_turns()
    MaxRetries,     \* max_retries of gigachat_reply
    ReplyWindow,    \* manager_reply_timeout_seconds(), in ticks
    BusyDelay,      \* escalation_busy_followup_seconds(), in ticks
    TakeoverDelay,  \* escalation_takeover_seconds(), in ticks
    ResumeAfter,    \* ai_resume_manager_silence_hours(), in ticks
    CloseAfter,     \* support_auto_close_hours(), in ticks
    Horizon,        \* timers stop here: no threshold is longer
    PromptWorkers,  \* TRUE: no time passes while a task is due
    Operations,     \* bound: the unlimited operations people perform
    MaxInbound,     \* bound: messages the client writes
    MaxContinues,   \* bound: presses of "continue with the bot" among them
    MaxReplies,     \* bound: replies the managers write
    MaxNotes,       \* bound: internal notes
    MaxReassigns,   \* bound: reassignments from the admin or a messenger
    MaxSweeps,      \* bound: closings for inactivity
    MaxLost         \* bound: tasks lost with a worker or the broker

ASSUME NobodyAssumption == Nobody \notin Managers

\* escalation_takeover_seconds() is at least the busy delay plus a reply window.
ASSUME TimingAssumption ==
    /\ Horizon \in Nat
    /\ ReplyWindow \in 1..Horizon
    /\ BusyDelay \in 1..Horizon
    /\ TakeoverDelay \in 1..Horizon
    /\ ResumeAfter \in 1..Horizon
    /\ CloseAfter \in 1..Horizon
    /\ BusyDelay + ReplyWindow <= TakeoverDelay

ASSUME BoundAssumption ==
    /\ MaxTurns \in Nat /\ MaxRetries \in Nat
    /\ MaxInbound \in Nat /\ MaxContinues \in Nat /\ MaxReplies \in Nat
    /\ MaxNotes \in Nat /\ MaxReassigns \in Nat
    /\ MaxSweeps \in Nat /\ MaxLost \in Nat
    /\ PromptWorkers \in BOOLEAN
    /\ Operations \subseteq {"return", "email", "take", "close", "read", "page"}

VARIABLES
    conv,    \* the row of the conversation
    log,     \* its messages, by id
    queue,   \* Celery tasks enqueued and not yet started
    worker,  \* what each worker slot is in the middle of
    opened,  \* an admin page was read and is about to mark itself read
    sweep,   \* the housekeeping sweep has this row in its stale snapshot
    clock,   \* how long ago, in ticks, the events the deadlines count from
    lost     \* tasks lost so far

vars == <<conv, log, queue, worker, opened, sweep, clock, lost>>

Assignees == Managers \cup {Nobody}

InboundKinds == {"inbound", "continue"}

Kinds == InboundKinds \cup
    {"reply",     \* a manager's message to the client
     "note",      \* internal note
     "assigned",  \* internal note of a reassignment
     "ai",        \* the assistant's answer
     "notice",    \* a service line of the assistant (raw_payload.ai)
     "busy",      \* the busy follow-up (raw_payload.ai)
     "closed"}    \* closed for inactivity

Line(kind) == [kind |-> kind, ref |-> 0]

Task(job, cause, i, wait) ==
    [job |-> job, cause |-> cause, inbound |-> i, retries |-> 0,
     wait |-> wait]

NoTask == Task("none", "none", 0, 0)

ReplyTask(cause, i) == Task("reply", cause, i, 0)

Idle == [pc |-> "idle", task |-> NoTask, eligible |-> FALSE, capped |-> FALSE,
         silent |-> FALSE]

-----------------------------------------------------------------------------
(* What the code asks about a conversation and its messages.              *)

\* Ids of the client's messages.
InboundIds == {i \in DOMAIN log : log[i].kind \in InboundKinds}

\* inbound_superseded: the client wrote again after message i.
Superseded(i) == \E j \in InboundIds : j > i

LatestInbounds == {i \in InboundIds : ~Superseded(i)}

\* manager_engaged_since: a manager replied after message i.
RepliedSince(i) == \E j \in DOMAIN log : j > i /\ log[j].kind = "reply"

Escalated == conv.escalatedAt # 0

\* manager_replied_after_escalation, with c the row the caller read.
ManagerReplied(c) == c.escalatedAt # 0 /\ RepliedSince(c.escalatedAt)

\* staff_acknowledgement_pending / the negation of clear_staff_unread_allowed.
AckPending(c) == c.escalatedAt # 0 /\ ~RepliedSince(c.escalatedAt)

\* conversation_ai_eligible: the bot still leads the dialog.
Eligible(c) == c.aiActive /\ c.escalatedAt = 0 /\ c.assignee = Nobody

\* escalation_awaiting_manager: handed off and picked up by nobody.
AwaitingManager(c) == AckPending(c) /\ c.assignee = Nobody

\* escalation_takeover_due
TakeoverDue(c) ==
    AwaitingManager(c) => clock.sinceEscalation >= TakeoverDelay

Greater(m, n) == IF m >= n THEN m ELSE n

\* Mutant: the handoff is not waited for.
TakeoverWaitShort(c, since) == ReplyWindow

\* takeover_delay_seconds, from a row whose escalation is `since' ticks old.
TakeoverWait(c, since) ==
    IF AwaitingManager(c) /\ TakeoverDelay > since
    THEN Greater(ReplyWindow, TakeoverDelay - since)
    ELSE ReplyWindow

Watchdog(cause, i, wait) == Task("watchdog", cause, i, wait)

BusyTask(wait) == Task("busy", "none", 0, wait)

\* escalation_busy_deadline_passed: counted from the client's last message
\* after the handoff, else from the handoff.
BusyDeadlinePassed ==
    IF \E i \in InboundIds : i > conv.escalatedAt
    THEN clock.sinceInbound >= BusyDelay
    ELSE clock.sinceEscalation >= BusyDelay

BusyAsked == \E i \in DOMAIN log : log[i].kind = "busy"

\* Mutant: the earlier busy follow-up is not looked for.
NeedsBusyFollowupAgain ==
    /\ AckPending(conv)
    /\ conv.status = "open"
    /\ ~conv.email
    /\ BusyDeadlinePassed

\* escalation_needs_busy_followup
NeedsBusyFollowup ==
    /\ AckPending(conv)
    /\ conv.status = "open"
    /\ ~conv.email
    /\ ~BusyAsked
    /\ BusyDeadlinePassed

\* _ai_answered_after: any line of the assistant follows message i.
AiAnsweredAfter(i) ==
    \E j \in DOMAIN log : j > i /\ log[j].kind \in {"ai", "notice", "busy"}

\* The condition under which _resume_stale_ai returns the dialog to the bot:
\* the handoff nobody took is old, or it was silent for long before the inbound.
StaleForResume(silent) ==
    IF AwaitingManager(conv)
    THEN clock.sinceEscalation >= TakeoverDelay
    ELSE silent

\* Rows the housekeeping query selects for closing.
StaleForClosing ==
    /\ conv.status = "open"
    /\ log # <<>>
    /\ clock.quiet >= CloseAfter
    /\ ~Escalated \/ ManagerReplied(conv)

Written(kinds) == Cardinality({i \in DOMAIN log : log[i].kind \in kinds})

-----------------------------------------------------------------------------
(* Updates of the row shared by several operations.                       *)

\* _reopen_conversation: a fresh session of the bot.
Reopened(c) ==
    IF c.status = "closed"
    THEN [c EXCEPT !.status = "open", !.aiActive = TRUE, !.escalatedAt = 0,
                   !.turns = 0, !.assignee = Nobody]
    ELSE c

\* The columns a takeover writes: the bot leads, nobody is assigned.
BotLeads(c) ==
    [c EXCEPT !.aiActive = TRUE, !.escalatedAt = 0, !.assignee = Nobody]

\* A message is appended and last_message_at is touched.
Post(line) ==
    /\ log' = Append(log, line)
    /\ clock' = [clock EXCEPT !.quiet = 0]

-----------------------------------------------------------------------------
Init ==
    /\ conv = [status |-> "open", assignee |-> Nobody, aiActive |-> TRUE,
               escalatedAt |-> 0, turns |-> 0, unread |-> FALSE,
               email |-> FALSE]
    /\ log = <<>>
    /\ queue = {}
    /\ worker = [w \in Workers |-> Idle]
    /\ opened = FALSE
    /\ sweep = FALSE
    /\ clock = [quiet |-> 0, sincePrevious |-> 0, sinceInbound |-> 0,
                sinceEscalation |-> 0]
    /\ lost = 0

-----------------------------------------------------------------------------
(* The client.                                                             *)

\* Tasks add_inbound_message enqueues when it commits inbound i on row c.
TasksOfInbound(c, i) ==
    {ReplyTask("inbound", i)}
      \cup (IF AckPending(c) THEN {BusyTask(BusyDelay)} ELSE {})
      \cup (IF Eligible(c) THEN {}
            ELSE {Watchdog("inbound", i,
                           TakeoverWait(c, clock.sinceEscalation))})

\* add_inbound_message; kind "continue" is the button "continue with the bot".
\* sincePrevious is the age of the message before the client's last one, from
\* which _resume_stale_ai measures the silence.
ClientWrites(kind) ==
    /\ Written(InboundKinds) < MaxInbound
    /\ kind = "continue" => Written({"continue"}) < MaxContinues
    /\ LET c == Reopened(conv) IN
         /\ conv' = [c EXCEPT !.unread = TRUE]
         /\ queue' = queue \cup TasksOfInbound(c, Len(log) + 1)
    /\ log' = Append(log, Line(kind))
    /\ clock' = [clock EXCEPT !.sincePrevious = clock.quiet, !.quiet = 0,
                              !.sinceInbound = 0]
    /\ UNCHANGED <<worker, opened, sweep, lost>>

\* get_or_create_messenger_conversation, start_or_resume_web_conversation: a
\* closed thread is reopened in a transaction before any message is added.
ClientReturns ==
    /\ "return" \in Operations
    /\ conv.status = "closed"
    /\ conv' = Reopened(conv)
    /\ UNCHANGED <<log, queue, worker, opened, sweep, clock, lost>>

\* start_or_resume_web_conversation with an e-mail; it reopens as well.
ClientGivesEmail ==
    /\ "email" \in Operations
    /\ ~conv.email
    /\ conv' = [Reopened(conv) EXCEPT !.email = TRUE]
    /\ UNCHANGED <<log, queue, worker, opened, sweep, clock, lost>>

-----------------------------------------------------------------------------
(* The managers.                                                           *)

\* add_staff_reply, from the admin, a messenger or the mobile application.
StaffReply(m) ==
    /\ Written({"reply"}) < MaxReplies
    /\ conv' = [conv EXCEPT
                  !.status = "open", !.unread = FALSE, !.aiActive = FALSE,
                  !.assignee = IF conv.assignee = Nobody THEN m ELSE @]
    /\ Post(Line("reply"))
    /\ UNCHANGED <<queue, worker, opened, sweep, lost>>

\* add_staff_note
StaffNote ==
    /\ Written({"note"}) < MaxNotes
    /\ conv' = [conv EXCEPT !.unread = FALSE]
    /\ Post(Line("note"))
    /\ UNCHANGED <<queue, worker, opened, sweep, lost>>

\* assign_conversation: the new assignee and the note of the reassignment.
Assign(a) ==
    /\ Written({"assigned"}) < MaxReassigns
    /\ conv' = [conv EXCEPT !.assignee = a, !.unread = FALSE]
    /\ Post(Line("assigned"))
    /\ UNCHANGED <<queue, worker, opened, sweep, lost>>

\* ConversationAssignView: take the dialog in the mobile application.
TakeInApp(m) ==
    /\ "take" \in Operations
    /\ conv' = [conv EXCEPT !.assignee = m, !.status = "open"]
    /\ UNCHANGED <<log, queue, worker, opened, sweep, clock, lost>>

\* ConversationCloseView and the admin action "close".
StaffCloses ==
    /\ "close" \in Operations
    /\ conv.status = "open"
    /\ conv' = [conv EXCEPT !.status = "closed"]
    /\ UNCHANGED <<log, queue, worker, opened, sweep, clock, lost>>

\* ConversationReadView and the admin action "mark read".
MarkRead ==
    /\ "read" \in Operations
    /\ ~AckPending(conv)
    /\ conv' = [conv EXCEPT !.unread = FALSE]
    /\ UNCHANGED <<log, queue, worker, opened, sweep, clock, lost>>

\* change_view of the admin: the page reads the row ...
AdminOpens ==
    /\ "page" \in Operations
    /\ ~opened
    /\ conv.unread
    /\ ~AckPending(conv)
    /\ opened' = TRUE
    /\ UNCHANGED <<conv, log, queue, worker, sweep, clock, lost>>

\* ... and saves staff_unread_count = 0, with no lock in between.
AdminMarksRead ==
    /\ opened
    /\ opened' = FALSE
    /\ conv' = [conv EXCEPT !.unread = FALSE]
    /\ UNCHANGED <<log, queue, worker, sweep, clock, lost>>

-----------------------------------------------------------------------------
(* gigachat_reply.                                                         *)

Finish(w) == worker' = [worker EXCEPT ![w] = Idle]

Moves(w, pc) == worker' = [worker EXCEPT ![w].pc = pc]

\* A worker that goes on with the task t, having read the row c.
Loads(w, t, c) ==
    worker' = [worker EXCEPT ![w] =
                 [pc |-> "loaded", task |-> t, eligible |-> Eligible(c),
                  capped |-> c.turns >= MaxTurns, silent |-> FALSE]]

Starts(w, t, job) ==
    /\ worker[w].pc = "idle"
    /\ t.job = job
    /\ t.wait = 0
    /\ queue' = queue \ {t}

\* An ordinary message: the task reads the row without a lock.
ReplyLoads(w, t) ==
    /\ Starts(w, t, "reply")
    /\ log[t.inbound].kind = "inbound"
    /\ Loads(w, t, conv)
    /\ UNCHANGED <<conv, log, opened, sweep, clock, lost>>

\* "Continue with the bot": under the lock, the escalation is withdrawn and
\* the turns start again, unless a manager is already in.
ReplyContinues(w, t) ==
    /\ Starts(w, t, "reply")
    /\ log[t.inbound].kind = "continue"
    /\ ~(Escalated /\ (conv.assignee # Nobody \/ ManagerReplied(conv)))
    /\ LET c == [conv EXCEPT !.aiActive = Escalated \/ @, !.escalatedAt = 0,
                             !.turns = 0]
       IN  conv' = c /\ Loads(w, t, c)
    /\ UNCHANGED <<log, opened, sweep, clock, lost>>

\* ... a manager is in: the client is told so and the task ends.
ReplyDeclinesContinue(w, t) ==
    /\ Starts(w, t, "reply")
    /\ log[t.inbound].kind = "continue"
    /\ Escalated
    /\ conv.assignee # Nobody \/ ManagerReplied(conv)
    /\ Post(Line("notice"))
    /\ UNCHANGED <<conv, worker, opened, sweep, lost>>

\* The client wrote again: the newer task answers.
ReplySuperseded(w) ==
    /\ worker[w].pc = "loaded"
    /\ Superseded(worker[w].task.inbound)
    /\ Finish(w)
    /\ UNCHANGED <<conv, log, queue, opened, sweep, clock, lost>>

\* The row the task read belongs to the bot: it calls the language model.
ReplyCalls(w) ==
    /\ worker[w].pc = "loaded"
    /\ ~Superseded(worker[w].task.inbound)
    /\ worker[w].eligible
    /\ Moves(w, "generating")
    /\ UNCHANGED <<conv, log, queue, opened, sweep, clock, lost>>

\* The row it read belonged to a manager: it asks _resume_stale_ai, which measures
\* the silence before this inbound, although by then there may be a later one.
ReplyAsksResume(w) ==
    /\ worker[w].pc = "loaded"
    /\ ~Superseded(worker[w].task.inbound)
    /\ ~worker[w].eligible
    /\ worker' = [worker EXCEPT ![w].pc = "resuming",
                                ![w].silent = clock.sincePrevious >= ResumeAfter]
    /\ UNCHANGED <<conv, log, queue, opened, sweep, clock, lost>>

\* Under the lock _resume_stale_ai finds the handoff or the silence stale and gives
\* the dialog back to the bot.
ReplyResumes(w) ==
    /\ worker[w].pc = "resuming"
    /\ ~Eligible(conv)
    /\ StaleForResume(worker[w].silent)
    /\ conv' = [BotLeads(conv) EXCEPT !.turns = 0]
    /\ Moves(w, "resumed")
    /\ UNCHANGED <<log, queue, opened, sweep, clock, lost>>

\* ... it does not: the task ends, with a notice if the button was pressed.
ReplyLeavesToStaff(w) ==
    /\ worker[w].pc = "resuming"
    /\ Eligible(conv) \/ ~StaleForResume(worker[w].silent)
    /\ IF log[worker[w].task.inbound].kind = "continue"
       THEN Post(Line("notice"))
       ELSE UNCHANGED <<log, clock>>
    /\ Finish(w)
    /\ UNCHANGED <<conv, queue, opened, sweep, lost>>

\* The notice that the bot is back, outside the lock, and refresh_from_db.
ReplyAnnouncesResume(w) ==
    /\ worker[w].pc = "resumed"
    /\ Post(Line("notice"))
    /\ worker' = [worker EXCEPT ![w].pc = "generating",
                                ![w].capped = conv.turns >= MaxTurns]
    /\ UNCHANGED <<conv, queue, opened, sweep, lost>>

\* Mutants: one of the two rechecks is dropped.
MayAnswerLate(i) == Eligible(conv)

MayAnswerOver(i) == ~Superseded(i)

\* The rechecks under the lock before an answer is written.
MayAnswer(i) == Eligible(conv) /\ ~Superseded(i)

\* The model answered (or the turn cap did, which never hands off) and the
\* answer is written; with `handoff' the escalation is a later transaction.
ReplyAnswers(w, handoff) ==
    /\ worker[w].pc = "generating"
    /\ MayAnswer(worker[w].task.inbound)
    /\ handoff => ~worker[w].capped
    /\ Post([kind |-> "ai", ref |-> worker[w].task.inbound])
    /\ conv' = [conv EXCEPT !.turns = IF @ < MaxTurns THEN @ + 1 ELSE @]
    /\ IF handoff THEN Moves(w, "escalating") ELSE Finish(w)
    /\ UNCHANGED <<queue, opened, sweep, lost>>

\* The answer comes too late and is dropped.
ReplyDropped(w) ==
    /\ worker[w].pc = "generating"
    /\ ~MayAnswer(worker[w].task.inbound)
    /\ Finish(w)
    /\ UNCHANGED <<conv, log, queue, opened, sweep, clock, lost>>

\* Mutants: one retry too many, a swallowed error, a count that stays.
RetriesLeftOneMore(t) == t.retries <= MaxRetries

RetryDropped(t) == {}

RetryUncounted(t) == {t}

RetriesLeft(t) == t.retries < MaxRetries

Retry(t) == {[t EXCEPT !.retries = @ + 1]}

\* GigachatError with retries left: the task is enqueued again.
ReplyRetries(w) ==
    /\ worker[w].pc = "generating"
    /\ ~worker[w].capped
    /\ RetriesLeft(worker[w].task)
    /\ queue' = queue \cup Retry(worker[w].task)
    /\ Finish(w)
    /\ UNCHANGED <<conv, log, opened, sweep, clock, lost>>

\* GigachatError on the last try: the client is told and people take over.
ReplyGivesUp(w) ==
    /\ worker[w].pc = "generating"
    /\ ~worker[w].capped
    /\ ~RetriesLeft(worker[w].task)
    /\ Post(Line("notice"))
    /\ Moves(w, "escalating")
    /\ UNCHANGED <<conv, queue, opened, sweep, lost>>

\* Mutant: no watchdog for the handoff.
TasksOfEscalationUnwatched(c) == {BusyTask(BusyDelay)}

\* _escalate_conversation: hand the dialog to people, start the busy
\* countdown and a watchdog on the client's latest message.
TasksOfEscalation(c) ==
    {BusyTask(BusyDelay)} \cup
    {Watchdog("escalation", i, TakeoverWait(c, 0)) : i \in LatestInbounds}

Escalate(w) ==
    /\ worker[w].pc = "escalating"
    /\ ~Escalated
    /\ LET c == [conv EXCEPT !.aiActive = FALSE, !.escalatedAt = Len(log),
                             !.unread = TRUE]
       IN  conv' = c /\ queue' = queue \cup TasksOfEscalation(c)
    /\ clock' = [clock EXCEPT !.sinceEscalation = 0]
    /\ Finish(w)
    /\ UNCHANGED <<log, opened, sweep, lost>>

AlreadyEscalated(w) ==
    /\ worker[w].pc = "escalating"
    /\ Escalated
    /\ Finish(w)
    /\ UNCHANGED <<conv, log, queue, opened, sweep, clock, lost>>

-----------------------------------------------------------------------------
(* The delayed tasks and the sweep.                                        *)

\* support_escalation_busy_followup.  Its unlocked check is the same test
\* made earlier, so a task it stops is a task that ran earlier.
BusyFollowup(w, t) ==
    /\ Starts(w, t, "busy")
    /\ IF NeedsBusyFollowup
       THEN Post(Line("busy"))
       ELSE UNCHANGED <<log, clock>>
    /\ UNCHANGED <<conv, worker, opened, sweep, lost>>

\* Mutant: the manager's reply is not looked for.
ManagerIgnored(i) ==
    /\ conv.status = "open"
    /\ ~Eligible(conv)
    /\ TakeoverDue(conv)

\* The checks of the watchdog on inbound i.
ManagerSilent(i) ==
    /\ conv.status = "open"
    /\ ~Eligible(conv)
    /\ ~RepliedSince(i)
    /\ TakeoverDue(conv)

\* support_manager_silence_watchdog takes the dialog back under the lock ...
WatchdogTakesOver(w, t) ==
    /\ Starts(w, t, "watchdog")
    /\ ManagerSilent(t.inbound)
    /\ conv' = BotLeads(conv)
    /\ worker' = [worker EXCEPT ![w] = [Idle EXCEPT !.pc = "tookOver",
                                                    !.task = t]]
    /\ UNCHANGED <<log, opened, sweep, clock, lost>>

\* ... and, after the commit, says so and answers if nothing has been said.
WatchdogAnnounces(w) ==
    /\ worker[w].pc = "tookOver"
    /\ queue' = queue \cup {ReplyTask("takeover", i) :
                              i \in {j \in LatestInbounds : ~AiAnsweredAfter(j)}}
    /\ Post(Line("notice"))
    /\ Finish(w)
    /\ UNCHANGED <<conv, opened, sweep, lost>>

WatchdogStandsDown(w, t) ==
    /\ Starts(w, t, "watchdog")
    /\ ~ManagerSilent(t.inbound)
    /\ UNCHANGED <<conv, log, worker, opened, sweep, clock, lost>>

\* Mutant: the sweep looks only at dialogs a manager has picked up.
HousekeepingRescuesAssigned ==
    /\ conv.assignee # Nobody
    /\ NeedsBusyFollowup
    /\ BusyTask(0) \notin queue
    /\ queue' = queue \cup {BusyTask(0)}
    /\ UNCHANGED <<conv, log, worker, opened, sweep, clock, lost>>

\* supportchat_housekeeping: a busy follow-up that was lost is sent again.
HousekeepingRescues ==
    /\ NeedsBusyFollowup
    /\ BusyTask(0) \notin queue
    /\ queue' = queue \cup {BusyTask(0)}
    /\ UNCHANGED <<conv, log, worker, opened, sweep, clock, lost>>

\* The query that selects the silent dialogs ...
HousekeepingSelects ==
    /\ ~sweep
    /\ Written({"closed"}) < MaxSweeps
    /\ StaleForClosing
    /\ sweep' = TRUE
    /\ UNCHANGED <<conv, log, queue, worker, opened, clock, lost>>

\* ... and the write that closes this one, with no lock and no second look.
HousekeepingCloses ==
    /\ sweep
    /\ sweep' = FALSE
    /\ Post(Line("closed"))
    /\ conv' = [conv EXCEPT !.status = "closed", !.unread = FALSE]
    /\ UNCHANGED <<queue, worker, opened, lost>>

-----------------------------------------------------------------------------
(* Failure and time.                                                       *)

\* Tasks are acknowledged before they run: one that dies with its worker, or
\* with the broker, is not delivered again.
WorkerCrashes(w) ==
    /\ lost < MaxLost
    /\ worker[w].pc # "idle"
    /\ Finish(w)
    /\ lost' = lost + 1
    /\ UNCHANGED <<conv, log, queue, opened, sweep, clock>>

TaskLost(t) ==
    /\ lost < MaxLost
    /\ queue' = queue \ {t}
    /\ lost' = lost + 1
    /\ UNCHANGED <<conv, log, worker, opened, sweep, clock>>

WorkDue ==
    \/ \E t \in queue : t.wait = 0
    \/ \E w \in Workers : worker[w].pc # "idle"
    \/ NeedsBusyFollowup
    \/ sweep

Later(n) == IF n < Horizon THEN n + 1 ELSE n

Tick ==
    /\ ~(PromptWorkers /\ WorkDue)
    /\ clock' = [quiet |-> Later(clock.quiet),
                 sincePrevious |-> Later(clock.sincePrevious),
                 sinceInbound |-> Later(clock.sinceInbound),
                 sinceEscalation |-> IF Escalated
                                     THEN Later(clock.sinceEscalation)
                                     ELSE 0]
    /\ queue' = {[t EXCEPT !.wait = IF @ = 0 THEN 0 ELSE @ - 1] : t \in queue}
    /\ UNCHANGED <<conv, log, worker, opened, sweep, lost>>

-----------------------------------------------------------------------------
Client == (\E k \in InboundKinds : ClientWrites(k)) \/ ClientReturns
              \/ ClientGivesEmail

Staff ==
    \/ \E m \in Managers : StaffReply(m) \/ TakeInApp(m)
    \/ \E a \in Assignees : Assign(a)
    \/ StaffNote \/ StaffCloses \/ MarkRead \/ AdminOpens \/ AdminMarksRead

StartsReply(w) ==
    \E t \in queue : ReplyLoads(w, t) \/ ReplyContinues(w, t)
                        \/ ReplyDeclinesContinue(w, t)

StartsBusyFollowup(w) == \E t \in queue : BusyFollowup(w, t)

StartsWatchdog(w) ==
    \E t \in queue : WatchdogTakesOver(w, t) \/ WatchdogStandsDown(w, t)

ContinuesTask(w) ==
    \/ ReplySuperseded(w) \/ ReplyCalls(w)
    \/ ReplyAsksResume(w) \/ ReplyResumes(w) \/ ReplyLeavesToStaff(w)
    \/ ReplyAnnouncesResume(w)
    \/ \E handoff \in BOOLEAN : ReplyAnswers(w, handoff)
    \/ ReplyDropped(w) \/ ReplyRetries(w) \/ ReplyGivesUp(w)
    \/ Escalate(w) \/ AlreadyEscalated(w)
    \/ WatchdogAnnounces(w)

Housekeeping ==
    HousekeepingRescues \/ HousekeepingSelects \/ HousekeepingCloses

Failure ==
    \/ \E w \in Workers : WorkerCrashes(w)
    \/ \E t \in queue : TaskLost(t)

Next ==
    \/ Client \/ Staff
    \/ \E w \in Workers :
          \/ StartsReply(w) \/ StartsBusyFollowup(w) \/ StartsWatchdog(w)
          \/ ContinuesTask(w)
    \/ Housekeeping \/ Failure \/ Tick

Spec == Init /\ [][Next]_vars

(***************************************************************************)
(* Fairness: a worker finishes the task it holds (Celery's soft and hard   *)
(* time limits end any call); the queue is first in, first out, so a due   *)
(* task is not passed over for ever (strong fairness of each kind of       *)
(* start); celery beat keeps sweeping and time passes.  Nothing is assumed *)
(* of people.                                                              *)
(***************************************************************************)
FairSpec ==
    /\ Spec
    /\ \A w \in Workers : WF_vars(ContinuesTask(w))
    /\ SF_vars(\E w \in Workers : StartsReply(w))
    /\ SF_vars(\E w \in Workers : StartsBusyFollowup(w))
    /\ SF_vars(\E w \in Workers : StartsWatchdog(w))
    /\ WF_vars(Housekeeping)
    /\ WF_vars(Tick)

-----------------------------------------------------------------------------
Turns == 0..MaxTurns

Rows ==
    [status : {"open", "closed"}, assignee : Assignees, aiActive : BOOLEAN,
     escalatedAt : Nat, turns : Turns, unread : BOOLEAN, email : BOOLEAN]

Lines == [kind : Kinds, ref : Nat]

Tasks ==
    [job : {"none", "reply", "watchdog", "busy"},
     cause : {"none", "inbound", "takeover", "escalation"},
     inbound : Nat, retries : 0..MaxRetries, wait : 0..Horizon]

Slots ==
    [pc : {"idle", "loaded", "resuming", "resumed", "generating", "escalating",
           "tookOver"},
     task : Tasks, eligible : BOOLEAN, capped : BOOLEAN, silent : BOOLEAN]

Timers == {"quiet", "sincePrevious", "sinceInbound", "sinceEscalation"}

\* Types of the row, the messages, the tasks, the workers and the timers.
TypeOK ==
    /\ conv \in Rows
    /\ log \in Seq(Lines)
    /\ queue \subseteq Tasks
    /\ worker \in [Workers -> Slots]
    /\ opened \in BOOLEAN
    /\ sweep \in BOOLEAN
    /\ clock \in [Timers -> 0..Horizon]
    /\ lost \in 0..MaxLost

-----------------------------------------------------------------------------
(* Safety.                                                                 *)

\* A handed-off dialog never counts as led by the bot: escalation, takeover,
\* "continue" and reopening all move both columns (tasks.py, services.py).
EscalationPausesBot == Escalated => ~conv.aiActive

\* Every answer of the assistant answers the message the client wrote last
\* before it: with a slow model, several workers and a burst of messages no
\* answer comes out of order (gigachat_reply, inbound_superseded).
AnswersLatestInbound ==
    \A p \in DOMAIN log : log[p].kind = "ai" =>
        /\ log[p].ref \in InboundIds
        /\ log[p].ref < p
        /\ \A j \in InboundIds : j < p => j <= log[p].ref

\* However many countdowns were started and however often the sweep rescued
\* one, the client is asked for an e-mail at most once.
BusyFollowupOnce ==
    \A p, q \in DOMAIN log :
        log[p].kind = "busy" /\ log[q].kind = "busy" => p = q

Answers(w) ==
    worker[w].pc = "generating" /\ worker'[w].pc # "generating"
        /\ Len(log') = Len(log) + 1 /\ log'[Len(log')].kind = "ai"

\* No answer of the assistant is written into a dialog that a manager leads
\* or that waits for one, whatever changed while the model was thinking.
BotAnswersOnlyWhenLeading ==
    [][\A w \in Workers : Answers(w) => Eligible(conv)]_vars

TakesOver(w) == worker[w].pc = "idle" /\ worker'[w].pc = "tookOver"

\* The watchdog never takes a dialog from a manager who has answered the
\* client's latest message, and never a fresh handoff before its time, even
\* when it was set for an older message (support_manager_silence_watchdog).
WatchdogSparesManager ==
    [][\A w \in Workers : TakesOver(w) =>
          /\ \A i \in LatestInbounds : ~RepliedSince(i)
          /\ AwaitingManager(conv) => clock.sinceEscalation >= TakeoverDelay]_vars

-----------------------------------------------------------------------------
(* The promise.                                                            *)

Leader(c) == IF Eligible(c) THEN "bot" ELSE "people"

DialogLog == INSTANCE DialogLog WITH leader <- Leader(conv),
                                     handoff <- conv.escalatedAt

\* Tasks, consoles, retries, sweeps and lost work together do no more than the
\* plain dialog of DialogLog: every message is one the plain dialog allows at
\* that point, written while the side that may write it leads.
ImplementsDialogLog == DialogLog!Spec

-----------------------------------------------------------------------------
(* Liveness.                                                               *)

\* The client's last message has got neither an answer nor any other line
\* of the assistant or of a manager.
Unanswered ==
    /\ conv.status = "open"
    /\ \E i \in LatestInbounds : ~AiAnsweredAfter(i) /\ ~RepliedSince(i)

\* While the bot leads, the client's last message is answered in the end, or
\* people take the dialog over.
BotAnswersEventually ==
    (Unanswered /\ Eligible(conv)) ~> ~(Unanswered /\ Eligible(conv))

WaitingHandoff ==
    /\ conv.status = "open"
    /\ AwaitingManager(conv)
    /\ \A i \in LatestInbounds : ~RepliedSince(i)

\* A handoff nobody picks up does not wait for ever: the watchdog returns the
\* dialog to the bot even if the client writes nothing more.
HandoffTakenBack == WaitingHandoff ~> ~WaitingHandoff

\* The bot, the escalation and the takeover do not chase each other: once
\* people stop writing, every task runs out.
TasksRunOut ==
    <>[](queue = {} /\ \A w \in Workers : worker[w].pc = "idle")

\* A busy follow-up whose task was lost is sent by the sweep.
BusyFollowupRescued == NeedsBusyFollowup ~> ~NeedsBusyFollowup

-----------------------------------------------------------------------------
(* What liveness rests on: as long as no task has been lost, the one that  *)
(* will do it is there.                                                    *)

Reassigned(i) == \E j \in DOMAIN log : j > i /\ log[j].kind = "assigned"

\* A watchdog that will find the handoff due when it starts.
FindsDue(t) ==
    /\ t.job = "watchdog"
    /\ ~RepliedSince(t.inbound)
    /\ t.wait + clock.sinceEscalation >= TakeoverDelay

\* A handoff that waits for people has such a watchdog, however many messages,
\* notes, follow-ups and earlier watchdogs came before; a reassignment to nobody is
\* the exception, for which the code sets no watchdog (_escalate_conversation,
\* add_inbound_message, assign_conversation).
HandoffWatched ==
    lost = 0 /\ WaitingHandoff /\ ~Reassigned(conv.escalatedAt) =>
        \E t \in queue : FindsDue(t)

\* Inbound i has a task that the bot may answer it in, or the bot is about to speak.
Underway(i) ==
    \/ \E t \in queue : t.job = "reply" /\ t.inbound = i
    \/ \E w \in Workers :
          \/ worker[w].pc = "loaded" /\ worker[w].eligible /\ worker[w].task.inbound = i
          \/ worker[w].pc = "generating" /\ worker[w].task.inbound = i
          \/ worker[w].pc \in {"resumed", "tookOver"}

\* The bot or people have said or decided something after message i.
Heard(i) == AiAnsweredAfter(i) \/ RepliedSince(i) \/ Reassigned(i)

\* No message follows a press of the continue button.
ContinuesLast == \A j \in InboundIds : log[j].kind = "continue" => ~Superseded(j)

\* While the bot leads, a message of the client that has got no line from anybody is
\* not left in silence, whatever workers raced for it. Three ways to give the bot a
\* dialog whose last message its task has already left to people are excepted: a
\* reassignment to nobody, a thread reopened without a message, and the continue
\* button before a message that a faster worker took (gigachat_reply).
NeverInSilence ==
    lost = 0 /\ Operations \cap {"return", "email"} = {} /\ Eligible(conv) /\ ContinuesLast
        => \A i \in LatestInbounds : Heard(i) \/ Underway(i)

-----------------------------------------------------------------------------
(* What the repository says of itself and the code does not keep.          *)

\* tests/test_gigachat_support.py, "Ответ менеджера отключает ассистента":
\* between the client's message and the answer to it no manager has replied.
NoAnswerOverManager ==
    \A p \in DOMAIN log : log[p].kind = "ai" =>
        ~\E j \in DOMAIN log :
            log[j].kind = "reply" /\ log[p].ref < j /\ j < p
=============================================================================
