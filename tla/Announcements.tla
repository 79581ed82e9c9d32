---------------------------- MODULE Announcements ----------------------------
(***************************************************************************)
(* The announcement of one news item in the social channels                *)
(* (src/backend/social, src/backend/content): how it is published, by the  *)
(* form of the admin or by the go-live task of beat, who calls             *)
(* announce_content then, and what the calls leave in SocialPost.          *)
(*                                                                         *)
(* A call goes through the enabled channels in order. For each it claims a *)
(* row in one transaction, talks to the network outside of it, and writes  *)
(* the outcome into the row. The code asks of the rows only whether one is *)
(* SENT, so the model counts those, remembers which channels have a FAILED *)
(* or SKIPPED one, and knows a PENDING row by the call that holds it.      *)
(***************************************************************************)
EXTENDS Naturals, FiniteSets

CONSTANTS
    NumChannels,        \* how many channels are enabled (_enabled_channels)
    Repeating,          \* the channels whose POST is repeated: Telegram
    MaxAttempts,        \* _TELEGRAM_RETRIES: how often it is sent at most
    Callers,            \* bound: calls of announce_content at a time
    Editors,            \* staff who may save the form of the news item
    AnnounceOnPublish,  \* the flag social_announce_on_publish
    MaxRetries,         \* max_retries of announce_content_task
    MaxSaves,           \* bound: saves of the form
    MaxForced,          \* bound: calls staff make with force=True
    MaxMishaps          \* bound: posts kept but reported as errors, calls that
                        \* end early, tasks the broker loses

ASSUME ChannelsAssumption ==
    /\ NumChannels \in Nat \ {0}
    /\ Repeating \subseteq 1..NumChannels
    /\ MaxAttempts \in Nat \ {0}

ASSUME CallersAssumption == IsFiniteSet(Callers) /\ AnnounceOnPublish \in BOOLEAN

ASSUME BoundAssumption ==
    /\ MaxRetries \in Nat /\ MaxSaves \in Nat /\ MaxForced \in Nat
    /\ MaxMishaps \in Nat

VARIABLES
    news,    \* the item: absent, a draft or published
    page,    \* what the form of each editor has read of is_published
    queue,   \* announce_content_task messages in the broker
    call,    \* what each call of announce_content is in the middle of
    sent,    \* for each channel, how many SocialPost rows are SENT
    failed,  \* the channels that have a row FAILED or SKIPPED
    copies,  \* history: posts each network has accepted
    excess,  \* history: for each channel, the dispatches beyond the first
    tally    \* history: what happened, for bounds and properties

vars == <<news, page, queue, call, sent, failed, copies, excess, tally>>

Channels == 1..NumChannels

\* How often one dispatch may send its post: _telegram_urlopen sends it again
\* after a timeout, a broken connection, a 5xx or a 429, and a network may have
\* kept what it did not answer. The calls of VK and MAX are made once.
Attempts(ch) == IF ch \in Repeating THEN MaxAttempts ELSE 1

\* Who runs the call: the task (which retries), beat's go-live task, staff.
Kinds == {"task", "beat", "staff"}

Idle == [pc |-> "idle", kind |-> "task", at |-> 1, tries |-> 0]

\* A call of announce_content that stands before its first channel.
Begin(kind) == [pc |-> "next", kind |-> kind, at |-> 1, tries |-> 0]

\* Only the views and the action of the admin pass force=True.
Forced(c) == call[c].kind = "staff"

\* The calls that hold a claim on a channel which may still become SENT.
Dispatching(ch) == {c \in Callers : call[c].at = ch /\ call[c].pc \in {"claimed", "ok"}}

Counts(field) == tally' = [tally EXCEPT ![field] = @ + 1]

Mishaps == tally.doubts + tally.cut

\* A dispatch to channel ch is granted beside another one, or may have put a
\* post there that no SENT row tells of, or will.
Exceeds(field, ch) == excess' = [excess EXCEPT ![ch][field] = @ + 1]

-----------------------------------------------------------------------------
Init ==
    /\ news = "absent"
    /\ page = [e \in Editors |-> "closed"]
    /\ queue = 0
    /\ call = [c \in Callers |-> Idle]
    /\ sent = [ch \in Channels |-> 0]
    /\ failed = {}
    /\ copies = [ch \in Channels |-> 0]
    /\ excess = [ch \in Channels |-> [overlapped |-> 0, untold |-> 0]]
    /\ tally = [saves |-> 0, forced |-> 0, doubts |-> 0, cut |-> 0]

-----------------------------------------------------------------------------
(* Publishing *)

\* NewsAdmin.save_model reads is_published of the row; an item that is being
\* added has no row ...
FormReads(e) ==
    /\ page[e] = "closed"
    /\ tally.saves < MaxSaves
    /\ page' = [page EXCEPT ![e] = CASE news = "absent" -> "adding"
                                          [] news = "draft" -> "wasDraft"
                                          [] news = "published" -> "wasPublished"]
    /\ Counts("saves")
    /\ UNCHANGED <<news, queue, call, sent, failed, copies, excess>>

\* ... then saves the form, and on commit the task is enqueued if the item was
\* not published and is published now (maybe_auto_announce).
FormSaves(e) ==
    /\ page[e] # "closed"
    /\ page[e] = "adding" => news = "absent"
    /\ \E status \in {"draft", "published"} :
         /\ news' = status
         /\ queue' = IF status = "published" /\ page[e] # "wasPublished" /\ AnnounceOnPublish
                     THEN queue + 1 ELSE queue
    /\ page' = [page EXCEPT ![e] = "closed"]
    /\ UNCHANGED <<call, sent, failed, copies, excess, tally>>

\* ... or fails, when the item has been created meanwhile: its slug is unique.
FormCollides(e) ==
    /\ page[e] = "adding" /\ news # "absent"
    /\ page' = [page EXCEPT ![e] = "closed"]
    /\ UNCHANGED <<news, queue, call, sent, failed, copies, excess, tally>>

\* publish_due_articles finds a due article that has no go-live news yet ...
GoLiveSelects(c) ==
    /\ news = "absent"
    /\ call[c].pc = "idle"
    /\ call' = [call EXCEPT ![c] = [Begin("beat") EXCEPT !.pc = "selected"]]
    /\ UNCHANGED <<news, page, queue, sent, failed, copies, excess, tally>>

\* ... process_due_article creates the item, or returns the one that another
\* run has committed since, and calls announce_content either way.
GoLiveEnsures(c) ==
    /\ call[c].pc = "selected"
    /\ news' = IF news = "absent" THEN "published" ELSE news
    /\ call' = [call EXCEPT ![c] = IF AnnounceOnPublish THEN Begin("beat") ELSE Idle]
    /\ UNCHANGED <<page, queue, sent, failed, copies, excess, tally>>

\* ... or inserts the same slug at the same time and fails on the unique key.
GoLiveCollides(c) ==
    /\ call[c].pc = "selected"
    /\ news # "absent"
    /\ call' = [call EXCEPT ![c] = Idle]
    /\ UNCHANGED <<news, page, queue, sent, failed, copies, excess, tally>>

\* announce_content_task starts.
TaskStarts(c) ==
    /\ queue > 0
    /\ call[c].pc = "idle"
    /\ queue' = queue - 1
    /\ call' = [call EXCEPT ![c] = Begin("task")]
    /\ UNCHANGED <<news, page, sent, failed, copies, excess, tally>>

\* The button and the action of the admin, for an item that is published.
StaffForces(c) ==
    /\ news = "published"
    /\ call[c].pc = "idle"
    /\ tally.forced < MaxForced
    /\ call' = [call EXCEPT ![c] = Begin("staff")]
    /\ Counts("forced")
    /\ UNCHANGED <<news, page, queue, sent, failed, copies, excess>>

-----------------------------------------------------------------------------
(* One call of announce_content *)

\* Mutant: the claim does not look at SENT rows.
RefusesNothing(c) == FALSE

\* _claim_post finds a SENT row and the call is not forced.
Refuses(c) == sent[call[c].at] > 0 /\ ~Forced(c)

\* Mutant: the call ends at the first channel that is done.
OnwardNowhere(c) == Idle

\* The loop goes on to the next channel, or the call returns.
Onward(c) ==
    IF call[c].at = NumChannels
    THEN Idle
    ELSE [call[c] EXCEPT !.pc = "next", !.at = @ + 1]

\* The claim is refused: on to the next channel.
Skips(c) ==
    /\ call[c].pc = "next"
    /\ Refuses(c)
    /\ call' = [call EXCEPT ![c] = Onward(c)]
    /\ UNCHANGED <<news, page, queue, sent, failed, copies, excess, tally>>

\* The claim creates a PENDING row. The lock of _claim_post covers the SENT
\* rows there are: a claim whose row is PENDING stops nobody.
Claims(c) ==
    LET ch == call[c].at IN
    /\ call[c].pc = "next"
    /\ ~Refuses(c)
    /\ call' = [call EXCEPT ![c].pc = "claimed"]
    /\ IF ~Forced(c) /\ Dispatching(ch) # {}
       THEN Exceeds("overlapped", ch) ELSE UNCHANGED excess
    /\ UNCHANGED <<news, page, queue, sent, failed, copies, tally>>

\* _dispatch: the network accepts the post. The attempts before the one that is
\* answered may have been kept too: all of them are one success to the caller.
Accepts(c) ==
    LET ch == call[c].at IN
    /\ call[c].pc = "claimed"
    /\ \E shown \in 1..Attempts(ch) : copies' = [copies EXCEPT ![ch] = @ + shown]
    /\ call' = [call EXCEPT ![c].pc = "ok"]
    /\ UNCHANGED <<news, page, queue, sent, failed, excess, tally>>

\* _dispatch: an error is reported, or the channel has lost its settings.
Rejects(c) ==
    /\ call[c].pc = "claimed"
    /\ call' = [call EXCEPT ![c].pc = "error"]
    /\ UNCHANGED <<news, page, queue, sent, failed, copies, excess, tally>>

\* _dispatch: the network has kept the post of an attempt, or of several, and
\* the last answer is an error.
Doubts(c) ==
    LET ch == call[c].at IN
    /\ call[c].pc = "claimed"
    /\ Mishaps < MaxMishaps
    /\ \E shown \in 1..Attempts(ch) : copies' = [copies EXCEPT ![ch] = @ + shown]
    /\ call' = [call EXCEPT ![c].pc = "error"]
    /\ Exceeds("untold", ch)
    /\ Counts("doubts")
    /\ UNCHANGED <<news, page, queue, sent, failed>>

\* Mutant: mark_sent does not save the status.
SentForgotten(c) == failed' = failed \cup {call[c].at} /\ UNCHANGED sent

\* The row is saved as SENT, or as FAILED or SKIPPED.
Saves(c) ==
    IF call[c].pc = "ok"
    THEN sent' = [sent EXCEPT ![call[c].at] = @ + 1] /\ UNCHANGED failed
    ELSE failed' = failed \cup {call[c].at} /\ UNCHANGED sent

\* mark_sent, mark_failed or mark_skipped; on to the next channel. A failed
\* channel is not tried again by this call.
Marks(c) ==
    /\ call[c].pc \in {"ok", "error"}
    /\ Saves(c)
    /\ call' = [call EXCEPT ![c] = Onward(c)]
    /\ UNCHANGED <<news, page, queue, copies, excess, tally>>

RetriesLeft(c) == call[c].tries < MaxRetries

\* _dispatch raises (a time limit, a cover that cannot be read): the row stays
\* PENDING and no further channel is reached. announce_content_task runs again
\* from the first channel after OSError and TimeoutError.
Retries(c) ==
    /\ call[c].pc = "claimed"
    /\ call[c].kind = "task" /\ RetriesLeft(c)
    /\ call' = [call EXCEPT ![c] = [Begin("task") EXCEPT !.tries = call[c].tries + 1]]
    /\ UNCHANGED <<news, page, queue, sent, failed, copies, excess, tally>>

\* ... and ends for good after any other exception, on the last try, in the
\* go-live task and in the admin.
Raises(c) ==
    /\ call[c].pc = "claimed"
    /\ Mishaps < MaxMishaps
    /\ call' = [call EXCEPT ![c] = Idle]
    /\ Counts("cut")
    /\ UNCHANGED <<news, page, queue, sent, failed, copies, excess>>

\* The process dies in the middle of a call; the task was acknowledged early.
Dies(c) ==
    LET ch == call[c].at IN
    /\ call[c].pc # "idle"
    /\ Mishaps < MaxMishaps
    /\ call' = [call EXCEPT ![c] = Idle]
    /\ IF call[c].pc = "ok" THEN Exceeds("untold", ch) ELSE UNCHANGED excess
    /\ Counts("cut")
    /\ UNCHANGED <<news, page, queue, sent, failed, copies>>

\* The broker loses the message of announce_content_task.
TaskLost ==
    /\ queue > 0
    /\ Mishaps < MaxMishaps
    /\ queue' = queue - 1
    /\ Counts("cut")
    /\ UNCHANGED <<news, page, call, sent, failed, copies, excess>>

-----------------------------------------------------------------------------
Progress(c) ==
    \/ Skips(c) \/ Claims(c) \/ Accepts(c) \/ Rejects(c) \/ Doubts(c)
    \/ Marks(c) \/ Retries(c) \/ Raises(c)
    \/ GoLiveEnsures(c) \/ GoLiveCollides(c)

Next ==
    \/ \E e \in Editors : FormReads(e) \/ FormSaves(e) \/ FormCollides(e)
    \/ \E c \in Callers :
         \/ GoLiveSelects(c) \/ TaskStarts(c) \/ StaffForces(c)
         \/ Progress(c) \/ Dies(c)
    \/ TaskLost

Spec == Init /\ [][Next]_vars

\* A call that has begun goes on (time limits end what hangs), and the workers
\* come round to the task: a slot may be taken by staff again and again.
FairSpec ==
    /\ Spec
    /\ \A c \in Callers : WF_vars(Progress(c))
    /\ SF_vars(\E c \in Callers : TaskStarts(c))

-----------------------------------------------------------------------------
(* Properties *)

CallType ==
    [pc : {"idle", "selected", "next", "claimed", "ok", "error"},
     kind : Kinds, at : Channels, tries : 0..MaxRetries]

TallyType == [saves : Nat, forced : Nat, doubts : Nat, cut : Nat]

\* The item, the pages, the calls, the rows and the histories have their types.
TypeOK ==
    /\ news \in {"absent", "draft", "published"}
    /\ page \in [Editors -> {"closed", "adding", "wasDraft", "wasPublished"}]
    /\ queue \in Nat
    /\ call \in [Callers -> CallType]
    /\ sent \in [Channels -> Nat]
    /\ failed \subseteq Channels
    /\ copies \in [Channels -> Nat]
    /\ excess \in [Channels -> [overlapped : Nat, untold : Nat]]
    /\ tally \in TallyType

\* Followers of a channel see the item once, as far as the rows of SocialPost
\* can see to it. What the code adds are the dispatches of calls staff force,
\* of claims granted while another call's row was PENDING, and of posts the
\* network kept without a SENT row to tell of them (an error reported, a process
\* that died before mark_sent); and any of these dispatches shows the post once,
\* but on Telegram up to _TELEGRAM_RETRIES times (_telegram_urlopen).
OneAnnouncement ==
    \A ch \in Channels :
        copies[ch] <= Attempts(ch) * (1 + tally.forced + excess[ch].overlapped
                                        + excess[ch].untold)

\* The calls whose post the network has accepted and whose row is not saved yet.
Ok(ch) == {c \in Callers : call[c].pc = "ok" /\ call[c].at = ch}

\* The dispatches to channel ch whose post the network has taken: those a SENT
\* row tells of, those about to be marked, those nobody could know of.
Posts(ch) == sent[ch] + excess[ch].untold + Cardinality(Ok(ch))

\* The history shown to staff does not lie: every SENT row stands for a post
\* the network has taken, and every post it has taken is SENT, about to be, or
\* one that nobody could know of. Where a POST is made once (VK, MAX) the two
\* numbers are equal; on Telegram one row may stand for up to _TELEGRAM_RETRIES
\* posts.
SentTold ==
    \A ch \in Channels :
        Posts(ch) <= copies[ch] /\ copies[ch] <= Attempts(ch) * Posts(ch)

Settled(ch) == sent[ch] > 0 \/ ch \in failed

\* A call of announce_content returns, or its process is gone.
Returns(c) == call[c].pc \notin {"idle", "selected"} /\ call'[c].pc = "idle"

\* A call that returns leaves no channel without a word: the channels it posted to,
\* those whose claim was refused and those an earlier try was done with all have a
\* row that says what happened, unless the call is cut short in that step
\* (announce_content, _claim_post).
ReturnsSettled ==
    [][\A c \in Callers : Returns(c) =>
          (\A ch \in Channels : Settled(ch)') \/ tally'.cut > tally.cut]_vars

\* A publication reaches every channel: once the task is enqueued or a call of
\* announce_content has begun, each channel ends with a row that says what
\* happened, unless a call is cut short. (No sweep looks for channels that a
\* call did not reach, and the go-live task does not come back to an article
\* that has its news item.)
PublicationSettles ==
    (queue > 0 \/ \E c \in Callers : call[c].pc = "next" /\ call[c].at = 1)
        ~> ((\A ch \in Channels : Settled(ch)) \/ tally.cut > 0)
=============================================================================
