----------------------------- MODULE MailImport -----------------------------
(***************************************************************************)
(* The import of inbound mail into the CRM (src/backend/crm/imap_fetch.py  *)
(* and the task crm.fetch_inbound_email): mailboxes polled by one run at a *)
(* time under a lock in the cache, a cursor per mailbox, and for each new  *)
(* letter one transaction that stores it, its sender and, for a sender the *)
(* CRM does not know, a lead.                                              *)
(*                                                                         *)
(* The cursor of a mailbox is saved when the run is done with it, so a run *)
(* that dies is repeated from where it began; what has been stored is      *)
(* recognised by its Message-ID, which not every letter has.               *)
(***************************************************************************)
EXTENDS Naturals, Sequences, FiniteSets

CONSTANTS
    NumBoxes,    \* mailboxes, in the order of _mailboxes
    Letters,     \* letters that people may send
    Senders,     \* their authors
    Sender,      \* author of each letter
    Named,       \* letters that have a Message-ID
    Broken,      \* letters without a From address
    Replies,     \* letters that name a lead of their author
    NumRuns,     \* bound: runs of the task at a time
    FetchLimit,  \* IMAP_FETCH_LIMIT
    Tries,       \* _TRANSIENT_RETRIES
    Posts,       \* bound: what may be sent to the mailboxes, in order of arrival
    MaxLetters,  \* bound: how many letters a mailbox may get
    MaxMishaps   \* bound: workers lost, caches emptied, mailboxes out of reach,
                 \* time limits, errors that look like those of a broken letter

ASSUME LettersAssumption ==
    /\ Sender \in [Letters -> Senders]
    /\ Posts \subseteq [1..NumBoxes -> Seq(Letters)]
    /\ Named \subseteq Letters /\ Broken \subseteq Letters /\ Replies \subseteq Letters

ASSUME NumberAssumption ==
    /\ NumBoxes \in Nat \ {0} /\ FetchLimit \in Nat \ {0} /\ Tries \in Nat \ {0}
    /\ NumRuns \in Nat \ {0}
    /\ MaxLetters \in Nat /\ MaxMishaps \in Nat

VARIABLES
    post,     \* what people will send, one of Posts
    inbox,    \* letters of each mailbox; the position is the UID
    cursor,   \* last_uid of each mailbox
    lock,     \* the run that has put the lock into the cache, or NoRun
    run,      \* what each run of the task is in the middle of
    budget,   \* transient failures counted in the cache, by mailbox and UID
    clients,  \* senders with a card in the CRM
    leads,    \* senders with a lead
    rows,     \* how many EmailMessage rows each letter has
    others,   \* history: senders whose card something else created
    passed,   \* history: letters the cursor passed over, and why
    tally     \* history: what happened, for bounds and properties

crm == <<clients, leads, rows>>
vars == <<post, inbox, cursor, lock, run, budget, crm, others, passed, tally>>

Boxes == 1..NumBoxes

Runs == 1..NumRuns

\* The lock when no run holds it.
NoRun == 0

Idle == [pc |-> "idle", box |-> 1, from |-> [b \in Boxes |-> 0], at |-> 0, upto |-> 0,
         new |-> FALSE]

\* The letter a run is about to handle, and whether there is one.
Current(r) == inbox[run[r].box][run[r].at + 1]
HasLetter(r) == run[r].pc = "letter" /\ run[r].at < run[r].upto
AtLetter(r) == HasLetter(r) \/ run[r].pc = "store"

Mishap(kind) ==
    /\ tally.deaths + tally.lost + tally.unreached + tally.unsaved + tally.late < MaxMishaps
    /\ tally' = [tally EXCEPT ![kind] = @ + 1]

Least(m, n) == IF m <= n THEN m ELSE n

Init ==
    /\ post \in Posts
    /\ inbox = [b \in Boxes |-> <<>>]
    /\ cursor = [b \in Boxes |-> 0]
    /\ lock = NoRun
    /\ run = [r \in Runs |-> Idle]
    /\ budget = [b \in Boxes |-> <<>>]
    /\ clients = {} /\ leads = {}
    /\ rows = [l \in Letters |-> 0]
    /\ others = {} /\ passed = {}
    /\ tally = [deaths |-> 0, lost |-> 0, unreached |-> 0, unsaved |-> 0, late |-> 0]

-----------------------------------------------------------------------------
(* The world *)

\* The next letter arrives.
Arrives(b) ==
    /\ Len(inbox[b]) < Len(post[b])
    /\ inbox' = [inbox EXCEPT ![b] = Append(@, post[b][Len(@) + 1])]
    /\ budget' = [budget EXCEPT ![b] = Append(@, 0)]
    /\ UNCHANGED <<post, cursor, lock, run, crm, others, passed, tally>>

\* A form of the site, a call or a member of staff creates the sender's card,
\* with or without a lead.
CardCreated(s) ==
    /\ s \notin clients
    /\ clients' = clients \cup {s}
    /\ others' = others \cup {s}
    /\ leads' \in {leads, leads \cup {s}}
    /\ UNCHANGED <<post, inbox, cursor, lock, run, budget, rows, passed, tally>>

\* Mutant: the lock expires during a run.
ExpiresAnyTime == TRUE

\* _IMAP_FETCH_LOCK_TTL, 15 minutes, is above the hard time limit of the task,
\* 11 minutes: the run that took the lock has ended or has been killed.
RunIsOver == run[lock].pc = "idle"

LockExpires ==
    /\ lock # NoRun /\ RunIsOver
    /\ lock' = NoRun
    /\ UNCHANGED <<post, inbox, cursor, run, budget, crm, others, passed, tally>>

-----------------------------------------------------------------------------
(* One run of fetch_inbound_email *)

\* The task finds the lock free, takes it and reads the cursors of all
\* mailboxes. (A task that finds it held returns at once; a run
\* takes the first number that is free.)
Starts(r) ==
    /\ run[r].pc = "idle" /\ \A q \in 1..r - 1 : run[q].pc # "idle"
    /\ lock = NoRun
    /\ lock' = r
    /\ run' = [run EXCEPT ![r] = [Idle EXCEPT !.pc = "box", !.from = cursor]]
    /\ UNCHANGED <<post, inbox, cursor, budget, crm, others, passed, tally>>

\* Mutant: the loop does not end at the last mailbox.
NextBoxAlways(r) == [run[r] EXCEPT !.pc = "box", !.box = @ + 1, !.at = 0, !.upto = 0]

\* On to the next mailbox, or to the end of the run.
NextBox(r) ==
    IF run[r].box = NumBoxes
    THEN [run[r] EXCEPT !.pc = "ending"]
    ELSE [run[r] EXCEPT !.pc = "box", !.box = @ + 1, !.at = 0, !.upto = 0]

\* _connect, select, _new_uids: the letters above the cursor, up to the limit.
Opens(r) ==
    LET b == run[r].box  from == run[r].from[run[r].box] IN
    /\ run[r].pc = "box"
    /\ run' = [run EXCEPT ![r].pc = "letter", ![r].at = from,
                          ![r].upto = Least(Len(inbox[b]), from + FetchLimit)]
    /\ UNCHANGED <<post, inbox, cursor, lock, budget, crm, others, passed, tally>>

\* ... or the mailbox is out of reach; the run goes on with the next one.
BoxFails(r) ==
    /\ run[r].pc = "box"
    /\ Mishap("unreached")
    /\ run' = [run EXCEPT ![r] = NextBox(r)]
    /\ UNCHANGED <<post, inbox, cursor, lock, budget, crm, others, passed>>

\* The run has dealt with the letter: max_uid passes it.
Passes(r) == [run[r] EXCEPT !.pc = "letter", !.at = @ + 1, !.new = FALSE]

\* A row with the Message-ID of the letter exists.
Stored(l) == l \in Named /\ rows[l] > 0

\* _process_uid fetches the letter and finds it stored already ...
FindsDuplicate(r) ==
    /\ HasLetter(r) /\ Stored(Current(r))
    /\ run' = [run EXCEPT ![r] = Passes(r)]
    /\ UNCHANGED <<post, inbox, cursor, lock, budget, crm, others, passed, tally>>

\* ... or without a valid From, which is an error of the letter ...
FindsBroken(r) ==
    /\ HasLetter(r) /\ ~Stored(Current(r)) /\ Current(r) \in Broken
    /\ run' = [run EXCEPT ![r] = Passes(r)]
    /\ UNCHANGED <<post, inbox, cursor, lock, budget, crm, others, passed, tally>>

\* ... or opens the transaction and looks the sender up.
LooksUpSender(r) ==
    /\ HasLetter(r) /\ ~Stored(Current(r)) /\ Current(r) \notin Broken
    /\ run' = [run EXCEPT ![r].pc = "store",
                          ![r].new = Sender[Current(r)] \notin clients]
    /\ UNCHANGED <<post, inbox, cursor, lock, budget, crm, others, passed, tally>>

\* The unique keys: an address has one card, a Message-ID one row.
Conflicts(r) ==
    \/ run[r].new /\ Sender[Current(r)] \in clients
    \/ Stored(Current(r))

\* Mutant: a letter that names a lead never gets a lead of its own.
NeedsLeadUnlessReply(r) == run[r].new /\ Current(r) \notin Replies

\* No lead is found (_find_lead looks among the sender's own) and the sender is
\* new to the CRM.
NeedsLead(r) ==
    run[r].new /\ ~(Current(r) \in Replies /\ Sender[Current(r)] \in leads)

\* The transaction commits: the card, the lead, the letter.
Stores(r) ==
    LET l == Current(r) IN
    /\ run[r].pc = "store" /\ ~Conflicts(r)
    /\ clients' = clients \cup {Sender[l]}
    /\ leads' = IF NeedsLead(r) THEN leads \cup {Sender[l]} ELSE leads
    /\ rows' = [rows EXCEPT ![l] = @ + 1]
    /\ run' = [run EXCEPT ![r] = Passes(r)]
    /\ UNCHANGED <<post, inbox, cursor, lock, budget, others, passed, tally>>

\* The history of a letter that is passed over.
PassesOver(r, why) ==
    passed' = IF rows[Current(r)] > 0 THEN passed
              ELSE passed \cup {<<run[r].box, run[r].at + 1, why>>}

\* IntegrityError is not among _TRANSIENT_ERRORS: the letter is passed over.
Collides(r) ==
    /\ run[r].pc = "store" /\ Conflicts(r)
    /\ PassesOver(r, "raced")
    /\ run' = [run EXCEPT ![r] = Passes(r)]
    /\ UNCHANGED <<post, inbox, cursor, lock, budget, crm, others, tally>>

\* Mutant: a transient failure is not counted.
CountedNever(b, uid) == budget

\* _transient_budget_spent counts the failure in the cache.
Counted(b, uid) == [budget EXCEPT ![b][uid] = Least(@ + 1, Tries)]

\* A transient error. While the letter has tries left the run stops before it
\* and the next run tries again ...
Defers(r) ==
    LET b == run[r].box  uid == run[r].at + 1 IN
    /\ AtLetter(r)
    /\ Counted(b, uid)[b][uid] < Tries
    /\ budget' = Counted(b, uid)
    /\ run' = [run EXCEPT ![r].pc = "save", ![r].new = FALSE]
    /\ UNCHANGED <<post, inbox, cursor, lock, crm, others, passed, tally>>

\* ... the last time it is passed over.
GivesUp(r) ==
    LET b == run[r].box  uid == run[r].at + 1 IN
    /\ AtLetter(r)
    /\ Counted(b, uid)[b][uid] >= Tries
    /\ budget' = Counted(b, uid)
    /\ PassesOver(r, "gaveUp")
    /\ run' = [run EXCEPT ![r] = Passes(r)]
    /\ UNCHANGED <<post, inbox, cursor, lock, crm, others, tally>>

\* The soft time limit raises. Inside _process_uid the handler for broken letters
\* catches it and the letter is passed over, as it is for any other error that is
\* not transient, such as an answer without a body (_fetch_raw) ...
TimesOut(r) ==
    /\ AtLetter(r)
    /\ Mishap("late")
    /\ PassesOver(r, "late")
    /\ run' = [run EXCEPT ![r] = Passes(r)]
    /\ UNCHANGED <<post, inbox, cursor, lock, budget, crm, others>>

\* ... outside of it the mailbox fails and its cursor is not saved.
TimesOutBetween(r) ==
    /\ run[r].pc \in {"letter", "save"} /\ ~HasLetter(r)
    /\ Mishap("unsaved")
    /\ run' = [run EXCEPT ![r] = NextBox(r)]
    /\ UNCHANGED <<post, inbox, cursor, lock, budget, crm, others, passed>>

\* Mutant: the cursor is saved as the mailbox ends, not as far as the run got.
ReachedEnd(r) == run[r].upto

\* Mutant: the cursor stays before the last letter that was handled.
ReachedBefore(r) == IF run[r].at > 0 THEN run[r].at - 1 ELSE 0

\* How far the run got (max_uid).
Reached(r) == run[r].at

\* The cursor of the mailbox is saved.
SavesCursor(r) ==
    /\ run[r].pc = "save" \/ (run[r].pc = "letter" /\ ~HasLetter(r))
    /\ cursor' = [cursor EXCEPT ![run[r].box] = Reached(r)]
    /\ run' = [run EXCEPT ![r] = NextBox(r)]
    /\ UNCHANGED <<post, inbox, lock, budget, crm, others, passed, tally>>

\* The task ends and deletes the lock, whoever holds it by now.
Ends(r) ==
    /\ run[r].pc = "ending"
    /\ run' = [run EXCEPT ![r] = Idle]
    /\ lock' = NoRun
    /\ UNCHANGED <<post, inbox, cursor, budget, crm, others, passed, tally>>

\* The worker is killed (hard limit, restart): the lock stays until it expires.
Dies(r) ==
    /\ run[r].pc # "idle"
    /\ Mishap("deaths")
    /\ run' = [run EXCEPT ![r] = Idle]
    /\ UNCHANGED <<post, inbox, cursor, lock, budget, crm, others, passed>>

\* The cache is emptied: the lock and the counters of failures are gone.
CacheLoses ==
    /\ Mishap("lost")
    /\ lock' = NoRun
    /\ budget' = [b \in Boxes |-> [i \in 1..Len(inbox[b]) |-> 0]]
    /\ UNCHANGED <<post, inbox, cursor, run, crm, others, passed>>

-----------------------------------------------------------------------------
Progress(r) ==
    \/ Opens(r) \/ BoxFails(r)
    \/ FindsDuplicate(r) \/ FindsBroken(r) \/ LooksUpSender(r)
    \/ Stores(r) \/ Collides(r) \/ Defers(r) \/ GivesUp(r)
    \/ TimesOut(r) \/ TimesOutBetween(r)
    \/ SavesCursor(r) \/ Ends(r)

Next ==
    \/ \E b \in Boxes : Arrives(b)
    \/ \E s \in Senders : CardCreated(s)
    \/ \E r \in Runs : Starts(r) \/ Progress(r) \/ Dies(r)
    \/ CacheLoses
    \/ LockExpires

Spec == Init /\ [][Next]_vars

\* Beat enqueues the task every few minutes and a worker takes it up; a run
\* goes on (its time limits see to that); the lock of a dead run expires.
FairSpec ==
    /\ Spec
    /\ \A r \in Runs : WF_vars(Progress(r))
    /\ WF_vars(\E r \in Runs : Starts(r))
    /\ WF_vars(LockExpires)

-----------------------------------------------------------------------------
(* Properties *)

RunType ==
    [pc : {"idle", "box", "letter", "store", "save", "ending"}, box : Boxes,
     from : [Boxes -> Nat], at : Nat, upto : Nat, new : BOOLEAN]

\* Mailboxes, runs, the CRM and the histories have their types; the cursor is at
\* a letter and a run handles letters its mailbox holds.
TypeOK ==
    /\ post \in Posts
    /\ inbox \in [Boxes -> Seq(Letters)]
    /\ cursor \in [Boxes -> Nat]
    /\ lock \in Runs \cup {NoRun}
    /\ run \in [Runs -> RunType]
    /\ budget \in [Boxes -> Seq(0..Tries)]
    /\ clients \subseteq Senders /\ leads \subseteq Senders /\ others \subseteq Senders
    /\ rows \in [Letters -> Nat]
    /\ passed \subseteq Boxes \X Nat \X {"raced", "gaveUp", "late"}
    /\ tally \in [deaths : Nat, lost : Nat, unreached : Nat, unsaved : Nat, late : Nat]

Handled(b, uid) ==
    LET l == inbox[b][uid] IN rows[l] > 0 \/ l \in Broken \/ <<b, uid, "gaveUp">> \in passed

\* Whatever runs overlap, die or stop half way, the cursor does not pass a letter
\* that is neither stored nor broken nor given up, except where the handler for
\* broken letters has caught a unique key, the soft time limit or another error
\* that is not transient (_fetch_box).
NoLetterLost ==
    \A b \in Boxes : \A uid \in 1..cursor[b] :
        \/ Handled(b, uid)
        \/ <<b, uid, "raced">> \in passed \/ <<b, uid, "late">> \in passed

\* Where a letter has come to, by mailbox and UID.
CopiesOf(l) == UNION {{b} \X {uid \in 1..Len(inbox[b]) : inbox[b][uid] = l} : b \in Boxes}

\* A letter without a Message-ID, which nothing recognises, is stored once for
\* each copy of it that came, as long as every run saves its cursors.
NamelessStoredOnce ==
    tally.deaths + tally.lost + tally.unsaved = 0 =>
        \A l \in Letters : rows[l] <= Cardinality(CopiesOf(l))

\* The lock keeps runs apart for as long as the cache does: a slow run does not
\* overlap the next one.
RunsApart ==
    tally.lost = 0 =>
        \A r \in Runs : run[r].pc # "idle" =>
            /\ lock # NoRun
            /\ \A q \in Runs : run[q].pc # "idle" => q = r

\* The letter of a sender whom the CRM did not know is never left in the mail
\* alone: the import has made a lead with the card, or else did not make the card.
NewSenderHasLead == clients \ others \subseteq leads

MailLedger == INSTANCE MailLedger WITH skipped <- {<<p[1], p[2]>> : p \in passed}

\* Runs that overlap, die, time out and retry do no more to the mailboxes and the
\* CRM than the plain ledger of MailLedger: a letter goes in whole and, if it has
\* a Message-ID, once; a lead is made if and only if its sender is new; a cursor
\* stops before a letter that has not been dealt with.
ImplementsMailLedger == MailLedger!Spec

\* Every letter that arrives is dealt with in the end: neither a letter that
\* always fails nor a run that dies stops a mailbox for good.
MailArrives ==
    \A b \in Boxes : \A uid \in 1..MaxLetters :
        (Len(inbox[b]) >= uid) ~> (cursor[b] >= uid)
=============================================================================
