------------------------------ MODULE QuoteDesk ------------------------------
(***************************************************************************)
(* The life of one quotation (src/backend/crm/quote_ops.py, quote_reply.py *)
(* and the admin): staff move it along the board or in the form, issuing   *)
(* it writes to the client and closes the lead it came from, the client    *)
(* accepts it from the letter, and an order is made of it.                 *)
(*                                                                         *)
(* The board works in autocommit on a row it has read before: the status,  *)
(* the stamp sent_at, the letter and the lead are steps of their own. The  *)
(* form is one transaction. The client's answer and the order lock the     *)
(* row; an UPDATE of anybody else waits for that lock.                     *)
(***************************************************************************)
EXTENDS Naturals, FiniteSets

CONSTANTS
    Staff,        \* members of staff, one request each at a time
    Tabs,         \* pages of the client on which the quotation is open
    None,         \* nobody
    MaxRequests,  \* bound: requests of staff
    MaxAnswers,   \* bound: answers of the client
    MaxMishaps    \* bound: requests that die, PDFs that fail, orders by hand

ASSUME ActorsAssumption == Staff \cap Tabs = {} /\ None \notin Staff \cup Tabs

ASSUME BoundAssumption ==
    MaxRequests \in Nat /\ MaxAnswers \in Nat /\ MaxMishaps \in Nat

VARIABLES
    quote,    \* status, sent_at (set or not), and whether valid_until is past
    lead,     \* the lead of the quotation: "open" or "done"
    rowLock,  \* who has locked the row of the quotation, or None
    page,     \* what each request of staff has read and wants
    tab,      \* what each page of the client is in the middle of
    orders,   \* the number of its orders that are not cancelled
    written,  \* history: the client has been written to since the last issue began
    agreed,   \* history: answers that made it ACCEPTED
    tally     \* history: what happened, for bounds and properties

vars == <<quote, lead, rowLock, page, tab, orders, written, agreed, tally>>

Statuses == {"draft", "sent", "accepted", "rejected"}

\* QUOTE_TRANSITIONS.
Transitions ==
    [draft    |-> {"sent"},
     sent     |-> {"draft", "accepted", "rejected"},
     accepted |-> {"sent", "rejected"},
     rejected |-> {"sent", "accepted"}]

\* Mutant: any move is legal.
AllowedAlways(from, to) == TRUE

\* quote_transition_allowed.
Allowed(from, to) == from = to \/ to \in Transitions[from]

Idle ==
    [pc |-> "idle", to |-> "draft", status |-> "draft", stamped |-> FALSE, lead |-> "open"]

\* The quotation as its creation leaves it: a draft, or what the form that adds it
\* says, which Quote.clean does not check. finalize_quote_status issues one that is
\* added as SENT (its PDF may fail) and does nothing for any other.
Init ==
    \E born \in Statuses, pdf \in BOOLEAN :
       /\ ~pdf => born = "sent" /\ MaxMishaps > 0
       /\ quote = [status |-> born, stamped |-> born = "sent", expired |-> FALSE]
       /\ lead \in (IF born = "sent" THEN {"done"} ELSE {"open", "done"})
       /\ rowLock = None
       /\ page = [m \in Staff |-> Idle]
       /\ tab = [t \in Tabs |-> "open"]
       /\ orders = 0
       /\ written = (born = "sent" /\ pdf)
       /\ agreed = 0
       /\ tally = [requests |-> 0, answers |-> 0, mishaps |-> IF pdf THEN 0 ELSE 1,
                   overlap |-> FALSE, undone |-> 0, byHand |-> 0,
                   unissued |-> born \in {"accepted", "rejected"}]

-----------------------------------------------------------------------------
(* The board *)

Quiet == \A m \in Staff : page[m].pc \in {"idle", "order"}

\* A request of staff reads the row and its lead; the history knows whether another
\* one, which may write, is in the middle of its work.
Reads(m, pc, to) ==
    /\ page[m].pc = "idle"
    /\ tally.requests < MaxRequests
    /\ page' = [page EXCEPT ![m] = [pc |-> pc, to |-> to, status |-> quote.status,
                                    stamped |-> quote.stamped, lead |-> lead]]
    /\ tally' = [tally EXCEPT !.requests = @ + 1, !.overlap = @ \/ ~Quiet]

\* set_status_view reads the row; transition_quote refuses an illegal move.
BoardReads(m) ==
    /\ \E to \in Statuses : Allowed(quote.status, to) /\ Reads(m, "board", to)
    /\ UNCHANGED <<quote, lead, rowLock, tab, orders, written, agreed>>

\* What the history keeps of a write of the status: whether it took the quotation
\* out of ACCEPTED, and whether it is still one that was created as ACCEPTED or
\* REJECTED and has never been SENT; failed counts a PDF that fails with it.
Undoes(to, failed) ==
    tally' = [tally EXCEPT
                !.undone = IF quote.status = "accepted" /\ to # "accepted" THEN @ + 1 ELSE @,
                !.unissued = @ /\ to # "sent",
                !.mishaps = @ + failed]

\* transition_quote saves the status, if it is another than the one that was read.
BoardMoves(m) ==
    LET to == page[m].to IN
    /\ page[m].pc = "board" /\ rowLock = None
    /\ IF page[m].status = to
       THEN UNCHANGED <<quote, tally>>
       ELSE quote' = [quote EXCEPT !.status = to] /\ Undoes(to, 0)
    /\ page' = [page EXCEPT ![m].pc = "moved"]
    /\ UNCHANGED <<lead, rowLock, tab, orders, written, agreed>>

\* finalize_quote_status has something to do: the first SENT is stamped, a recall
\* clears the stamp. It looks at the row that was read.
Issues(m) == page[m].to = "sent" /\ ~page[m].stamped
Recalls(m) == page[m].to = "draft" /\ page[m].stamped

\* What a request that has stamped the quotation still needs: the lead it has read.
Left(m, pc) == [Idle EXCEPT !.pc = pc, !.lead = page[m].lead]

\* Mutant: a recall leaves the stamp.
StampAfterRecall(m) == quote.stamped \/ Issues(m)

StampAfter(m) == IF Recalls(m) THEN FALSE ELSE quote.stamped \/ Issues(m)

BoardStamps(m) ==
    /\ page[m].pc = "moved" /\ rowLock = None
    /\ quote' = [quote EXCEPT !.stamped = StampAfter(m)]
    /\ page' = [page EXCEPT ![m] = IF Issues(m) THEN Left(m, "stamped") ELSE Idle]
    /\ written' = (written /\ ~Issues(m) /\ ~Recalls(m))
    /\ UNCHANGED <<lead, rowLock, tab, orders, agreed, tally>>

\* The PDF is made and the letter to the client queued ...
BoardWrites(m) ==
    /\ page[m].pc = "stamped"
    /\ written' = TRUE
    /\ page' = [page EXCEPT ![m] = Left(m, "written")]
    /\ UNCHANGED <<quote, lead, rowLock, tab, orders, agreed, tally>>

\* The bound of what befalls the quotation and its orders.
MayMishap == tally.mishaps + tally.byHand < MaxMishaps

Mishap ==
    /\ MayMishap
    /\ tally' = [tally EXCEPT !.mishaps = @ + 1]

\* ... or the PDF fails and there is no letter; the quotation stays issued.
PdfFails(m) ==
    /\ page[m].pc = "stamped" /\ Mishap
    /\ page' = [page EXCEPT ![m] = Left(m, "written")]
    /\ UNCHANGED <<quote, lead, rowLock, tab, orders, written, agreed>>

\* Mutant: the lead stays open.
LeadAfterOpen(m) == lead

\* A lead that was done when it was read is left alone.
LeadAfter(m) == IF page[m].lead = "done" THEN lead ELSE "done"

\* The lead is closed with the quotation as its result (set_lead_status).
BoardCloses(m) ==
    /\ page[m].pc = "written"
    /\ lead' = LeadAfter(m)
    /\ page' = [page EXCEPT ![m] = Idle]
    /\ UNCHANGED <<quote, rowLock, tab, orders, written, agreed, tally>>

-----------------------------------------------------------------------------
(* The form *)

\* The form is posted: the row is read, and Quote.clean refuses an illegal move of
\* a quotation that exists. (The form that adds one is part of Init.)
FormReads(m) ==
    /\ \E to \in Statuses : Allowed(quote.status, to) /\ Reads(m, "form", to)
    /\ UNCHANGED <<quote, lead, rowLock, tab, orders, written, agreed>>

\* Every column is saved, finalize_quote_status runs, and the transaction commits;
\* the letter and the closed lead with it, unless the PDF fails: then there is no
\* letter. The date may have been moved.
FormCommits(m) ==
    LET to == page[m].to IN
    /\ page[m].pc = "form" /\ rowLock = None
    /\ \E past \in {FALSE, quote.expired} :
         quote' = [status |-> to, expired |-> past,
                   stamped |-> (page[m].stamped /\ ~Recalls(m)) \/ Issues(m)]
    /\ \/ /\ written' = (Issues(m) \/ (written /\ ~Recalls(m)))
          /\ Undoes(to, 0)
       \/ /\ Issues(m) /\ MayMishap
          /\ written' = FALSE
          /\ Undoes(to, 1)
    /\ lead' = IF Issues(m) THEN LeadAfter(m) ELSE lead
    /\ page' = [page EXCEPT ![m] = Idle]
    /\ UNCHANGED <<rowLock, tab, orders, agreed>>

-----------------------------------------------------------------------------
(* The client *)

\* Mutant: an answer does not wait for the one before it.
LockFreeAlways == TRUE

LockFree == rowLock = None

\* accept_quote: the token leads to a quotation that is not a draft; its row is
\* locked and read again. (One that is recalled in between is refused.)
AcceptLocks(t) ==
    /\ tab[t] = "open"
    /\ quote.status # "draft"
    /\ tally.answers < MaxAnswers
    /\ LockFree
    /\ rowLock' = t
    /\ tab' = [tab EXCEPT ![t] = IF quote.status = "sent" /\ ~quote.expired
                                 THEN "sent" ELSE "refused"]
    /\ tally' = [tally EXCEPT !.answers = @ + 1]
    /\ UNCHANGED <<quote, lead, page, orders, written, agreed>>

\* SENT and not expired: ACCEPTED, once. Anything else is answered as it is, and
\* ACCEPTED with the page and no letter.
AcceptCommits(t) ==
    /\ tab[t] \in {"sent", "refused"}
    /\ IF tab[t] = "sent"
       THEN quote' = [quote EXCEPT !.status = "accepted"] /\ agreed' = agreed + 1
       ELSE UNCHANGED <<quote, agreed>>
    /\ tab' = [tab EXCEPT ![t] = "open"]
    /\ rowLock' = IF rowLock = t THEN None ELSE rowLock
    /\ UNCHANGED <<lead, page, orders, written, tally>>

\* The day named in valid_until is over.
Expires ==
    /\ ~quote.expired
    /\ quote' = [quote EXCEPT !.expired = TRUE]
    /\ UNCHANGED <<lead, rowLock, page, tab, orders, written, agreed, tally>>

-----------------------------------------------------------------------------
(* The order *)

\* Staff press the button for an order.
OrderAsks(m) ==
    /\ page[m].pc = "idle"
    /\ tally.requests < MaxRequests
    /\ page' = [page EXCEPT ![m] = [Idle EXCEPT !.pc = "order"]]
    /\ tally' = [tally EXCEPT !.requests = @ + 1]
    /\ UNCHANGED <<quote, lead, rowLock, tab, orders, written, agreed>>

\* create_order_from_quote locks the row and looks for an order that is not
\* cancelled (the request remembers whether there is one) ...
OrderLocks(m) ==
    /\ page[m].pc = "order" /\ LockFree
    /\ rowLock' = m
    /\ page' = [page EXCEPT ![m].pc = IF orders > 0 THEN "reuse" ELSE "create"]
    /\ UNCHANGED <<quote, lead, tab, orders, written, agreed, tally>>

\* ... and makes one, or reuses it.
OrderCommits(m) ==
    /\ page[m].pc \in {"create", "reuse"}
    /\ orders' = IF page[m].pc = "create" THEN orders + 1 ELSE orders
    /\ rowLock' = IF rowLock = m THEN None ELSE rowLock
    /\ page' = [page EXCEPT ![m] = Idle]
    /\ UNCHANGED <<quote, lead, tab, written, agreed, tally>>

\* The form of an order cancels it, deletes it or gives it to another quotation ...
OrderTakenAway ==
    /\ orders > 0
    /\ orders' = orders - 1
    /\ UNCHANGED <<quote, lead, rowLock, page, tab, written, agreed, tally>>

\* ... or brings a cancelled one back, adds one or gives one to this quotation.
OrderByHand ==
    /\ MayMishap
    /\ orders' = orders + 1
    /\ tally' = [tally EXCEPT !.byHand = @ + 1]
    /\ UNCHANGED <<quote, lead, rowLock, page, tab, written, agreed>>

-----------------------------------------------------------------------------
\* A manager closes the lead or reopens it.
LeadMoved ==
    /\ lead' \in {"open", "done"} \ {lead}
    /\ UNCHANGED <<quote, rowLock, page, tab, orders, written, agreed, tally>>

\* The process of a request dies; a transaction is rolled back and unlocks.
Dies(m) ==
    /\ page[m].pc # "idle" /\ Mishap
    /\ page' = [page EXCEPT ![m] = Idle]
    /\ rowLock' = IF rowLock = m THEN None ELSE rowLock
    /\ UNCHANGED <<quote, lead, tab, orders, written, agreed>>

Progress(m) ==
    \/ BoardMoves(m) \/ BoardStamps(m) \/ BoardWrites(m) \/ PdfFails(m) \/ BoardCloses(m)
    \/ FormCommits(m) \/ OrderLocks(m) \/ OrderCommits(m)

Next ==
    \/ \E m \in Staff :
         BoardReads(m) \/ FormReads(m) \/ OrderAsks(m) \/ Progress(m) \/ Dies(m)
    \/ \E t \in Tabs : AcceptLocks(t) \/ AcceptCommits(t)
    \/ Expires \/ OrderTakenAway \/ OrderByHand \/ LeadMoved

Spec == Init /\ [][Next]_vars

\* A request that has begun goes on, and a transaction ends; who waits for the
\* lock gets it in the end.
FairSpec ==
    /\ Spec
    /\ \A m \in Staff : SF_vars(Progress(m))
    /\ \A t \in Tabs : WF_vars(AcceptCommits(t))

-----------------------------------------------------------------------------
(* Properties *)

Page ==
    [pc : {"idle", "board", "moved", "stamped", "written", "form", "order", "create", "reuse"},
     to : Statuses, status : Statuses, stamped : BOOLEAN, lead : {"open", "done"}]

\* The quotation, the requests, the answers and the histories have their types,
\* and whoever works under the lock of the row has it.
TypeOK ==
    /\ quote \in [status : Statuses, stamped : BOOLEAN, expired : BOOLEAN]
    /\ lead \in {"open", "done"}
    /\ rowLock \in Staff \cup Tabs \cup {None}
    /\ page \in [Staff -> Page]
    /\ tab \in [Tabs -> {"open", "sent", "refused"}]
    /\ orders \in Nat
    /\ \A m \in Staff : page[m].pc \in {"create", "reuse"} => rowLock = m
    /\ \A t \in Tabs : tab[t] # "open" => rowLock = t
    /\ written \in BOOLEAN /\ agreed \in Nat
    /\ tally \in [requests : Nat, answers : Nat, mishaps : Nat, overlap : BOOLEAN,
                  undone : Nat, byHand : Nat, unissued : BOOLEAN]

\* A client who agrees twice, from two pages or by a second click, moves the
\* quotation to ACCEPTED once for each time staff have taken it out of there
\* (accept_quote); the manager is written to no more often than that.
AgreedOnce == agreed <= 1 + tally.undone

\* A double click on the button makes one order. A second live one comes only from
\* the form of an order: one that was brought back, added by hand or moved to this
\* quotation (create_order_from_quote).
OneLiveOrder == orders <= 1 + tally.byHand

\* Between requests, sent_at says whether the quotation is issued and the
\* client has been written to about this issue, unless two requests of staff
\* overlapped, one died, or the PDF failed. The client's answers, which may
\* come in the middle of any of it, do not matter. An ACCEPTED or REJECTED one
\* without a stamp is one that was created so and never SENT (finalize_quote_status,
\* Quote.clean).
IssueAddsUp ==
    Quiet /\ ~tally.overlap /\ tally.mishaps = 0 =>
        /\ quote.status = "draft" => ~quote.stamped
        /\ quote.status = "sent" => quote.stamped
        /\ quote.status \in {"accepted", "rejected"} => (quote.stamped <=> ~tally.unissued)
        /\ quote.stamped => written

\* A draft is issued before it is anything else, and only what is issued is
\* recalled: an agreement or a refusal of the client is not made a draft. The
\* exception is a request whose row has changed since it read it (transition_quote,
\* Quote.clean, accept_quote). It speaks of moves: a quotation may be created as
\* anything.
IssuedFirst ==
    [][(quote.status = "draft") # (quote'.status = "draft")
        => \/ {quote.status, quote'.status} = {"draft", "sent"}
           \/ \E m \in Staff : page[m].pc \in {"board", "form"} /\ page'[m] # page[m]
                               /\ page[m].status # quote.status]_vars

\* An issue closes the lead it has read as open, unless the request dies. (One that
\* was done when it was read and is reopened meanwhile stays open.)
IssueClosesLead ==
    (\E m \in Staff : page[m].pc = "stamped" /\ page[m].lead = "open")
       ~> (lead = "done" \/ tally.mishaps > 0)
=============================================================================
