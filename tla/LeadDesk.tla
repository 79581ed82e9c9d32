------------------------------- MODULE LeadDesk -------------------------------
(***************************************************************************)
(* The lead desk (src/backend/leads): requests for a quotation of one      *)
(* company and name, which are strung into a thread as they arrive, and    *)
(* the managers who take leads, set their status, close them one by one or *)
(* as a thread, and edit them in the form of the admin.                    *)
(*                                                                         *)
(* Only taking a lead locks its row. Everything else saves the whole row   *)
(* as it was when the request read it, however long ago that was; this is  *)
(* what page remembers.                                                    *)
(***************************************************************************)
EXTENDS Naturals, FiniteSets

CONSTANTS
    NumLeads,     \* leads 1..NumLeads, in the order of created_at
    Managers,     \* staff, one request each at a time
    Chiefs,       \* staff who see every lead (staff_sees_all_leads, or the
                  \* owner of the client's card)
    None,         \* no manager
    MaxEvents     \* bound: leads that arrive and requests of managers together

ASSUME ManagersAssumption == Chiefs \subseteq Managers /\ None \notin Managers

ASSUME LeadsAssumption ==
    NumLeads \in Nat /\ MaxEvents \in Nat

VARIABLES
    stage,    \* of each lead: how far its creation has got
    keyed,    \* leads with the rfq_bundle_key in question
    root,     \* rfq_bundle_root of each lead, 0 for none
    row,      \* status, assignee and processed_by of each lead
    keyLock,  \* the creation that holds the advisory lock on the key, or 0
    old,      \* leads that have left the window of the thread
    page,     \* what each manager's request has read
    notices,  \* send_lead_taken_notice tasks enqueued for each lead
    told,     \* history: managers told that the lead is theirs
    lost,     \* history: saves that took the lead from its assignee
    freed,    \* history: saves that left the lead without an assignee
    blind,    \* history: form saves that did not see an assignee
    closed,   \* history: leads that have been done
    events    \* history: arrivals and requests so far

history == <<told, lost, freed, blind, closed>>
vars == <<stage, keyed, root, row, keyLock, old, page, notices, history, events>>

Leads == 1..NumLeads

Statuses == {"new", "in_progress", "done"}

Fresh(m) == [status |-> "new", assignee |-> m, by |-> None]

Idle == [pc |-> "idle", to |-> "new", rows |-> [l \in {} |-> Fresh(None)], free |-> FALSE]

\* Rows that other transactions see.
There(l) == stage[l] = "there"
Open(l) == There(l) /\ row[l].status # "done"

Init ==
    /\ stage = [l \in Leads |-> "absent"]
    /\ keyed = {}
    /\ root = [l \in Leads |-> 0]
    /\ row = [l \in Leads |-> Fresh(None)]
    /\ keyLock = 0
    /\ old = {}
    /\ page = [m \in Managers |-> Idle]
    /\ notices = [l \in Leads |-> 0]
    /\ told = [l \in Leads |-> {}]
    /\ lost = [l \in Leads |-> 0]
    /\ freed = [l \in Leads |-> 0]
    /\ blind = [l \in Leads |-> 0]
    /\ closed = {}
    /\ events = 0

-----------------------------------------------------------------------------
(* A lead arrives *)

NextToArrive(l) ==
    /\ stage[l] = "absent" /\ \A k \in 1..l - 1 : stage[k] # "absent"
    /\ events < MaxEvents
    /\ events' = events + 1

\* A call or a letter makes a lead that is not part of any thread; it belongs to
\* the manager who was called or written to, if any (assign_lead_to_user).
Arrives(l) ==
    /\ NextToArrive(l)
    /\ stage' = [stage EXCEPT ![l] = "there"]
    /\ \E m \in Managers \cup {None} : row' = [row EXCEPT ![l] = Fresh(m)]
    /\ UNCHANGED <<keyed, root, keyLock, old, page, notices, history>>

\* LeadSerializer.create inserts the row of a request for quotation ...
Inserts(l) ==
    /\ NextToArrive(l)
    /\ stage' = [stage EXCEPT ![l] = "inserted"]
    /\ keyed' = keyed \cup {l}
    /\ UNCHANGED <<root, row, keyLock, old, page, notices, history>>

\* Mutant: the advisory lock does not keep a second creation out.
KeyNeverTaken == TRUE

KeyFree == keyLock = 0

\* Open requests with the key in the window that l sees.
Candidates(l) == {k \in keyed \ ({l} \cup old) : Open(k)}

Oldest(S) == CHOOSE k \in S : \A j \in S : k <= j

\* resolve_open_bundle_root: the oldest candidate, or its root if that is open.
OpenRoot(l) ==
    IF Candidates(l) = {} THEN 0
    ELSE LET k == Oldest(Candidates(l)) IN
         IF root[k] # 0 /\ Open(root[k]) THEN root[k] ELSE k

\* ... attach_rfq_bundle locks the key until the transaction ends, and then looks
\* the root of the thread up.
Attaches(l) ==
    /\ stage[l] = "inserted" /\ KeyFree
    /\ keyLock' = l
    /\ root' = [root EXCEPT ![l] = OpenRoot(l)]
    /\ stage' = [stage EXCEPT ![l] = "attached"]
    /\ UNCHANGED <<keyed, row, old, page, notices, history, events>>

\* The transaction ends, and with it the lock.
Commits(l) ==
    /\ stage[l] = "attached"
    /\ stage' = [stage EXCEPT ![l] = "there"]
    /\ keyLock' = IF keyLock = l THEN 0 ELSE keyLock
    /\ UNCHANGED <<keyed, root, row, old, page, notices, history, events>>

\* A step fails: nothing of the lead is left.
RollsBack(l) ==
    /\ stage[l] \in {"inserted", "attached"}
    /\ stage' = [stage EXCEPT ![l] = "undone"]
    /\ keyed' = keyed \ {l}
    /\ root' = [root EXCEPT ![l] = 0]
    /\ keyLock' = IF keyLock = l THEN 0 ELSE keyLock
    /\ UNCHANGED <<row, old, page, notices, history, events>>

\* RFQ_BUNDLE_WINDOW_DAYS pass for a request for quotation.
Ages(l) ==
    /\ l \in keyed \ old /\ There(l)
    /\ old' = old \cup {l}
    /\ UNCHANGED <<stage, keyed, root, row, keyLock, page, notices, history, events>>

-----------------------------------------------------------------------------
(* Managers *)

\* scope_leads_for_manager.
Sees(m, l) ==
    /\ There(l)
    /\ \/ m \in Chiefs
       \/ row[l].status = "new" /\ row[l].assignee = None
       \/ row[l].assignee = m
       \/ row[l].by = m

\* A manager begins a request.
Requests(m) ==
    /\ page[m].pc = "idle"
    /\ events < MaxEvents
    /\ events' = events + 1

\* Mutant: take_lead_in_work does not look at the assignee.
TakenByOtherNever(m, l) == FALSE

TakenByOther(m, l) == row[l].assignee \notin {None, m}

\* Mutant: the notice goes out each time.
WasFreeAlways(l) == TRUE

WasFree(l) == row[l].assignee = None

\* take_lead_in_work, under a lock of the row: the status is not looked at, and
\* processed_by stays as it is. Who finds another assignee is told so.
Takes(m, l) ==
    /\ Requests(m) /\ Sees(m, l)
    /\ ~TakenByOther(m, l)
    /\ row' = [row EXCEPT ![l].assignee = m, ![l].status = "in_progress"]
    /\ notices' = [notices EXCEPT ![l] = IF WasFree(l) THEN @ + 1 ELSE @]
    /\ told' = [told EXCEPT ![l] = @ \cup {m}]
    /\ UNCHANGED <<stage, keyed, root, keyLock, old, page, lost, freed, blind, closed>>

\* set_lead_status with "new" or "done" reads the row.
ReadsOne(m, l) ==
    /\ Requests(m) /\ Sees(m, l)
    /\ \E to \in {"new", "done"} :
         page' = [page EXCEPT ![m] =
                    [Idle EXCEPT !.pc = "saving", !.to = to, !.rows = [k \in {l} |-> row[k]]]]
    /\ UNCHANGED <<stage, keyed, root, row, keyLock, old, notices, history>>

\* rfq_bundle_queryset: the root and the leads attached to it.
Thread(l) ==
    LET top == IF root[l] # 0 THEN root[l] ELSE l
    IN  {k \in Leads : k = top \/ root[k] = top}

\* action_mark_done and mark_rfq_bundle_done read the rows of several leads; the
\* ones that are done are left alone.
ReadsSome(m) ==
    /\ Requests(m)
    /\ \E S \in {{l \in Leads : Sees(m, l)}}
               \cup {{k \in Thread(l) : Sees(m, k)} : l \in {j \in Leads : Sees(m, j)}} :
         /\ \E l \in S : row[l].status # "done"
         /\ page' = [page EXCEPT ![m] =
                       [Idle EXCEPT !.pc = "saving", !.to = "done",
                                    !.rows = [k \in {j \in S : row[j].status # "done"} |-> row[k]]]]
    /\ UNCHANGED <<stage, keyed, root, row, keyLock, old, notices, history>>

\* Mutant: a lead that is closed without an assignee is left without one.
StampedWithoutAssignee(r, m) == [r EXCEPT !.by = IF r.status = "done" THEN m ELSE None]

\* apply_lead_manager_on_save: what the fields imply, for actor m.
Stamped(r, m) ==
    [r EXCEPT !.by = CASE r.status # "done" -> None
                       [] r.status = "done" /\ r.by = None -> m
                       [] OTHER -> r.by,
              !.assignee = IF r.assignee = None /\ r.status \in {"in_progress", "done"}
                           THEN m ELSE r.assignee]

\* The row of l is overwritten with r.
Overwrites(l, r) ==
    /\ row' = [row EXCEPT ![l] = r]
    /\ lost' = [lost EXCEPT ![l] = IF row[l].assignee \notin {None, r.assignee}
                                   THEN @ + 1 ELSE @]
    /\ freed' = [freed EXCEPT ![l] = IF row[l].assignee # None /\ r.assignee = None
                                     THEN @ + 1 ELSE @]
    /\ closed' = IF r.status = "done" THEN closed \cup {l} ELSE closed

\* lead.save() of the next row that was read, every column of it.
SavesRow(m) ==
    LET read == page[m].rows
        l == Oldest(DOMAIN read)
        left == DOMAIN read \ {l} IN
    /\ page[m].pc = "saving"
    /\ Overwrites(l, Stamped([read[l] EXCEPT !.status = page[m].to], m))
    /\ page' = [page EXCEPT ![m] =
                  IF left = {} THEN Idle ELSE [@ EXCEPT !.rows = [k \in left |-> read[k]]]]
    /\ UNCHANGED <<stage, keyed, root, keyLock, old, notices, told, blind, events>>

\* The form is opened, with the fields as they are ...
FormOpens(m, l) ==
    /\ Requests(m) /\ Sees(m, l)
    /\ page' = [page EXCEPT ![m] = [Idle EXCEPT !.pc = "form", !.rows = [k \in {l} |-> row[k]]]]
    /\ UNCHANGED <<stage, keyed, root, row, keyLock, old, notices, history>>

\* What one may make of the form: the status or the assignee is changed (bound:
\* not both at once). Its fields rfq_bundle_root and lead_type are left out.
Edits(r) ==
    {[r EXCEPT !.status = s] : s \in Statuses}
        \cup {[r EXCEPT !.assignee = a] : a \in Managers \cup {None}}

\* ... and posted; save_model reads whether the lead has an assignee ...
FormPosts(m) ==
    LET l == Oldest(DOMAIN page[m].rows) IN
    /\ page[m].pc = "form"
    /\ \E r \in Edits(page[m].rows[l]) :
         page' = [page EXCEPT ![m].pc = "posted", ![m].rows = [k \in {l} |-> r],
                              ![m].free = (row[l].assignee = None)]
    /\ UNCHANGED <<stage, keyed, root, row, keyLock, old, notices, history, events>>

\* ... and saves what the form says.
FormSaves(m) ==
    LET l == Oldest(DOMAIN page[m].rows)
        r == Stamped(page[m].rows[l], m)
        announced == page[m].free /\ r.assignee # None IN
    /\ page[m].pc = "posted"
    /\ Overwrites(l, r)
    /\ notices' = [notices EXCEPT ![l] = IF announced THEN @ + 1 ELSE @]
    /\ blind' = [blind EXCEPT ![l] = IF announced /\ row[l].assignee # None THEN @ + 1 ELSE @]
    /\ page' = [page EXCEPT ![m] = Idle]
    /\ UNCHANGED <<stage, keyed, root, keyLock, old, told, events>>

\* The request is given up, or the process dies half way through the rows.
Abandons(m) ==
    /\ page[m].pc # "idle"
    /\ page' = [page EXCEPT ![m] = Idle]
    /\ UNCHANGED <<stage, keyed, root, row, keyLock, old, notices, history, events>>

-----------------------------------------------------------------------------
Next ==
    \/ \E l \in Leads :
         \/ Arrives(l) \/ Inserts(l) \/ Attaches(l) \/ Commits(l)
         \/ RollsBack(l) \/ Ages(l)
    \/ \E m \in Managers :
         \/ \E l \in Leads : Takes(m, l) \/ ReadsOne(m, l) \/ FormOpens(m, l)
         \/ ReadsSome(m) \/ SavesRow(m) \/ FormPosts(m) \/ FormSaves(m) \/ Abandons(m)

Spec == Init /\ [][Next]_vars

-----------------------------------------------------------------------------
(* Properties *)

Row == [status : Statuses, assignee : Managers \cup {None}, by : Managers \cup {None}]

Page ==
    [pc : {"idle", "saving", "form", "posted"}, to : {"new", "done"},
     rows : UNION {[S -> Row] : S \in SUBSET Leads}, free : BOOLEAN]

\* Leads, pages and histories have their types; a request holds rows of leads
\* that exist.
TypeOK ==
    /\ stage \in [Leads -> {"absent", "inserted", "attached", "there", "undone"}]
    /\ keyed \subseteq Leads
    /\ root \in [Leads -> 0..NumLeads]
    /\ row \in [Leads -> Row]
    /\ keyLock \in 0..NumLeads
    /\ old \subseteq Leads /\ closed \subseteq Leads
    /\ page \in [Managers -> Page]
    /\ \A m \in Managers : \A l \in DOMAIN page[m].rows : There(l)
    /\ notices \in [Leads -> Nat] /\ told \in [Leads -> SUBSET Managers]
    /\ lost \in [Leads -> Nat] /\ freed \in [Leads -> Nat] /\ blind \in [Leads -> Nat]
    /\ events \in Nat

\* Two requests for quotation of one company and name do not both become roots,
\* however their transactions overlap, unless one of them was closed or had left
\* the window (attach_rfq_bundle). Who takes a root away by hand, in the form, is
\* not in the model.
OneRoot ==
    \A k, l \in keyed :
        k # l /\ There(k) /\ There(l) /\ root[k] = 0 /\ root[l] = 0
            => {k, l} \cap (closed \cup old) # {}

\* A manager who has been told that the lead is his has it, unless a row read
\* before, or the form, has been saved over it (take_lead_in_work).
TakenIsKept ==
    \A l \in Leads : lost[l] = 0 => told[l] \subseteq {row[l].assignee}

\* Sales hear of a taking once: not more often than the lead was free, plus the
\* forms posted while somebody else took it.
TakingToldOnce == \A l \in Leads : notices[l] <= 1 + freed[l] + blind[l]

\* Whoever overwrites whom, a row says one thing: a lead that is done has
\* been closed by somebody and belongs to somebody, one in work belongs to
\* somebody, and a new one has been closed by nobody.
RowAddsUp ==
    \A l \in Leads :
        /\ row[l].status \in {"in_progress", "done"} => row[l].assignee # None
        /\ row[l].status = "done" => row[l].by # None
        /\ row[l].status = "new" => row[l].by = None
=============================================================================
