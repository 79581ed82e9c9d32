---------------------------- MODULE LeadDeskProofs ----------------------------
(***************************************************************************)
(* Theorems about LeadDesk, for any number of leads, managers and          *)
(* requests.                                                               *)
(***************************************************************************)
EXTENDS LeadDesk, WellFoundedInduction, TLAPS

-----------------------------------------------------------------------------
(* Types                                                                   *)

\* A request that is under way has rows to save.
Busy == \A m \in Managers : page[m].pc # "idle" => DOMAIN page[m].rows # {}

TypeInv == TypeOK /\ Busy

Tables == UNION {[S -> Row] : S \in SUBSET Leads}

\* The oldest of some leads is one of them.
LEMMA HasOldest ==
    ASSUME NEW S, S \subseteq Leads, S # {}
    PROVE  Oldest(S) \in S /\ \A j \in S : Oldest(S) <= j
  <1> DEFINE Before == OpToRel(<, Nat)
  <1>1. IsWellFoundedOn(Before, Nat)
    BY NatLessThanWellFounded
  <1>2. \A x, y \in Nat : y < x => <<y, x>> \in Before
    BY DEF OpToRel
  <1> HIDE DEF Before
  <1>3. S \subseteq Nat
    BY LeadsAssumption DEF Leads
  <1>4. \E x \in S : \A y \in S : ~(<<y, x>> \in Before)
    BY <1>1, <1>3, WFMin
  <1>5. \E x \in S : \A y \in S : x <= y
    <2>1. PICK x \in S : \A y \in S : ~(<<y, x>> \in Before)
      BY <1>4
    <2>2. ASSUME NEW y \in S PROVE x <= y
      <3>1. x \in Nat /\ y \in Nat
        BY <1>3
      <3>2. ~(y < x)
        BY <1>2, <2>1, <3>1, Zenon
      <3> QED
        BY <3>1, <3>2
    <2> QED
      BY <2>2
  <1> QED
    BY <1>5 DEF Oldest

LEMMA FreshRow == ASSUME NEW m \in Managers \cup {None} PROVE Fresh(m) \in Row
  BY DEF Fresh, Row, Statuses

LEMMA StampedRow ==
    ASSUME NEW r \in Row, NEW m \in Managers
    PROVE  /\ Stamped(r, m) \in Row /\ Stamped(r, m).status = r.status
           /\ Stamped(r, m).assignee = IF r.assignee = None /\ r.status \in {"in_progress", "done"}
                                       THEN m ELSE r.assignee
           /\ Stamped(r, m).by = IF r.status # "done" THEN None
                                 ELSE IF r.by = None THEN m ELSE r.by
  BY DEF Stamped, Row

LEMMA IdlePage == Idle \in Page /\ DOMAIN Idle.rows = {} /\ Idle.pc = "idle"
  <1>1. [l \in {} |-> Fresh(None)] \in [{} -> Row]
    OBVIOUS
  <1>2. [l \in {} |-> Fresh(None)] \in Tables
    BY <1>1 DEF Tables
  <1> QED
    BY <1>2 DEF Idle, Page, Tables

LEMMA InitTyped == Init => TypeInv
  <1> SUFFICES ASSUME Init PROVE TypeInv
    OBVIOUS
  <1>1. None \in Managers \cup {None}
    OBVIOUS
  <1>2. row \in [Leads -> Row]
    BY <1>1, FreshRow DEF Init
  <1>3. keyLock \in 0..NumLeads /\ root \in [Leads -> 0..NumLeads]
    BY LeadsAssumption DEF Init
  <1> QED
    BY <1>2, <1>3, IdlePage DEF Init, TypeInv, TypeOK, Busy

\* A request has read the rows t.
LEMMA OpenedPage ==
    ASSUME NEW t
    PROVE  /\ t \in Tables => [Idle EXCEPT !.pc = "form", !.rows = t] \in Page
           /\ [Idle EXCEPT !.pc = "form", !.rows = t].rows = t
           /\ \A to \in {"new", "done"} :
                /\ t \in Tables => [Idle EXCEPT !.pc = "saving", !.to = to, !.rows = t] \in Page
                /\ [Idle EXCEPT !.pc = "saving", !.to = to, !.rows = t].rows = t
  <1>1. Idle \in Page
    BY IdlePage
  <1>2. t \in Tables => [Idle EXCEPT !.pc = "form", !.rows = t] \in Page
    BY <1>1 DEF Page, Tables
  <1>3. [Idle EXCEPT !.pc = "form", !.rows = t].rows = t
    BY <1>1 DEF Page
  <1>4. ASSUME NEW to \in {"new", "done"}
        PROVE  /\ t \in Tables => [Idle EXCEPT !.pc = "saving", !.to = to, !.rows = t] \in Page
               /\ [Idle EXCEPT !.pc = "saving", !.to = to, !.rows = t].rows = t
    BY <1>1 DEF Page, Tables
  <1> QED
    BY <1>2, <1>3, <1>4

\* The rows that a page reads or keeps, taken from r.
LEMMA TableOf ==
    ASSUME NEW S, S \subseteq Leads, NEW r, \A k \in S : r[k] \in Row
    PROVE  [k \in S |-> r[k]] \in Tables /\ DOMAIN [k \in S |-> r[k]] = S
  <1>1. [k \in S |-> r[k]] \in [S -> Row]
    OBVIOUS
  <1> QED
    BY <1>1 DEF Tables

LEMMA TableMember ==
    ASSUME TypeInv, NEW m \in Managers
    PROVE  /\ page[m] \in Page
           /\ DOMAIN page[m].rows \subseteq Leads
           /\ \A k \in DOMAIN page[m].rows : page[m].rows[k] \in Row /\ There(k)
           /\ page[m].pc # "idle" => /\ Oldest(DOMAIN page[m].rows) \in DOMAIN page[m].rows
                                     /\ Oldest(DOMAIN page[m].rows) \in Leads
  <1>1. page[m] \in Page
    BY DEF TypeInv, TypeOK
  <1>2. PICK S \in SUBSET Leads : page[m].rows \in [S -> Row]
    BY <1>1 DEF Page
  <1>3. DOMAIN page[m].rows \subseteq Leads /\ \A k \in DOMAIN page[m].rows : page[m].rows[k] \in Row
    BY <1>2
  <1>4. \A k \in DOMAIN page[m].rows : There(k)
    BY DEF TypeInv, TypeOK
  <1>5. page[m].pc # "idle" => DOMAIN page[m].rows # {}
    BY DEF TypeInv, Busy
  <1>6. page[m].pc # "idle" => Oldest(DOMAIN page[m].rows) \in DOMAIN page[m].rows
    BY <1>3, <1>5, HasOldest
  <1> QED
    BY <1>1, <1>3, <1>4, <1>6

\* A page after a request of m has read, kept or dropped rows.
LEMMA PageTyped ==
    ASSUME TypeInv, NEW m \in Managers, NEW x \in Page, page' = [page EXCEPT ![m] = x],
           x.pc # "idle" => DOMAIN x.rows # {},
           \A k \in DOMAIN x.rows : There(k), UNCHANGED stage
    PROVE  /\ page' \in [Managers -> Page] /\ Busy'
           /\ \A n \in Managers : \A l \in DOMAIN page'[n].rows : There(l)'
  <1>1. page' \in [Managers -> Page] /\ \A n \in Managers : page'[n] = IF n = m THEN x ELSE page[n]
    BY DEF TypeInv, TypeOK
  <1>2. \A n \in Managers : /\ page[n].pc # "idle" => DOMAIN page[n].rows # {}
                            /\ \A l \in DOMAIN page[n].rows : There(l)
    BY DEF TypeInv, TypeOK, Busy
  <1>3. Busy'
    BY <1>1, <1>2 DEF Busy
  <1>4. \A n \in Managers : \A l \in DOMAIN page'[n].rows : There(l)
    BY <1>1, <1>2
  <1> QED
    BY <1>1, <1>3, <1>4 DEF There

\* Nobody opens or closes a page.
LEMMA PagesStay ==
    ASSUME TypeInv, UNCHANGED page, \A l \in Leads : There(l) => There(l)'
    PROVE  /\ page' \in [Managers -> Page] /\ Busy'
           /\ \A n \in Managers : \A l \in DOMAIN page'[n].rows : There(l)'
  <1>1. \A n \in Managers : \A l \in DOMAIN page[n].rows : l \in Leads /\ There(l)
    BY TableMember
  <1> QED
    BY <1>1 DEF TypeInv, TypeOK, Busy

\* A creation finds its place in a thread.
LEMMA OpenRootTyped ==
    ASSUME TypeInv, NEW l \in Leads
    PROVE  /\ OpenRoot(l) \in 0..NumLeads
           /\ OpenRoot(l) = 0 <=> Candidates(l) = {}
  <1>1. Candidates(l) \subseteq Leads /\ \A k \in Leads : k \in 0..NumLeads /\ k # 0
    <2>1. Candidates(l) \subseteq Leads
      BY DEF Candidates, TypeInv, TypeOK
    <2> QED
      BY <2>1, LeadsAssumption DEF Leads
  <1>2. ASSUME Candidates(l) # {}
        PROVE  Oldest(Candidates(l)) \in Leads
    BY <1>1, <1>2, HasOldest
  <1>3. \A k \in Leads : root[k] \in 0..NumLeads
    BY DEF TypeInv, TypeOK
  <1>4. 0 \in 0..NumLeads
    BY LeadsAssumption
  <1> QED
    BY <1>1, <1>2, <1>3, <1>4 DEF OpenRoot

LEMMA ArrivalTyped ==
    ASSUME TypeInv, NEW l \in Leads,
           \/ Arrives(l) \/ Inserts(l) \/ Attaches(l) \/ Commits(l) \/ RollsBack(l) \/ Ages(l)
    PROVE  TypeInv'
  <1>1. /\ stage' \in [Leads -> {"absent", "inserted", "attached", "there", "undone"}]
        /\ \A k \in Leads : There(k) => There(k)'
        /\ UNCHANGED page
    BY DEF Arrives, Inserts, Attaches, Commits, RollsBack, Ages, NextToArrive, There, TypeInv, TypeOK
  <1>2. /\ page' \in [Managers -> Page] /\ Busy'
        /\ \A n \in Managers : \A k \in DOMAIN page'[n].rows : There(k)'
    BY <1>1, PagesStay
  <1>3. l \in 0..NumLeads /\ 0 \in 0..NumLeads
    BY LeadsAssumption DEF Leads
  <1>4. keyLock' \in 0..NumLeads /\ keyed' \subseteq Leads /\ old' \subseteq Leads
    BY <1>3 DEF Arrives, Inserts, Attaches, Commits, RollsBack, Ages, TypeInv, TypeOK
  <1>5. root' \in [Leads -> 0..NumLeads]
    BY <1>3, OpenRootTyped
       DEF Arrives, Inserts, Attaches, Commits, RollsBack, Ages, TypeInv, TypeOK
  <1>6. row' \in [Leads -> Row]
    <2>1. CASE Arrives(l)
      BY <2>1, FreshRow DEF Arrives, TypeInv, TypeOK
    <2>2. CASE ~Arrives(l)
      BY <2>2 DEF Inserts, Attaches, Commits, RollsBack, Ages, TypeInv, TypeOK
    <2> QED
      BY <2>1, <2>2
  <1>7. events' \in Nat
    BY DEF Arrives, Inserts, Attaches, Commits, RollsBack, Ages, NextToArrive, TypeInv, TypeOK
  <1>8. UNCHANGED <<notices, told, lost, freed, blind, closed>>
    BY DEF Arrives, Inserts, Attaches, Commits, RollsBack, Ages, history
  <1> QED
    BY <1>1, <1>2, <1>4, <1>5, <1>6, <1>7, <1>8 DEF TypeInv, TypeOK

\* A row is overwritten.
LEMMA OverwritesTyped ==
    ASSUME TypeInv, NEW l \in Leads, NEW r \in Row, Overwrites(l, r)
    PROVE  /\ row' \in [Leads -> Row] /\ closed' \subseteq Leads
           /\ lost' \in [Leads -> Nat] /\ freed' \in [Leads -> Nat]
  BY DEF Overwrites, TypeInv, TypeOK

LEMMA ManagerTyped ==
    ASSUME TypeInv, NEW m \in Managers,
           \/ \E l \in Leads : Takes(m, l) \/ ReadsOne(m, l) \/ FormOpens(m, l)
           \/ ReadsSome(m) \/ SavesRow(m) \/ FormPosts(m) \/ FormSaves(m) \/ Abandons(m)
    PROVE  TypeInv'
  <1>0. \A l \in Leads : row[l] \in Row
    BY DEF TypeInv, TypeOK
  <1>1. ASSUME NEW l \in Leads, Takes(m, l) PROVE TypeInv'
    <2>1. row' \in [Leads -> Row]
      <3>1. [row[l] EXCEPT !.assignee = m, !.status = "in_progress"] \in Row
        BY <1>0 DEF Row, Statuses
      <3>2. row' = [row EXCEPT ![l] = [row[l] EXCEPT !.assignee = m, !.status = "in_progress"]]
        BY <1>1 DEF Takes, TypeInv, TypeOK
      <3> QED
        BY <3>1, <3>2 DEF TypeInv, TypeOK
    <2>2. notices' \in [Leads -> Nat] /\ told' \in [Leads -> SUBSET Managers]
      BY <1>1 DEF Takes, TypeInv, TypeOK
    <2>3. /\ page' \in [Managers -> Page] /\ Busy'
          /\ \A n \in Managers : \A k \in DOMAIN page'[n].rows : There(k)'
      <3>1. UNCHANGED page /\ \A k \in Leads : There(k) => There(k)'
        BY <1>1 DEF Takes, There
      <3> QED
        BY <3>1, PagesStay
    <2>4. events' \in Nat
      BY <1>1 DEF Takes, Requests, TypeInv, TypeOK
    <2> QED
      BY <1>1, <2>1, <2>2, <2>3, <2>4 DEF Takes, TypeInv, TypeOK
  <1>2. ASSUME NEW x \in Page, page' = [page EXCEPT ![m] = x],
               x.pc # "idle" => DOMAIN x.rows # {},
               \A k \in DOMAIN x.rows : There(k),
               UNCHANGED <<stage, keyed, root, row, keyLock, old, notices, history>>,
               events' \in Nat
        PROVE  TypeInv'
    <2>1. /\ page' \in [Managers -> Page] /\ Busy'
          /\ \A n \in Managers : \A k \in DOMAIN page'[n].rows : There(k)'
      BY <1>2, PageTyped
    <2> QED
      BY <1>2, <2>1 DEF TypeInv, TypeOK, history
  <1>3. ASSUME NEW S, S \subseteq Leads, S # {}, \A k \in S : There(k),
               NEW t, t = [k \in S |-> row[k]],
               NEW x, page' = [page EXCEPT ![m] = x],
               t \in Tables => x \in Page /\ x.rows = t,
               UNCHANGED <<stage, keyed, root, row, keyLock, old, notices, history>>,
               Requests(m)
        PROVE  TypeInv'
    <2>1. t \in Tables /\ DOMAIN t = S
      BY <1>0, <1>3, TableOf
    <2>2. x \in Page /\ x.rows = t
      BY <1>3, <2>1
    <2>3. events' \in Nat
      BY <1>3 DEF Requests, TypeInv, TypeOK
    <2>4. /\ x.pc # "idle" => DOMAIN x.rows # {}
          /\ \A k \in DOMAIN x.rows : There(k)
      BY <1>3, <2>1, <2>2
    <2> QED
      BY <1>2, <1>3, <2>2, <2>3, <2>4
  <1>4. ASSUME NEW l \in Leads, ReadsOne(m, l) PROVE TypeInv'
    <2>1. PICK to \in {"new", "done"} :
            page' = [page EXCEPT ![m] = [Idle EXCEPT !.pc = "saving", !.to = to,
                                                     !.rows = [k \in {l} |-> row[k]]]]
      BY <1>4 DEF ReadsOne
    <2> DEFINE t == [k \in {l} |-> row[k]]
               x == [Idle EXCEPT !.pc = "saving", !.to = to, !.rows = t]
    <2>2. t \in Tables => x \in Page /\ x.rows = t
      BY OpenedPage
    <2>3. There(l) /\ Requests(m)
          /\ UNCHANGED <<stage, keyed, root, row, keyLock, old, notices, history>>
      BY <1>4 DEF ReadsOne, Sees
    <2>4. t = [k \in {l} |-> row[k]] /\ page' = [page EXCEPT ![m] = x]
      BY <2>1
    <2> HIDE DEF t, x
    <2> QED
      BY <1>3, <2>2, <2>3, <2>4
  <1>5. ASSUME NEW l \in Leads, FormOpens(m, l) PROVE TypeInv'
    <2> DEFINE t == [k \in {l} |-> row[k]]
               x == [Idle EXCEPT !.pc = "form", !.rows = t]
    <2>1. t \in Tables => x \in Page /\ x.rows = t
      BY OpenedPage
    <2>2. There(l) /\ Requests(m)
          /\ UNCHANGED <<stage, keyed, root, row, keyLock, old, notices, history>>
      BY <1>5 DEF FormOpens, Sees
    <2>3. t = [k \in {l} |-> row[k]] /\ page' = [page EXCEPT ![m] = x]
      BY <1>5 DEF FormOpens
    <2> HIDE DEF t, x
    <2> QED
      BY <1>3, <2>1, <2>2, <2>3
  <1>6. CASE ReadsSome(m)
    <2>1. PICK S \in SUBSET {l \in Leads : Sees(m, l)} :
            /\ \E l \in S : row[l].status # "done"
            /\ page' = [page EXCEPT ![m] =
                          [Idle EXCEPT !.pc = "saving", !.to = "done",
                                       !.rows = [k \in {j \in S : row[j].status # "done"} |-> row[k]]]]
      BY <1>6 DEF ReadsSome, Thread
    <2> DEFINE R == {j \in S : row[j].status # "done"}
               t == [k \in R |-> row[k]]
               x == [Idle EXCEPT !.pc = "saving", !.to = "done", !.rows = t]
    <2>2. t \in Tables => x \in Page /\ x.rows = t
      BY OpenedPage
    <2>3. R \subseteq Leads /\ R # {} /\ \A k \in R : There(k)
      BY <2>1 DEF Sees
    <2>4. t = [k \in R |-> row[k]] /\ page' = [page EXCEPT ![m] = x]
      BY <2>1
    <2>5. /\ Requests(m)
          /\ UNCHANGED <<stage, keyed, root, row, keyLock, old, notices, history>>
      BY <1>6 DEF ReadsSome
    <2> HIDE DEF R, t, x
    <2> QED
      BY <1>3, <2>2, <2>3, <2>4, <2>5
  <1>7. CASE Abandons(m)
    <2>1. events' \in Nat
      BY <1>7 DEF Abandons, TypeInv, TypeOK
    <2> QED
      BY <1>2, <1>7, <2>1, IdlePage DEF Abandons
  <1>8. CASE FormPosts(m)
    <2> DEFINE l == Oldest(DOMAIN page[m].rows)
    <2>1. page[m].pc = "form" /\ page[m] \in Page /\ l \in Leads /\ There(l) /\ page[m].rows[l] \in Row
      BY <1>8, TableMember DEF FormPosts
    <2>2. PICK r \in Edits(page[m].rows[l]) :
            page' = [page EXCEPT ![m].pc = "posted", ![m].rows = [k \in {l} |-> r],
                                 ![m].free = (row[l].assignee = None)]
      BY <1>8 DEF FormPosts
    <2>3. r \in Row
      BY <2>1 DEF Edits, Row, Statuses
    <2>4. PICK o \in BOOLEAN : o = (row[l].assignee = None)
      OBVIOUS
    <2>5. PICK t \in Tables : t = [k \in {l} |-> r] /\ DOMAIN t = {l}
      <3>1. [k \in {l} |-> r] \in [{l} -> Row]
        BY <2>3
      <3> QED
        BY <2>1, <3>1 DEF Tables
    <2> DEFINE x == [page[m] EXCEPT !.pc = "posted", !.rows = t, !.free = o]
    <2>6. page' = [page EXCEPT ![m] = x]
      BY <2>1, <2>2, <2>4, <2>5 DEF TypeInv, TypeOK
    <2>7. x \in Page /\ x.rows = t
      BY <2>1 DEF Page, Tables
    <2>8. events' \in Nat /\ UNCHANGED <<stage, keyed, root, row, keyLock, old, notices, history>>
      BY <1>8 DEF FormPosts, TypeInv, TypeOK
    <2> HIDE DEF x, l
    <2>9. DOMAIN x.rows # {} /\ \A k \in DOMAIN x.rows : There(k)
      BY <2>1, <2>5, <2>7
    <2> QED
      BY <1>2, <2>6, <2>7, <2>8, <2>9
  <1>9. CASE SavesRow(m)
    <2> DEFINE l == Oldest(DOMAIN page[m].rows)
               left == DOMAIN page[m].rows \ {l}
               t == page[m].rows
               r == Stamped([t[l] EXCEPT !.status = page[m].to], m)
    <2>1. /\ page[m].pc = "saving" /\ page[m] \in Page /\ l \in Leads /\ t[l] \in Row
          /\ DOMAIN t \subseteq Leads /\ \A k \in DOMAIN t : t[k] \in Row /\ There(k)
      BY <1>9, TableMember DEF SavesRow
    <2>2. [t[l] EXCEPT !.status = page[m].to] \in Row
      BY <2>1 DEF Row, Page, Statuses
    <2>3. r \in Row
      BY <2>2, StampedRow
    <2>4. /\ row' \in [Leads -> Row] /\ closed' \subseteq Leads
          /\ lost' \in [Leads -> Nat] /\ freed' \in [Leads -> Nat]
      BY <1>9, <2>1, <2>3, OverwritesTyped DEF SavesRow
    <2>5. PICK u \in Tables : u = [k \in left |-> t[k]] /\ DOMAIN u = left
      BY <2>1, TableOf
    <2> DEFINE x == IF left = {} THEN Idle ELSE [page[m] EXCEPT !.rows = u]
    <2>6. page' = [page EXCEPT ![m] = x]
      <3>1. page' = [page EXCEPT ![m] = IF left = {} THEN Idle
                                        ELSE [page[m] EXCEPT !.rows = [k \in left |-> t[k]]]]
        BY <1>9 DEF SavesRow
      <3> HIDE DEF left, t
      <3> QED
        BY <2>5, <3>1
    <2>7. /\ x \in Page /\ (x.pc # "idle" => DOMAIN x.rows # {})
          /\ \A k \in DOMAIN x.rows : There(k)
      <3>1. CASE left = {}
        BY <3>1, IdlePage
      <3>2. CASE left # {}
        <4>1. x \in Page /\ x.rows = u
          BY <2>1, <3>2 DEF Page, Tables
        <4> QED
          BY <2>1, <2>5, <3>2, <4>1
      <3> QED
        BY <3>1, <3>2
    <2> HIDE DEF x
    <2>8. /\ page' \in [Managers -> Page] /\ Busy'
          /\ \A n \in Managers : \A k \in DOMAIN page'[n].rows : There(k)'
      BY <1>9, <2>6, <2>7, PageTyped DEF SavesRow
    <2> QED
      BY <1>9, <2>4, <2>8 DEF SavesRow, TypeInv, TypeOK
  <1>10. CASE FormSaves(m)
    <2> DEFINE l == Oldest(DOMAIN page[m].rows)
               r == Stamped(page[m].rows[l], m)
    <2>1. page[m].pc = "posted" /\ l \in Leads /\ page[m].rows[l] \in Row
      BY <1>10, TableMember DEF FormSaves
    <2>2. r \in Row
      BY <2>1, StampedRow
    <2>3. /\ row' \in [Leads -> Row] /\ closed' \subseteq Leads
          /\ lost' \in [Leads -> Nat] /\ freed' \in [Leads -> Nat]
      BY <1>10, <2>1, <2>2, OverwritesTyped DEF FormSaves
    <2>4. notices' \in [Leads -> Nat] /\ blind' \in [Leads -> Nat]
      BY <1>10, <2>1 DEF FormSaves, TypeInv, TypeOK
    <2>5. /\ page' \in [Managers -> Page] /\ Busy'
          /\ \A n \in Managers : \A k \in DOMAIN page'[n].rows : There(k)'
      BY <1>10, IdlePage, PageTyped DEF FormSaves
    <2> QED
      BY <1>10, <2>3, <2>4, <2>5 DEF FormSaves, TypeInv, TypeOK
  <1> QED
    BY <1>1, <1>4, <1>5, <1>6, <1>7, <1>8, <1>9, <1>10

LEMMA TypedStep == TypeInv /\ [Next]_vars => TypeInv'
  <1> SUFFICES ASSUME TypeInv, [Next]_vars PROVE TypeInv'
    OBVIOUS
  <1>1. CASE UNCHANGED vars
    <2>1. /\ page' \in [Managers -> Page] /\ Busy'
          /\ \A n \in Managers : \A k \in DOMAIN page'[n].rows : There(k)'
      BY <1>1, PagesStay DEF vars, There
    <2> QED
      BY <1>1, <2>1 DEF vars, history, TypeInv, TypeOK
  <1> QED
    BY <1>1, ArrivalTyped, ManagerTyped DEF Next

\* A request holds rows of leads that exist, and the tables and histories have
\* their types.
THEOREM LeadTypeCorrect == Spec => []TypeOK
  <1>1. TypeInv => TypeOK
    BY DEF TypeInv
  <1> QED
    BY <1>1, InitTyped, TypedStep, PTL DEF Spec

-----------------------------------------------------------------------------
(* Steps, by what they do to a row                                         *)

\* What the steps of a creation do.
Creation(l) ==
    /\ \/ row' = row
       \/ ~There(l) /\ \E m \in Managers \cup {None} : row' = [row EXCEPT ![l] = Fresh(m)]
    /\ \A k \in Leads : There(k) => There(k)'
    /\ \A k \in Leads \ {l} : stage'[k] = stage[k]
    /\ UNCHANGED <<notices, told, lost, freed, blind, closed>>

\* What a save does.
Saving(m) ==
    \E l \in Leads, r \in Row :
        /\ There(l) /\ Overwrites(l, Stamped(r, m)) /\ UNCHANGED <<told, stage>>
        /\ \/ UNCHANGED <<notices, blind>>
           \/ /\ Stamped(r, m).assignee # None
              /\ notices' = [notices EXCEPT ![l] = @ + 1]
              /\ blind' = [blind EXCEPT ![l] = IF row[l].assignee # None THEN @ + 1 ELSE @]

\* What a taking does.
Taking(m) ==
    \E l \in Leads :
        /\ There(l) /\ ~TakenByOther(m, l)
        /\ row' = [row EXCEPT ![l].assignee = m, ![l].status = "in_progress"]
        /\ notices' = [notices EXCEPT ![l] = IF WasFree(l) THEN @ + 1 ELSE @]
        /\ told' = [told EXCEPT ![l] = @ \cup {m}]
        /\ UNCHANGED <<stage, lost, freed, blind, closed>>

LEMMA Steps ==
    ASSUME TypeInv, [Next]_vars
    PROVE  \/ \E l \in Leads : Creation(l)
           \/ \E m \in Managers : Saving(m) \/ Taking(m)
           \/ UNCHANGED <<row, stage, notices, told, lost, freed, blind, closed>>
  <1>1. ASSUME NEW l \in Leads,
               \/ Arrives(l) \/ Inserts(l) \/ Attaches(l) \/ Commits(l) \/ RollsBack(l) \/ Ages(l)
        PROVE  Creation(l)
    <2>1. \A k \in Leads : There(k) => There(k)'
      BY <1>1 DEF Arrives, Inserts, Attaches, Commits, RollsBack, Ages, NextToArrive, There,
                  TypeInv, TypeOK
    <2>2. \A k \in Leads \ {l} : stage'[k] = stage[k]
      BY <1>1 DEF Arrives, Inserts, Attaches, Commits, RollsBack, Ages, TypeInv, TypeOK
    <2>3. \/ row' = row
          \/ ~There(l) /\ \E m \in Managers \cup {None} : row' = [row EXCEPT ![l] = Fresh(m)]
      BY <1>1 DEF Arrives, Inserts, Attaches, Commits, RollsBack, Ages, NextToArrive, There
    <2>4. UNCHANGED <<notices, told, lost, freed, blind, closed>>
      BY <1>1 DEF Arrives, Inserts, Attaches, Commits, RollsBack, Ages, history
    <2> QED
      BY <2>1, <2>2, <2>3, <2>4 DEF Creation
  <1>2. ASSUME NEW m \in Managers, NEW l \in Leads, Takes(m, l)
        PROVE  Taking(m)
    BY <1>2 DEF Takes, Sees, Taking
  <1>3. ASSUME NEW m \in Managers, SavesRow(m)
        PROVE  Saving(m)
    <2> DEFINE l == Oldest(DOMAIN page[m].rows)
               r == [page[m].rows[l] EXCEPT !.status = page[m].to]
    <2>1. l \in Leads /\ There(l) /\ page[m].rows[l] \in Row /\ page[m] \in Page
      BY <1>3, TableMember DEF SavesRow
    <2>2. r \in Row
      BY <2>1 DEF Row, Page, Statuses
    <2>3. Overwrites(l, Stamped(r, m)) /\ UNCHANGED <<told, stage, notices, blind>>
      BY <1>3 DEF SavesRow
    <2> HIDE DEF l, r
    <2> QED
      BY <2>1, <2>2, <2>3 DEF Saving
  <1>4. ASSUME NEW m \in Managers, FormSaves(m)
        PROVE  Saving(m)
    <2> DEFINE l == Oldest(DOMAIN page[m].rows)
               r == page[m].rows[l]
               announced == page[m].free /\ Stamped(r, m).assignee # None
    <2>1. l \in Leads /\ There(l) /\ r \in Row
      BY <1>4, TableMember DEF FormSaves
    <2>2. /\ Overwrites(l, Stamped(r, m)) /\ UNCHANGED <<told, stage>>
          /\ notices' = [notices EXCEPT ![l] = IF announced THEN @ + 1 ELSE @]
          /\ blind' = [blind EXCEPT ![l] = IF announced /\ row[l].assignee # None THEN @ + 1 ELSE @]
      BY <1>4 DEF FormSaves
    <2>3. notices \in [Leads -> Nat] /\ blind \in [Leads -> Nat]
      BY DEF TypeInv, TypeOK
    <2>4. CASE announced
      <3>1. Stamped(r, m).assignee # None
        BY <2>4
      <3>2. /\ notices' = [notices EXCEPT ![l] = @ + 1]
            /\ blind' = [blind EXCEPT ![l] = IF row[l].assignee # None THEN @ + 1 ELSE @]
        BY <2>2, <2>4
      <3> HIDE DEF l, r, announced
      <3> QED
        BY <2>1, <2>2, <3>1, <3>2 DEF Saving
    <2>5. CASE ~announced
      <3> HIDE DEF l, r, announced
      <3>1. UNCHANGED <<notices, blind>>
        BY <2>2, <2>3, <2>5
      <3> QED
        BY <2>1, <2>2, <3>1 DEF Saving
    <2> QED
      BY <2>4, <2>5
  <1>5. ASSUME NEW m \in Managers,
               \/ \E l \in Leads : ReadsOne(m, l) \/ FormOpens(m, l)
               \/ ReadsSome(m) \/ FormPosts(m) \/ Abandons(m)
        PROVE  UNCHANGED <<row, stage, notices, told, lost, freed, blind, closed>>
    BY <1>5 DEF ReadsOne, FormOpens, ReadsSome, FormPosts, Abandons, history
  <1>6. CASE UNCHANGED vars
    BY <1>6 DEF vars, history
  <1> QED
    BY <1>1, <1>2, <1>3, <1>4, <1>5, <1>6 DEF Next

-----------------------------------------------------------------------------
(* Rows add up                                                             *)

LEMMA RowsStep == TypeInv /\ RowAddsUp /\ [Next]_vars => RowAddsUp'
  <1> SUFFICES ASSUME TypeInv, RowAddsUp, [Next]_vars PROVE RowAddsUp'
    OBVIOUS
  <1>0. row \in [Leads -> Row]
    BY DEF TypeInv, TypeOK
  <1>1. ASSUME NEW l \in Leads, Creation(l) PROVE RowAddsUp'
    BY <1>0, <1>1 DEF Creation, Fresh, RowAddsUp
  <1>2. ASSUME NEW m \in Managers, Saving(m) PROVE RowAddsUp'
    <2>1. PICK l \in Leads, r \in Row : row' = [row EXCEPT ![l] = Stamped(r, m)]
      BY <1>2 DEF Saving, Overwrites
    <2>2. /\ Stamped(r, m).status \in {"in_progress", "done"} => Stamped(r, m).assignee # None
          /\ Stamped(r, m).status = "done" => Stamped(r, m).by # None
          /\ Stamped(r, m).status = "new" => Stamped(r, m).by = None
      BY StampedRow, ManagersAssumption
    <2>3. \A k \in Leads : row'[k] = IF k = l THEN Stamped(r, m) ELSE row[k]
      BY <1>0, <2>1
    <2> QED
      BY <2>2, <2>3 DEF RowAddsUp
  <1>3. ASSUME NEW m \in Managers, Taking(m) PROVE RowAddsUp'
    BY <1>0, <1>3, ManagersAssumption DEF Taking, RowAddsUp, Row
  <1>4. CASE UNCHANGED row
    BY <1>4 DEF RowAddsUp
  <1> QED
    BY <1>1, <1>2, <1>3, <1>4, Steps

\* Whoever saves over whom, a lead that is done has been closed by somebody and
\* belongs to somebody, one in work belongs to somebody, and a new one has been
\* closed by nobody (apply_lead_manager_on_save).
THEOREM RowsAddUp == Spec => []RowAddsUp
  <1>1. Init => RowAddsUp
    BY DEF Init, Fresh, RowAddsUp
  <1> QED
    BY <1>1, InitTyped, TypedStep, RowsStep, PTL DEF Spec

-----------------------------------------------------------------------------
(* A taking is kept, and announced once                                    *)

\* Nobody has been told of a lead that nobody sees.
Unheard == \A l \in Leads : ~There(l) => told[l] = {} /\ notices[l] = 0

\* A free lead has been announced no more often than it was freed.
Announced ==
    \A l \in Leads :
        /\ notices[l] <= 1 + freed[l] + blind[l]
        /\ row[l].assignee = None => notices[l] <= freed[l] + blind[l]

LEMMA UnheardStep == TypeInv /\ Unheard /\ [Next]_vars => Unheard'
  <1> SUFFICES ASSUME TypeInv, Unheard, [Next]_vars PROVE Unheard'
    OBVIOUS
  <1>0. told \in [Leads -> SUBSET Managers] /\ notices \in [Leads -> Nat]
    BY DEF TypeInv, TypeOK
  <1>1. ASSUME NEW l \in Leads, Creation(l) PROVE Unheard'
    BY <1>1 DEF Creation, Unheard
  <1>2. ASSUME NEW m \in Managers, Saving(m) PROVE Unheard'
    <2>1. PICK l \in Leads : There(l) /\ UNCHANGED <<told, stage>>
                             /\ \A k \in Leads \ {l} : notices'[k] = notices[k]
      BY <1>0, <1>2 DEF Saving
    <2> QED
      BY <2>1 DEF Unheard, There
  <1>3. ASSUME NEW m \in Managers, Taking(m) PROVE Unheard'
    <2>1. PICK l \in Leads : There(l) /\ UNCHANGED stage
                             /\ \A k \in Leads \ {l} : notices'[k] = notices[k] /\ told'[k] = told[k]
      BY <1>0, <1>3 DEF Taking
    <2> QED
      BY <2>1 DEF Unheard, There
  <1>4. CASE UNCHANGED <<stage, notices, told>>
    BY <1>4 DEF Unheard, There
  <1> QED
    BY <1>1, <1>2, <1>3, <1>4, Steps

LEMMA KeptStep == TypeInv /\ Unheard /\ TakenIsKept /\ [Next]_vars => TakenIsKept'
  <1> SUFFICES ASSUME TypeInv, Unheard, TakenIsKept, [Next]_vars PROVE TakenIsKept'
    OBVIOUS
  <1>0. /\ row \in [Leads -> Row] /\ told \in [Leads -> SUBSET Managers] /\ lost \in [Leads -> Nat]
        /\ None \notin Managers
    BY ManagersAssumption DEF TypeInv, TypeOK
  <1>1. ASSUME NEW l \in Leads, Creation(l) PROVE TakenIsKept'
    <2>1. \A k \in Leads : told[k] # {} => row'[k] = row[k]
      BY <1>0, <1>1 DEF Creation, Unheard
    <2> QED
      BY <1>1, <2>1 DEF Creation, TakenIsKept
  <1>2. ASSUME NEW m \in Managers, Saving(m) PROVE TakenIsKept'
    <2>1. PICK l \in Leads, r \in Row : Overwrites(l, Stamped(r, m)) /\ UNCHANGED told
      BY <1>2 DEF Saving
    <2>2. PICK s \in Row : s = Stamped(r, m)
      BY StampedRow
    <2>3. /\ \A k \in Leads \ {l} : row'[k] = row[k] /\ lost'[k] = lost[k]
          /\ row'[l] = s
          /\ lost'[l] = IF row[l].assignee \notin {None, s.assignee} THEN lost[l] + 1 ELSE lost[l]
      BY <1>0, <2>1, <2>2 DEF Overwrites
    <2>4. ASSUME lost'[l] = 0 PROVE told[l] \subseteq {s.assignee}
      <3>1. lost[l] = 0 /\ row[l].assignee \in {None, s.assignee}
        BY <1>0, <2>3, <2>4
      <3>2. told[l] \subseteq {row[l].assignee}
        BY <3>1 DEF TakenIsKept
      <3> QED
        BY <1>0, <3>1, <3>2
    <2>5. told' = told
      BY <2>1
    <2> QED
      BY <2>3, <2>4, <2>5 DEF TakenIsKept
  <1>3. ASSUME NEW m \in Managers, Taking(m) PROVE TakenIsKept'
    <2>1. PICK l \in Leads :
            /\ row[l].assignee \in {None, m}
            /\ row' = [row EXCEPT ![l].assignee = m, ![l].status = "in_progress"]
            /\ told' = [told EXCEPT ![l] = @ \cup {m}] /\ lost' = lost
      BY <1>3 DEF Taking, TakenByOther
    <2>2. lost[l] = 0 => told[l] \subseteq {m}
      BY <1>0, <2>1 DEF TakenIsKept
    <2>3. /\ row'[l].assignee = m /\ told'[l] = told[l] \cup {m}
          /\ \A k \in Leads \ {l} : row'[k] = row[k] /\ told'[k] = told[k]
      BY <1>0, <2>1 DEF Row
    <2> QED
      BY <2>1, <2>2, <2>3 DEF TakenIsKept
  <1>4. CASE UNCHANGED <<row, told, lost>>
    BY <1>4 DEF TakenIsKept
  <1> QED
    BY <1>1, <1>2, <1>3, <1>4, Steps

\* Who has been told that the lead is his has it until a row that was read before,
\* or the form, is saved over it: two managers who take a lead at once are not
\* both told so (take_lead_in_work).
THEOREM TakingKept == Spec => []TakenIsKept
  <1>1. Init => Unheard /\ TakenIsKept
    BY DEF Init, Unheard, TakenIsKept
  <1> QED
    BY <1>1, InitTyped, TypedStep, UnheardStep, KeptStep, PTL DEF Spec

LEMMA AnnouncedStep == TypeInv /\ Unheard /\ Announced /\ [Next]_vars => Announced'
  <1> SUFFICES ASSUME TypeInv, Unheard, Announced, [Next]_vars PROVE Announced'
    OBVIOUS
  <1>0. /\ row \in [Leads -> Row] /\ notices \in [Leads -> Nat] /\ freed \in [Leads -> Nat]
        /\ blind \in [Leads -> Nat] /\ None \notin Managers
    BY ManagersAssumption DEF TypeInv, TypeOK
  <1>1. ASSUME NEW l \in Leads, Creation(l) PROVE Announced'
    <2>1. UNCHANGED <<notices, freed, blind>>
      BY <1>1 DEF Creation
    <2>2. ASSUME NEW k \in Leads, row'[k].assignee = None PROVE notices[k] <= freed[k] + blind[k]
      <3>1. row'[k] = row[k] \/ notices[k] = 0
        BY <1>0, <1>1 DEF Creation, Unheard
      <3> QED
        BY <1>0, <2>2, <3>1 DEF Announced
    <2> QED
      BY <2>1, <2>2 DEF Announced
  <1>2. ASSUME NEW m \in Managers, Saving(m) PROVE Announced'
    <2>1. PICK l \in Leads, r \in Row :
            /\ Overwrites(l, Stamped(r, m))
            /\ \/ UNCHANGED <<notices, blind>>
               \/ /\ Stamped(r, m).assignee # None
                  /\ notices' = [notices EXCEPT ![l] = @ + 1]
                  /\ blind' = [blind EXCEPT ![l] = IF row[l].assignee # None THEN @ + 1 ELSE @]
      BY <1>2 DEF Saving
    <2>2. PICK s \in Row : s = Stamped(r, m)
      BY StampedRow
    <2>3. /\ \A k \in Leads \ {l} : /\ row'[k] = row[k] /\ freed'[k] = freed[k]
                                    /\ notices'[k] = notices[k] /\ blind'[k] = blind[k]
          /\ row'[l] = s
          /\ freed'[l] = IF row[l].assignee # None /\ s.assignee = None
                         THEN freed[l] + 1 ELSE freed[l]
          /\ \/ notices'[l] = notices[l] /\ blind'[l] = blind[l]
             \/ /\ s.assignee # None /\ notices'[l] = notices[l] + 1
                /\ blind'[l] = IF row[l].assignee # None THEN blind[l] + 1 ELSE blind[l]
      BY <1>0, <2>1, <2>2 DEF Overwrites
    <2>4. /\ notices[l] <= 1 + freed[l] + blind[l]
          /\ row[l].assignee = None => notices[l] <= freed[l] + blind[l]
          /\ notices[l] \in Nat /\ freed[l] \in Nat /\ blind[l] \in Nat
      BY <1>0 DEF Announced
    <2>5. /\ notices'[l] <= 1 + freed'[l] + blind'[l]
          /\ row'[l].assignee = None => notices'[l] <= freed'[l] + blind'[l]
      BY <2>3, <2>4
    <2> QED
      BY <2>3, <2>5 DEF Announced
  <1>3. ASSUME NEW m \in Managers, Taking(m) PROVE Announced'
    <2>1. PICK l \in Leads :
            /\ row' = [row EXCEPT ![l].assignee = m, ![l].status = "in_progress"]
            /\ notices' = [notices EXCEPT ![l] = IF WasFree(l) THEN @ + 1 ELSE @]
            /\ UNCHANGED <<freed, blind>>
      BY <1>3 DEF Taking
    <2>2. /\ \A k \in Leads \ {l} : row'[k] = row[k] /\ notices'[k] = notices[k]
          /\ row'[l].assignee = m
          /\ notices'[l] = IF row[l].assignee = None THEN notices[l] + 1 ELSE notices[l]
      BY <1>0, <2>1 DEF WasFree, Row
    <2>3. notices'[l] <= 1 + freed[l] + blind[l]
      BY <1>0, <2>2 DEF Announced
    <2> QED
      BY <1>0, <2>1, <2>2, <2>3 DEF Announced
  <1>4. CASE UNCHANGED <<row, notices, freed, blind>>
    BY <1>4 DEF Announced
  <1> QED
    BY <1>1, <1>2, <1>3, <1>4, Steps

\* Sales hear of a taking once: not more often than the lead was free, plus the
\* forms posted while somebody else took it (send_lead_taken_notice).
THEOREM TakingAnnouncedOnce == Spec => []TakingToldOnce
  <1>1. Init => Unheard /\ Announced
    BY DEF Init, Unheard, Announced
  <1>2. Announced => TakingToldOnce
    BY DEF Announced, TakingToldOnce
  <1> QED
    BY <1>1, <1>2, InitTyped, TypedStep, UnheardStep, AnnouncedStep, PTL DEF Spec

-----------------------------------------------------------------------------
(* One thread                                                              *)

\* A creation that has looked for its root holds the lock of the key, and a lead
\* with the key has begun to arrive.
KeyHeld ==
    \A l \in Leads : /\ stage[l] = "attached" => keyLock = l
                     /\ l \in keyed => stage[l] # "absent"

\* A lead that is done has been closed.
DoneIsClosed == \A l \in Leads : row[l].status = "done" => l \in closed

\* Of two requests that have looked for their root and found none, one did not see
\* the other because it was closed or had left the window.
Attached(l) == stage[l] \in {"attached", "there"}

Roots ==
    \A k, l \in keyed :
        k # l /\ Attached(k) /\ Attached(l) /\ root[k] = 0 /\ root[l] = 0
            => {k, l} \cap (closed \cup old) # {}

LEMMA KeyHeldStep == TypeInv /\ KeyHeld /\ [Next]_vars => KeyHeld'
  <1> SUFFICES ASSUME TypeInv, KeyHeld, [Next]_vars PROVE KeyHeld'
    OBVIOUS
  <1>0. /\ stage \in [Leads -> {"absent", "inserted", "attached", "there", "undone"}]
        /\ \A l \in Leads : l # 0
    BY LeadsAssumption DEF TypeInv, TypeOK, Leads
  <1>1. ASSUME NEW l \in Leads, Arrives(l) \/ Inserts(l) \/ Ages(l) PROVE KeyHeld'
    BY <1>0, <1>1 DEF Arrives, Inserts, Ages, KeyHeld
  <1>2. ASSUME NEW l \in Leads, Attaches(l) PROVE KeyHeld'
    BY <1>0, <1>2 DEF Attaches, KeyFree, KeyHeld
  <1>3. ASSUME NEW l \in Leads, Commits(l) \/ RollsBack(l) PROVE KeyHeld'
    BY <1>0, <1>3 DEF Commits, RollsBack, KeyHeld
  <1>4. ASSUME NEW m \in Managers,
               \/ \E l \in Leads : Takes(m, l) \/ ReadsOne(m, l) \/ FormOpens(m, l)
               \/ ReadsSome(m) \/ SavesRow(m) \/ FormPosts(m) \/ FormSaves(m) \/ Abandons(m)
        PROVE  UNCHANGED <<stage, keyLock, keyed>>
    BY <1>4 DEF Takes, ReadsOne, FormOpens, ReadsSome, SavesRow, FormPosts, FormSaves, Abandons
  <1>5. CASE UNCHANGED <<stage, keyLock, keyed>>
    BY <1>5 DEF KeyHeld
  <1> QED
    BY <1>1, <1>2, <1>3, <1>4, <1>5 DEF Next, vars

LEMMA DoneStep == TypeInv /\ DoneIsClosed /\ [Next]_vars => DoneIsClosed' /\ closed \subseteq closed'
  <1> SUFFICES ASSUME TypeInv, DoneIsClosed, [Next]_vars
               PROVE  DoneIsClosed' /\ closed \subseteq closed'
    OBVIOUS
  <1>0. row \in [Leads -> Row]
    BY DEF TypeInv, TypeOK
  <1>1. ASSUME NEW l \in Leads, Creation(l) PROVE DoneIsClosed' /\ closed \subseteq closed'
    BY <1>0, <1>1 DEF Creation, Fresh, DoneIsClosed
  <1>2. ASSUME NEW m \in Managers, Saving(m) PROVE DoneIsClosed' /\ closed \subseteq closed'
    <2>1. PICK l \in Leads, r \in Row : Overwrites(l, Stamped(r, m))
      BY <1>2 DEF Saving
    <2>2. PICK s \in Row : s = Stamped(r, m)
      BY StampedRow
    <2> QED
      BY <1>0, <2>1, <2>2 DEF Overwrites, DoneIsClosed
  <1>3. ASSUME NEW m \in Managers, Taking(m) PROVE DoneIsClosed' /\ closed \subseteq closed'
    BY <1>0, <1>3 DEF Taking, Row, DoneIsClosed
  <1>4. CASE UNCHANGED <<row, closed>>
    BY <1>4 DEF DoneIsClosed
  <1> QED
    BY <1>1, <1>2, <1>3, <1>4, Steps

LEMMA RootsStep == TypeInv /\ KeyHeld /\ DoneIsClosed /\ Roots /\ [Next]_vars => Roots'
  <1> SUFFICES ASSUME TypeInv, KeyHeld, DoneIsClosed, Roots, [Next]_vars PROVE Roots'
    OBVIOUS
  <1>0. /\ stage \in [Leads -> {"absent", "inserted", "attached", "there", "undone"}]
        /\ keyed \subseteq Leads /\ root \in [Leads -> 0..NumLeads]
    BY DEF TypeInv, TypeOK
  <1>1. closed \subseteq closed'
    BY DoneStep
  <1>2. ASSUME keyed' \subseteq keyed, old \subseteq old',
               \A k \in keyed' : (Attached(k)' => Attached(k)) /\ root'[k] = root[k]
        PROVE  Roots'
    BY <1>1, <1>2 DEF Roots
  <1>3. ASSUME NEW l \in Leads, Arrives(l) PROVE Roots'
    <2>1. l \notin keyed
      BY <1>3 DEF Arrives, NextToArrive, KeyHeld
    <2>2. \A k \in keyed : Attached(k)' => Attached(k)
      BY <1>0, <1>3, <2>1 DEF Arrives, Attached
    <2> QED
      BY <1>2, <1>3, <2>2 DEF Arrives
  <1>4. ASSUME NEW l \in Leads, Inserts(l) PROVE Roots'
    <2>1. ~Attached(l)' /\ \A k \in Leads \ {l} : stage'[k] = stage[k]
      BY <1>0, <1>4 DEF Inserts, Attached
    <2>2. \A k \in keyed' : Attached(k)' => k \in keyed /\ Attached(k) /\ root'[k] = root[k]
      BY <1>0, <1>4, <2>1 DEF Inserts, Attached
    <2> QED
      BY <1>1, <1>4, <2>2 DEF Inserts, Roots
  <1>5. ASSUME NEW l \in Leads, Attaches(l) PROVE Roots'
    <2>1. /\ \A k \in Leads \ {l} : stage'[k] = stage[k] /\ root'[k] = root[k]
          /\ root'[l] = OpenRoot(l) /\ UNCHANGED <<keyed, old>>
      BY <1>0, <1>5 DEF Attaches
    <2>2. \A k \in Leads : stage[k] # "attached"
      BY <1>5, LeadsAssumption DEF Attaches, KeyFree, KeyHeld, Leads
    <2>3. ASSUME NEW k \in keyed, k # l, Attached(k), root'[l] = 0
          PROVE  k \in closed \cup old
      <3>1. Candidates(l) = {}
        BY <2>1, <2>3, OpenRootTyped
      <3>2. There(k)
        BY <1>0, <2>2, <2>3 DEF Attached, There
      <3> QED
        BY <1>0, <2>3, <3>1, <3>2 DEF Candidates, Open, DoneIsClosed
    <2>4. \A k \in Leads \ {l} : Attached(k)' => Attached(k)
      BY <2>1 DEF Attached
    <2> QED
      BY <1>0, <1>1, <2>1, <2>3, <2>4 DEF Roots
  <1>6. ASSUME NEW l \in Leads, Commits(l) \/ RollsBack(l) PROVE Roots'
    <2>1. \A k \in Leads : Attached(k)' => Attached(k)
      BY <1>0, <1>6 DEF Commits, RollsBack, Attached
    <2>2. \A k \in keyed' : root'[k] = root[k]
      BY <1>0, <1>6 DEF Commits, RollsBack
    <2> QED
      BY <1>0, <1>2, <1>6, <2>1, <2>2 DEF Commits, RollsBack
  <1>7. ASSUME NEW l \in Leads, Ages(l) PROVE Roots'
    BY <1>2, <1>7 DEF Ages, Attached
  <1>8. ASSUME NEW m \in Managers,
               \/ \E l \in Leads : Takes(m, l) \/ ReadsOne(m, l) \/ FormOpens(m, l)
               \/ ReadsSome(m) \/ SavesRow(m) \/ FormPosts(m) \/ FormSaves(m) \/ Abandons(m)
        PROVE  UNCHANGED <<stage, keyed, root, old>>
    BY <1>8 DEF Takes, ReadsOne, FormOpens, ReadsSome, SavesRow, FormPosts, FormSaves, Abandons
  <1>9. CASE UNCHANGED <<stage, keyed, root, old>>
    BY <1>2, <1>9 DEF Attached
  <1> QED
    BY <1>3, <1>4, <1>5, <1>6, <1>7, <1>8, <1>9 DEF Next, vars

\* Two requests for quotation of one company and name become one thread, however
\* their transactions overlap: the advisory lock is held until the commit
\* (attach_rfq_bundle).
THEOREM OneThread == Spec => []OneRoot
  <1>1. Init => KeyHeld /\ DoneIsClosed /\ Roots
    BY DEF Init, Fresh, KeyHeld, DoneIsClosed, Roots
  <1>2. TypeInv /\ Roots => OneRoot
    BY DEF Roots, OneRoot, Attached, There
  <1> QED
    BY <1>1, <1>2, InitTyped, TypedStep, KeyHeldStep, DoneStep, RootsStep, PTL DEF Spec
=============================================================================
