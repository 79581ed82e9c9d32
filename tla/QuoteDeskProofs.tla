--------------------------- MODULE QuoteDeskProofs ---------------------------
(***************************************************************************)
(* Theorems about QuoteDesk, for any number of members of staff, pages of  *)
(* the client, requests, answers and mishaps.                              *)
(***************************************************************************)
EXTENDS QuoteDesk, TLAPS

TallyType ==
    [requests : Nat, answers : Nat, mishaps : Nat, overlap : BOOLEAN,
     undone : Nat, byHand : Nat, unissued : BOOLEAN]

QuoteType == [status : Statuses, stamped : BOOLEAN, expired : BOOLEAN]

-----------------------------------------------------------------------------
(* Types, and who has the lock                                             *)

LEMMA IdlePage == Idle \in Page
  BY DEF Idle, Page, Statuses

LEMMA InitTyped == Init => TypeOK
  <1> SUFFICES ASSUME Init PROVE TypeOK
    OBVIOUS
  <1>1. tally \in TallyType
    BY DEF Init, TallyType
  <1>2. quote \in QuoteType /\ lead \in {"open", "done"} /\ written \in BOOLEAN
    BY DEF Init, QuoteType, Statuses
  <1>3. Idle.pc = "idle"
    BY DEF Idle
  <1> QED
    BY <1>1, <1>2, <1>3, IdlePage DEF Init, TypeOK, TallyType, QuoteType

LEMMA PageMoves ==
    ASSUME TypeOK, NEW m \in Staff, NEW pc \in {"moved", "create", "reuse"}
    PROVE  [page EXCEPT ![m].pc = pc] \in [Staff -> Page]
  <1>1. [page[m] EXCEPT !.pc = pc] \in Page
    BY DEF TypeOK, Page
  <1> QED
    BY <1>1 DEF TypeOK

\* What a request keeps once it has stamped the quotation.
LEMMA LeftPage ==
    ASSUME TypeOK, NEW m \in Staff, NEW pc \in {"stamped", "written"}
    PROVE  /\ Left(m, pc) \in Page /\ Left(m, pc).pc = pc
           /\ [page EXCEPT ![m] = Left(m, pc)] \in [Staff -> Page]
  <1>1. Left(m, pc) \in Page /\ Left(m, pc).pc = pc
    BY DEF TypeOK, Page, Left, Idle, Statuses
  <1> QED
    BY <1>1 DEF TypeOK

\* What a write of the status adds to the history.
LEMMA UndoesEffect ==
    ASSUME TypeOK, NEW to \in Statuses, NEW failed \in Nat, Undoes(to, failed)
    PROVE  /\ tally' \in TallyType
           /\ tally'.mishaps = tally.mishaps + failed
           /\ tally'.overlap = tally.overlap /\ tally'.byHand = tally.byHand
           /\ tally'.undone = IF quote.status = "accepted" /\ to # "accepted"
                              THEN tally.undone + 1 ELSE tally.undone
           /\ tally'.unissued <=> tally.unissued /\ to # "sent"
  <1> DEFINE n == IF quote.status = "accepted" /\ to # "accepted"
                  THEN tally.undone + 1 ELSE tally.undone
             b == tally.unissued /\ to # "sent"
             f == tally.mishaps + failed
  <1>1. n \in Nat /\ b \in BOOLEAN /\ f \in Nat /\ tally \in TallyType
    BY DEF TypeOK, TallyType
  <1>2. tally' = [tally EXCEPT !.undone = n, !.unissued = b, !.mishaps = f]
    BY <1>1 DEF Undoes, TallyType
  <1> HIDE DEF n, b, f
  <1>3. /\ tally' \in TallyType /\ tally'.undone = n /\ tally'.unissued = b
        /\ tally'.mishaps = f /\ tally'.overlap = tally.overlap
        /\ tally'.byHand = tally.byHand
    BY <1>1, <1>2 DEF TallyType
  <1> QED
    BY <1>3 DEF n, b, f

\* A form that commits writes what it wants, in one piece.
LEMMA CommitEffect ==
    ASSUME TypeOK, NEW m \in Staff, FormCommits(m)
    PROVE  /\ page[m].pc = "form" /\ rowLock = None /\ page' = [page EXCEPT ![m] = Idle]
           /\ UNCHANGED <<rowLock, tab, orders, agreed>>
           /\ quote' \in QuoteType /\ quote'.status = page[m].to
           /\ quote'.stamped <=> (page[m].stamped /\ ~Recalls(m)) \/ Issues(m)
           /\ written' \in BOOLEAN /\ lead' \in {"open", "done"}
           /\ \/ /\ written' <=> Issues(m) \/ (written /\ ~Recalls(m))
                 /\ Undoes(page[m].to, 0)
              \/ Undoes(page[m].to, 1)
  <1>1. page[m] \in Page
    BY DEF TypeOK
  <1>2. /\ quote' \in QuoteType /\ quote'.status = page[m].to
        /\ quote'.stamped <=> (page[m].stamped /\ ~Recalls(m)) \/ Issues(m)
    <2> DEFINE b == (page[m].stamped /\ ~Recalls(m)) \/ Issues(m)
    <2>1. PICK past \in {FALSE, quote.expired} :
            quote' = [status |-> page[m].to, expired |-> past, stamped |-> b]
      BY DEF FormCommits
    <2>2. b \in BOOLEAN /\ past \in BOOLEAN
      BY DEF TypeOK
    <2> HIDE DEF b
    <2>3. quote' \in QuoteType /\ quote'.status = page[m].to /\ quote'.stamped = b
      BY <1>1, <2>1, <2>2 DEF QuoteType, Page
    <2> QED
      BY <2>3 DEF b
  <1>3. /\ written' \in BOOLEAN
        /\ \/ /\ written' <=> Issues(m) \/ (written /\ ~Recalls(m))
              /\ Undoes(page[m].to, 0)
           \/ Undoes(page[m].to, 1)
    <2>1. CASE /\ written' = (Issues(m) \/ (written /\ ~Recalls(m)))
               /\ Undoes(page[m].to, 0)
      BY <2>1 DEF Issues, Recalls
    <2>2. CASE written' = FALSE /\ Undoes(page[m].to, 1)
      BY <2>2
    <2> QED
      BY <2>1, <2>2 DEF FormCommits
  <1>4. lead' \in {"open", "done"}
    BY DEF FormCommits, LeadAfter, TypeOK
  <1> QED
    BY <1>2, <1>3, <1>4 DEF FormCommits

\* A request of staff that begins.
LEMMA ReadsTyped ==
    ASSUME TypeOK, NEW m \in Staff, NEW pc \in {"board", "form"}, NEW to \in Statuses,
           Reads(m, pc, to), UNCHANGED <<quote, lead, rowLock, tab, orders, written, agreed>>
    PROVE  TypeOK'
  <1>1. [pc |-> pc, to |-> to, status |-> quote.status, stamped |-> quote.stamped,
         lead |-> lead] \in Page
    BY DEF TypeOK, Page
  <1>2. page' \in [Staff -> Page]
    BY <1>1 DEF Reads, TypeOK
  <1>3. tally' \in TallyType
    <2>1. PICK o \in BOOLEAN : tally' = [tally EXCEPT !.requests = @ + 1, !.overlap = o]
      BY Zenon DEF Reads
    <2>2. [tally EXCEPT !.requests = @ + 1] \in TallyType
      BY DEF TypeOK, TallyType
    <2>3. tally' = [[tally EXCEPT !.requests = @ + 1] EXCEPT !.overlap = o]
      BY <2>1 DEF TypeOK, TallyType
    <2> QED
      BY <2>2, <2>3 DEF TallyType
  <1>4. \A n \in Staff : page'[n].pc \in {"create", "reuse"} => rowLock' = n
    BY DEF Reads, TypeOK
  <1> QED
    BY <1>2, <1>3, <1>4 DEF TypeOK, TallyType

LEMMA AsksTyped ==
    ASSUME TypeOK, NEW m \in Staff, OrderAsks(m)
    PROVE  TypeOK'
  <1>1. [Idle EXCEPT !.pc = "order"] \in Page
    BY DEF Idle, Page, Statuses
  <1>2. page' \in [Staff -> Page] /\ page'[m].pc = "order"
    BY <1>1 DEF OrderAsks, TypeOK, Idle
  <1>3. tally' \in TallyType
    BY DEF OrderAsks, TypeOK, TallyType
  <1>4. \A n \in Staff : page'[n].pc \in {"create", "reuse"} => rowLock' = n
    BY <1>2 DEF OrderAsks, TypeOK
  <1> QED
    BY <1>2, <1>3, <1>4 DEF OrderAsks, TypeOK, TallyType

\* A request of staff that goes on or dies.
LEMMA ProgressTyped ==
    ASSUME TypeOK, NEW m \in Staff, Progress(m) \/ Dies(m)
    PROVE  TypeOK'
  <1>0. page[m] \in Page /\ Idle \in Page /\ Idle.pc = "idle"
    BY IdlePage DEF TypeOK, Idle
  <1>1. CASE BoardMoves(m)
    <2>1. tally' \in TallyType /\ quote' \in QuoteType
      <3>1. page[m].to \in Statuses /\ 0 \in Nat /\ tally \in TallyType
        BY <1>0 DEF Page, TypeOK, TallyType
      <3> QED
        BY <1>1, <3>1, UndoesEffect DEF BoardMoves, TypeOK, QuoteType
    <2>2. page' \in [Staff -> Page]
      BY <1>1, PageMoves DEF BoardMoves
    <2> QED
      BY <1>0, <1>1, <2>1, <2>2 DEF BoardMoves, TypeOK, TallyType, QuoteType
  <1>2. CASE BoardStamps(m)
    <2>1. quote' \in QuoteType
      <3>1. PICK b \in BOOLEAN : quote' = [quote EXCEPT !.stamped = b]
        <4>1. StampAfter(m) \in BOOLEAN
          BY DEF StampAfter
        <4> QED
          BY <1>2, <4>1 DEF BoardStamps
      <3> QED
        BY <3>1 DEF TypeOK, QuoteType
    <2>2. written' \in BOOLEAN
      BY <1>2 DEF BoardStamps
    <2>3. page' = [page EXCEPT ![m] = Left(m, "stamped")] \/ page' = [page EXCEPT ![m] = Idle]
      BY <1>2 DEF BoardStamps
    <2>4. page' \in [Staff -> Page]
      <3>1. CASE page' = [page EXCEPT ![m] = Left(m, "stamped")]
        BY <3>1, LeftPage
      <3>2. CASE page' = [page EXCEPT ![m] = Idle]
        BY <1>0, <3>2 DEF TypeOK
      <3> QED
        BY <2>3, <3>1, <3>2
    <2> QED
      BY <1>0, <1>2, <2>1, <2>2, <2>3, <2>4, LeftPage DEF BoardStamps, TypeOK, QuoteType
  <1>3. CASE BoardWrites(m)
    <2>1. page' \in [Staff -> Page]
      BY <1>3, LeftPage DEF BoardWrites
    <2> QED
      BY <1>0, <1>3, <2>1, LeftPage DEF BoardWrites, TypeOK
  <1>4. CASE PdfFails(m)
    <2>1. page' \in [Staff -> Page]
      BY <1>4, LeftPage DEF PdfFails
    <2>2. tally' \in TallyType
      BY <1>4 DEF PdfFails, Mishap, TypeOK, TallyType
    <2> QED
      BY <1>0, <1>4, <2>1, <2>2, LeftPage DEF PdfFails, TypeOK, TallyType
  <1>5. CASE BoardCloses(m)
    BY <1>0, <1>5 DEF BoardCloses, LeadAfter, TypeOK
  <1>6. CASE FormCommits(m)
    <2>1. page[m].to \in Statuses
      BY <1>0 DEF Page
    <2>2. tally' \in TallyType
      BY <1>6, <2>1, CommitEffect, UndoesEffect
    <2> QED
      BY <1>0, <1>6, <2>2, CommitEffect DEF TypeOK, TallyType, QuoteType
  <1>7. CASE OrderLocks(m)
    <2>1. page' = [page EXCEPT ![m].pc = "create"] \/ page' = [page EXCEPT ![m].pc = "reuse"]
      BY <1>7 DEF OrderLocks
    <2>2. page' \in [Staff -> Page]
      BY <2>1, PageMoves
    <2> QED
      BY <1>7, <2>1, <2>2, ActorsAssumption DEF OrderLocks, LockFree, TypeOK
  <1>8. CASE OrderCommits(m)
    <2>1. orders' \in Nat
      BY <1>8 DEF OrderCommits, TypeOK
    <2> QED
      BY <1>0, <1>8, <2>1, ActorsAssumption DEF OrderCommits, TypeOK
  <1>9. CASE Dies(m)
    <2>1. tally' \in TallyType
      BY <1>9 DEF Dies, Mishap, TypeOK, TallyType
    <2>2. \A n \in Staff : page'[n].pc \in {"create", "reuse"} => rowLock' = n
      BY <1>0, <1>9 DEF Dies, TypeOK
    <2>3. \A t \in Tabs : tab'[t] # "open" => rowLock' = t
      BY <1>9, ActorsAssumption DEF Dies, TypeOK
    <2> QED
      BY <1>0, <1>9, <2>1, <2>2, <2>3 DEF Dies, TypeOK, TallyType
  <1> QED
    BY <1>1, <1>2, <1>3, <1>4, <1>5, <1>6, <1>7, <1>8, <1>9 DEF Progress

LEMMA TypedStep == TypeOK /\ [Next]_vars => TypeOK'
  <1> SUFFICES ASSUME TypeOK, [Next]_vars PROVE TypeOK'
    OBVIOUS
  <1>1. ASSUME NEW m \in Staff, BoardReads(m) \/ FormReads(m) \/ OrderAsks(m)
        PROVE  TypeOK'
    BY <1>1, ReadsTyped, AsksTyped DEF BoardReads, FormReads, Statuses
  <1>2. ASSUME NEW t \in Tabs, AcceptLocks(t)
        PROVE  TypeOK'
    <2>1. tab' \in [Tabs -> {"open", "sent", "refused"}] /\ tally' \in TallyType
      BY <1>2 DEF AcceptLocks, TypeOK, TallyType
    <2> QED
      BY <1>2, <2>1, ActorsAssumption DEF AcceptLocks, LockFree, TypeOK, TallyType
  <1>3. ASSUME NEW t \in Tabs, AcceptCommits(t)
        PROVE  TypeOK'
    <2>1. quote' \in QuoteType /\ agreed' \in Nat
      BY <1>3 DEF AcceptCommits, TypeOK, QuoteType, Statuses
    <2> QED
      BY <1>3, <2>1, ActorsAssumption DEF AcceptCommits, TypeOK, QuoteType
  <1>4. CASE Expires
    BY <1>4 DEF Expires, TypeOK
  <1>5. CASE OrderTakenAway
    BY <1>5 DEF OrderTakenAway, TypeOK
  <1>6. CASE OrderByHand
    <2>1. tally' \in TallyType
      BY <1>6 DEF OrderByHand, TypeOK, TallyType
    <2> QED
      BY <1>6, <2>1 DEF OrderByHand, TypeOK, TallyType
  <1>7. CASE LeadMoved
    BY <1>7 DEF LeadMoved, TypeOK
  <1>8. CASE UNCHANGED vars
    BY <1>8 DEF vars, TypeOK
  <1> QED
    BY <1>1, <1>2, <1>3, <1>4, <1>5, <1>6, <1>7, <1>8, ProgressTyped DEF Next

\* The quotation, the requests and the histories have their types, and whoever
\* works under the lock of the row has it: an answer of the client (accept_quote)
\* and an order in the making (create_order_from_quote) exclude each other.
THEOREM QuoteTypeCorrect == Spec => []TypeOK
  BY InitTyped, TypedStep, PTL DEF Spec

-----------------------------------------------------------------------------
(* One agreement, one order                                                *)

\* While the quotation is ACCEPTED one agreement is not paid for by a write that
\* took it out of there; an answer that goes ahead has found it SENT, and nobody
\* writes the row before the answer does.
Agreements ==
    /\ \A t \in Tabs : tab[t] = "sent" => quote.status = "sent"
    /\ quote.status # "accepted" => agreed <= tally.undone
    /\ agreed <= 1 + tally.undone

\* Whoever makes an order has found none under the lock; the form of an order may
\* have added one since.
Orders ==
    /\ \A m \in Staff : page[m].pc = "create" => orders <= tally.byHand
    /\ orders <= 1 + tally.byHand

\* What Agreements depends on: a step that writes neither the status nor what
\* clients do keeps it.
LEMMA AgreementsFramed ==
    ASSUME TypeOK, Agreements, UNCHANGED <<tab, agreed>>,
           quote'.status = quote.status, tally'.undone = tally.undone
    PROVE  Agreements'
  BY DEF Agreements

\* A status that staff write, without the lock of an answer.
LEMMA StatusWritten ==
    ASSUME TypeOK, Agreements, UNCHANGED <<tab, agreed>>, rowLock = None,
           NEW to \in Statuses, NEW failed \in Nat, quote'.status = to, Undoes(to, failed)
    PROVE  Agreements'
  <1>1. \A t \in Tabs : tab[t] # "sent"
    BY ActorsAssumption DEF TypeOK
  <1>2. /\ agreed \in Nat /\ tally.undone \in Nat
        /\ tally'.undone = IF quote.status = "accepted" /\ to # "accepted"
                           THEN tally.undone + 1 ELSE tally.undone
    BY UndoesEffect DEF TypeOK
  <1> QED
    BY <1>1, <1>2 DEF Agreements

LEMMA AgreementsStep == TypeOK /\ Agreements /\ [Next]_vars => Agreements'
  <1> SUFFICES ASSUME TypeOK, Agreements, [Next]_vars PROVE Agreements'
    OBVIOUS
  <1>1. ASSUME NEW m \in Staff, BoardReads(m) \/ FormReads(m) \/ OrderAsks(m)
        PROVE  Agreements'
    <2>1. UNCHANGED <<tab, agreed, quote>> /\ tally'.undone = tally.undone
      BY <1>1 DEF BoardReads, FormReads, OrderAsks, Reads, TypeOK
    <2> QED
      BY <2>1, AgreementsFramed
  <1>2. ASSUME NEW m \in Staff, BoardMoves(m)
        PROVE  Agreements'
    <2>1. CASE page[m].status = page[m].to
      BY <1>2, <2>1, AgreementsFramed DEF BoardMoves
    <2>2. CASE page[m].status # page[m].to
      <3>1. page[m].to \in Statuses /\ quote'.status = page[m].to
        BY <1>2, <2>2 DEF BoardMoves, TypeOK, Page
      <3> QED
        BY <1>2, <2>2, <3>1, 0 \in Nat, StatusWritten DEF BoardMoves
    <2> QED
      BY <2>1, <2>2
  <1>3. ASSUME NEW m \in Staff, FormCommits(m)
        PROVE  Agreements'
    <2>1. page[m].to \in Statuses
      BY DEF TypeOK, Page
    <2>2. /\ quote'.status = page[m].to /\ rowLock = None /\ UNCHANGED <<tab, agreed>>
          /\ Undoes(page[m].to, 0) \/ Undoes(page[m].to, 1)
      BY <1>3, CommitEffect
    <2>3. 0 \in Nat /\ 1 \in Nat
      OBVIOUS
    <2> QED
      BY <2>1, <2>2, <2>3, StatusWritten
  <1>4. ASSUME NEW m \in Staff,
               \/ BoardStamps(m) \/ BoardWrites(m) \/ PdfFails(m) \/ BoardCloses(m)
               \/ OrderLocks(m) \/ OrderCommits(m) \/ Dies(m)
        PROVE  Agreements'
    <2>1. /\ UNCHANGED <<tab, agreed>> /\ quote'.status = quote.status
          /\ tally'.undone = tally.undone
      BY <1>4 DEF BoardStamps, BoardWrites, PdfFails, BoardCloses, OrderLocks, OrderCommits,
                  Dies, Mishap, TypeOK
    <2> QED
      BY <2>1, AgreementsFramed
  <1>5. ASSUME NEW t \in Tabs, AcceptLocks(t)
        PROVE  Agreements'
    <2>1. tally'.undone = tally.undone /\ UNCHANGED <<quote, agreed>>
      BY <1>5 DEF AcceptLocks, TypeOK
    <2>2. \A u \in Tabs : tab'[u] = "sent" => quote.status = "sent"
      BY <1>5 DEF AcceptLocks, TypeOK, Agreements
    <2> QED
      BY <2>1, <2>2 DEF Agreements
  <1>6. ASSUME NEW t \in Tabs, AcceptCommits(t)
        PROVE  Agreements'
    <2>1. \A u \in Tabs : tab'[u] # "sent"
      BY <1>6, ActorsAssumption DEF AcceptCommits, TypeOK
    <2>2. CASE tab[t] = "sent"
      BY <1>6, <2>1, <2>2 DEF AcceptCommits, TypeOK, Agreements
    <2>3. CASE tab[t] # "sent"
      BY <1>6, <2>1, <2>3 DEF AcceptCommits, TypeOK, Agreements
    <2> QED
      BY <2>2, <2>3
  <1>7. CASE Expires \/ OrderTakenAway \/ OrderByHand \/ LeadMoved
    <2>1. /\ UNCHANGED <<tab, agreed>> /\ quote'.status = quote.status
          /\ tally'.undone = tally.undone
      BY <1>7 DEF Expires, OrderTakenAway, OrderByHand, LeadMoved, TypeOK
    <2> QED
      BY <2>1, AgreementsFramed
  <1>8. CASE UNCHANGED vars
    BY <1>8 DEF vars, Agreements
  <1> QED
    BY <1>1, <1>2, <1>3, <1>4, <1>5, <1>6, <1>7, <1>8 DEF Next, Progress

\* A client who agrees twice moves the quotation to ACCEPTED once for each time
\* staff have taken it out of there (accept_quote): the lock of the row keeps the
\* status from changing between the look at it and the write.
THEOREM ClientAgreesOnce == Spec => []AgreedOnce
  <1>1. Init => Agreements
    BY DEF Init, Agreements
  <1>2. Agreements => AgreedOnce
    BY DEF Agreements, AgreedOnce
  <1> QED
    BY <1>1, <1>2, InitTyped, TypedStep, AgreementsStep, PTL DEF Spec

LEMMA OrdersStep == TypeOK /\ Orders /\ [Next]_vars /\ TypeOK' => Orders'
  <1> SUFFICES ASSUME TypeOK, Orders, [Next]_vars, TypeOK' PROVE Orders'
    OBVIOUS
  <1>0. orders \in Nat /\ tally.byHand \in Nat
    BY DEF TypeOK
  <1>1. ASSUME NEW m \in Staff, OrderLocks(m)
        PROVE  Orders'
    BY <1>0, <1>1 DEF OrderLocks, TypeOK, Orders
  <1>2. ASSUME NEW m \in Staff, OrderCommits(m)
        PROVE  Orders'
    <2>1. \A n \in Staff : page'[n].pc # "create"
      BY <1>2, ActorsAssumption DEF OrderCommits, TypeOK, Idle
    <2>2. tally' = tally /\ orders' <= 1 + tally.byHand
      BY <1>0, <1>2 DEF OrderCommits, TypeOK, Orders
    <2> QED
      BY <2>1, <2>2 DEF Orders
  <1>3. CASE OrderTakenAway
    BY <1>0, <1>3 DEF OrderTakenAway, TypeOK, Orders
  <1>4. CASE OrderByHand
    BY <1>0, <1>4 DEF OrderByHand, TypeOK, Orders
  <1>5. ASSUME UNCHANGED orders, tally'.byHand = tally.byHand,
               \A n \in Staff : page'[n].pc = "create" => page[n].pc = "create"
        PROVE  Orders'
    BY <1>5 DEF Orders
  <1>6. ASSUME NEW m \in Staff, BoardReads(m) \/ FormReads(m)
        PROVE  Orders'
    <2>1. PICK pc \in {"board", "form"}, to \in Statuses : Reads(m, pc, to)
      BY <1>6 DEF BoardReads, FormReads
    <2>2. \A n \in Staff : page'[n].pc = "create" => page[n].pc = "create"
      BY <2>1 DEF Reads, TypeOK
    <2>3. UNCHANGED orders
      BY <1>6 DEF BoardReads, FormReads
    <2>4. tally'.byHand = tally.byHand
      BY <2>1 DEF Reads, TypeOK
    <2> QED
      BY <1>5, <2>2, <2>3, <2>4
  <1>10. ASSUME NEW m \in Staff, OrderAsks(m)
         PROVE  Orders'
    <2>1. /\ UNCHANGED orders /\ tally'.byHand = tally.byHand
          /\ \A n \in Staff : page'[n].pc = "create" => page[n].pc = "create"
      BY <1>10 DEF OrderAsks, Idle, TypeOK
    <2> QED
      BY <1>5, <2>1
  <1>7. ASSUME NEW m \in Staff,
               \/ BoardMoves(m) \/ BoardStamps(m) \/ BoardWrites(m) \/ PdfFails(m)
               \/ BoardCloses(m) \/ FormCommits(m) \/ Dies(m)
        PROVE  Orders'
    <2>1. UNCHANGED orders /\ tally'.byHand = tally.byHand
      <3>1. CASE FormCommits(m)
        <4>1. page[m].to \in Statuses /\ 0 \in Nat /\ 1 \in Nat
          BY DEF TypeOK, Page
        <4> QED
          BY <3>1, <4>1, CommitEffect, UndoesEffect
      <3>2. CASE BoardMoves(m)
        <4>1. page[m].to \in Statuses /\ 0 \in Nat
          BY DEF TypeOK, Page
        <4> QED
          BY <3>2, <4>1, UndoesEffect DEF BoardMoves
      <3> QED
        BY <1>7, <3>1, <3>2 DEF BoardStamps, BoardWrites, PdfFails, BoardCloses, Dies, Mishap,
                                TypeOK
    <2>2. \/ page' = [page EXCEPT ![m] = Idle]
          \/ page' = [page EXCEPT ![m].pc = "moved"]
          \/ page' = [page EXCEPT ![m] = Left(m, "stamped")]
          \/ page' = [page EXCEPT ![m] = Left(m, "written")]
      BY <1>7 DEF BoardMoves, BoardStamps, BoardWrites, PdfFails, BoardCloses, FormCommits,
                  Dies
    <2>3. \A n \in Staff : page'[n].pc = "create" => page[n].pc = "create"
      <3>1. /\ Idle.pc # "create"
            /\ Left(m, "stamped").pc # "create" /\ Left(m, "written").pc # "create"
        BY LeftPage DEF Idle
      <3> QED
        BY <2>2, <3>1 DEF TypeOK, Page
    <2> QED
      BY <1>5, <2>1, <2>3
  <1>8. ASSUME NEW t \in Tabs, AcceptLocks(t) \/ AcceptCommits(t)
        PROVE  Orders'
    <2>1. CASE AcceptLocks(t)
      BY <1>5, <2>1 DEF AcceptLocks, TypeOK
    <2>2. CASE AcceptCommits(t)
      BY <1>5, <2>2 DEF AcceptCommits
    <2> QED
      BY <1>8, <2>1, <2>2
  <1>9. CASE Expires \/ LeadMoved \/ UNCHANGED vars
    BY <1>5, <1>9 DEF Expires, LeadMoved, vars
  <1> QED
    BY <1>1, <1>2, <1>3, <1>4, <1>6, <1>7, <1>8, <1>9, <1>10 DEF Next, Progress

\* A double click on the button makes one order; a second live one comes only from
\* the form of an order (create_order_from_quote).
THEOREM OrderedOnce == Spec => []OneLiveOrder
  <1>1. Init => Orders
    BY DEF Init, Idle, Orders
  <1>2. Orders => OneLiveOrder
    BY DEF Orders, OneLiveOrder
  <1> QED
    BY <1>1, <1>2, InitTyped, TypedStep, OrdersStep, PTL DEF Spec

-----------------------------------------------------------------------------
(* Moves                                                                   *)

\* A request wants what the row it read allows.
Legal ==
    \A m \in Staff : page[m].pc \in {"board", "form"} => Allowed(page[m].status, page[m].to)

LEMMA LegalStep == TypeOK /\ Legal /\ [Next]_vars => Legal'
  <1> SUFFICES ASSUME TypeOK, Legal, [Next]_vars PROVE Legal'
    OBVIOUS
  <1>1. ASSUME NEW m \in Staff, BoardReads(m) \/ FormReads(m) \/ OrderAsks(m)
        PROVE  Legal'
    <2>1. CASE BoardReads(m) \/ FormReads(m)
      <3>1. PICK pc \in {"board", "form"}, to \in Statuses :
              Reads(m, pc, to) /\ Allowed(quote.status, to)
        BY <2>1 DEF BoardReads, FormReads
      <3> QED
        BY <3>1 DEF Reads, TypeOK, Legal
    <2>2. CASE OrderAsks(m)
      BY <2>2 DEF OrderAsks, Idle, TypeOK, Legal
    <2> QED
      BY <1>1, <2>1, <2>2
  <1>2. ASSUME NEW m \in Staff, Progress(m) \/ Dies(m)
        PROVE  Legal'
    <2>1. Idle.pc = "idle"
      BY DEF Idle
    <2>2. /\ page' \in [Staff -> Page]
          /\ page'[m].pc \notin {"board", "form"}
          /\ \A n \in Staff \ {m} : page'[n] = page[n]
      <3>1. page' \in [Staff -> Page]
        BY <1>2, ProgressTyped DEF TypeOK
      <3>2. CASE \/ BoardMoves(m) \/ BoardStamps(m) \/ BoardWrites(m) \/ PdfFails(m)
                 \/ BoardCloses(m) \/ FormCommits(m) \/ Dies(m)
        BY <2>1, <3>1, <3>2, LeftPage
           DEF BoardMoves, BoardStamps, BoardWrites, PdfFails, BoardCloses, FormCommits, Dies,
               TypeOK, Page
      <3>3. CASE OrderLocks(m) \/ OrderCommits(m)
        BY <2>1, <3>1, <3>3 DEF OrderLocks, OrderCommits, TypeOK, Page
      <3> QED
        BY <1>2, <3>1, <3>2, <3>3 DEF Progress
    <2> QED
      BY <2>2 DEF Legal
  <1>3. CASE UNCHANGED page
    BY <1>3 DEF Legal
  <1>4. ASSUME NEW t \in Tabs, AcceptLocks(t) \/ AcceptCommits(t)
        PROVE  Legal'
    BY <1>3, <1>4 DEF AcceptLocks, AcceptCommits
  <1>5. CASE Expires \/ OrderTakenAway \/ OrderByHand \/ LeadMoved \/ UNCHANGED vars
    BY <1>3, <1>5 DEF Expires, OrderTakenAway, OrderByHand, LeadMoved, vars
  <1> QED
    BY <1>1, <1>2, <1>4, <1>5 DEF Next

\* What IssuedFirst says of a step.
Issuing ==
    (quote.status = "draft") # (quote'.status = "draft")
        => \/ {quote.status, quote'.status} = {"draft", "sent"}
           \/ \E m \in Staff : page[m].pc \in {"board", "form"} /\ page'[m] # page[m]
                               /\ page[m].status # quote.status

LEMMA IssuingStep == TypeOK /\ Legal /\ Agreements /\ [Next]_vars => Issuing
  <1> SUFFICES ASSUME TypeOK, Legal, Agreements, [Next]_vars PROVE Issuing
    OBVIOUS
  <1>1. CASE quote'.status = quote.status
    BY <1>1 DEF Issuing
  <1>2. ASSUME NEW m \in Staff, page[m].pc \in {"board", "form"},
               page'[m].pc \notin {"board", "form"}, quote'.status = page[m].to
        PROVE  Issuing
    <2>1. page[m].status \in Statuses /\ page[m].to \in Statuses /\ Allowed(page[m].status, page[m].to)
      BY <1>2 DEF TypeOK, Page, Legal
    <2>2. CASE page[m].status # quote.status
      BY <1>2, <2>2 DEF Issuing
    <2>3. CASE page[m].status = quote.status
      <3>1. (quote.status = "draft") # (quote'.status = "draft")
              => {quote.status, quote'.status} = {"draft", "sent"}
        BY <1>2, <2>1, <2>3 DEF Allowed, Transitions, Statuses
      <3> QED
        BY <3>1 DEF Issuing
    <2> QED
      BY <2>2, <2>3
  <1>3. ASSUME NEW m \in Staff, BoardMoves(m)
        PROVE  Issuing
    <2>1. page[m].pc = "board" /\ page'[m].pc = "moved"
      BY <1>3 DEF BoardMoves, TypeOK, Page
    <2>2. CASE page[m].status = page[m].to
      BY <1>1, <1>3, <2>2 DEF BoardMoves
    <2>3. CASE page[m].status # page[m].to
      <3>1. quote'.status = page[m].to
        BY <1>3, <2>3 DEF BoardMoves, TypeOK
      <3> QED
        BY <1>2, <2>1, <3>1
    <2> QED
      BY <2>2, <2>3
  <1>4. ASSUME NEW m \in Staff, FormCommits(m)
        PROVE  Issuing
    <2>1. page[m].pc = "form" /\ page'[m].pc = "idle" /\ quote'.status = page[m].to
      BY <1>4, CommitEffect DEF Idle, TypeOK
    <2> QED
      BY <1>2, <2>1
  <1>5. ASSUME NEW t \in Tabs, AcceptCommits(t)
        PROVE  Issuing
    BY <1>5 DEF AcceptCommits, TypeOK, Agreements, Issuing
  <1>6. ASSUME NEW t \in Tabs, AcceptLocks(t)
        PROVE  Issuing
    BY <1>1, <1>6 DEF AcceptLocks
  <1>7. ASSUME NEW m \in Staff,
               \/ BoardReads(m) \/ FormReads(m) \/ OrderAsks(m) \/ BoardStamps(m)
               \/ BoardWrites(m) \/ PdfFails(m) \/ BoardCloses(m) \/ OrderLocks(m)
               \/ OrderCommits(m) \/ Dies(m)
        PROVE  Issuing
    <2>1. quote'.status = quote.status
      BY <1>7 DEF BoardReads, FormReads, OrderAsks, BoardStamps, BoardWrites, PdfFails,
                  BoardCloses, OrderLocks, OrderCommits, Dies, TypeOK
    <2> QED
      BY <1>1, <2>1
  <1>8. CASE Expires \/ OrderTakenAway \/ OrderByHand \/ LeadMoved \/ UNCHANGED vars
    BY <1>1, <1>8 DEF Expires, OrderTakenAway, OrderByHand, LeadMoved, vars, TypeOK
  <1> QED
    BY <1>3, <1>4, <1>5, <1>6, <1>7, <1>8 DEF Next, Progress

\* An agreement or a refusal of the client is not made a draft, and a draft is
\* issued before it is anything else, but by a request whose row has changed since
\* it read it (transition_quote, Quote.clean).
THEOREM QuoteIssuedFirst == Spec => IssuedFirst
  <1>1. Init => Legal
    BY DEF Init, Idle, Legal
  <1>2. Init => Agreements
    BY DEF Init, Agreements
  <1>3. Spec => []TypeOK
    BY QuoteTypeCorrect
  <1>4. Spec => [](TypeOK /\ Legal /\ Agreements)
    BY <1>1, <1>2, <1>3, LegalStep, AgreementsStep, PTL DEF Spec
  <1> QED
    BY <1>4, IssuingStep, PTL DEF Spec, IssuedFirst, Issuing

-----------------------------------------------------------------------------
(* An issue adds up                                                        *)

Calm == ~tally.overlap /\ tally.mishaps = 0

\* m may write the row.
Writing(m) == page[m].pc \in {"board", "moved", "stamped", "written", "form"}

Settled ==
    /\ tally.unissued => quote.status \in {"accepted", "rejected"}
    /\ quote.stamped <=> quote.status # "draft" /\ ~tally.unissued
    /\ quote.stamped => written

\* Where a request that works alone has got to. The client may have agreed since
\* the row was read, which leaves it issued.
HalfWay(m) ==
    LET p == page[m] IN
    /\ p.pc \in {"board", "form"} =>
         /\ p.stamped <=> quote.stamped
         /\ quote.status = p.status \/ (p.status = "sent" /\ quote.status = "accepted")
         /\ p.status \in {"draft", "sent"} => ~tally.unissued
    /\ p.pc = "moved" =>
         /\ p.stamped <=> quote.stamped
         /\ p.to = "draft" <=> quote.status = "draft"
         /\ p.to \in {"draft", "sent"} => ~tally.unissued
         /\ p.to \in {"accepted", "rejected"} => (p.stamped <=> ~tally.unissued)
         /\ tally.unissued => quote.status \in {"accepted", "rejected"}
         /\ quote.stamped => written
    /\ p.pc = "stamped" => quote.stamped /\ quote.status # "draft" /\ ~tally.unissued

Ledger ==
    Calm =>
      /\ \A m, q \in Staff : Writing(m) /\ Writing(q) => m = q
      /\ \A m \in Staff : HalfWay(m)
      /\ (\A m \in Staff : page[m].pc \notin {"moved", "stamped"}) => Settled

\* A step that begins or ends no request of staff and keeps what HalfWay looks at.
LEMMA LedgerFramed ==
    ASSUME TypeOK, Ledger, UNCHANGED written,
           quote'.stamped = quote.stamped,
           \/ quote'.status = quote.status
           \/ quote.status = "sent" /\ quote'.status = "accepted",
           \A n \in Staff : \/ page'[n] = page[n]
                            \/ ~Writing(n) /\ page'[n].pc \in {"idle", "order", "create", "reuse"},
           tally'.overlap = tally.overlap, tally'.mishaps = tally.mishaps,
           tally'.unissued = tally.unissued
    PROVE  Ledger'
  <1> SUFFICES ASSUME Calm' PROVE Ledger'
    BY DEF Ledger
  <1>1. Calm
    BY DEF Calm
  <1>2. \A m, q \in Staff : Writing(m)' /\ Writing(q)' => m = q
    BY <1>1 DEF Ledger, Writing
  <1>3. \A m \in Staff : HalfWay(m)'
    BY <1>1 DEF Ledger, HalfWay
  <1>4. (\A m \in Staff : page'[m].pc \notin {"moved", "stamped"}) => Settled'
    BY <1>1 DEF Ledger, Settled, Writing
  <1> QED
    BY <1>2, <1>3, <1>4 DEF Ledger

\* A step of the one request that writes.
LEMMA LedgerWritten ==
    ASSUME TypeOK, Ledger, NEW m \in Staff, Writing(m),
           \A n \in Staff \ {m} : page'[n] = page[n],
           Calm => Calm',
           Calm' => Calm,
           Calm => HalfWay(m)',
           Calm => (page'[m].pc \notin {"moved", "stamped"} => Settled')
    PROVE  Ledger'
  <1> SUFFICES ASSUME Calm' PROVE Ledger'
    BY DEF Ledger
  <1>1. \A n \in Staff \ {m} : ~Writing(n) /\ page'[n] = page[n]
    BY DEF Ledger
  <1>2. \A n, q \in Staff : Writing(n)' /\ Writing(q)' => n = q
    BY <1>1 DEF Writing
  <1>3. \A n \in Staff : HalfWay(n)'
    BY <1>1 DEF Writing, HalfWay
  <1> QED
    BY <1>2, <1>3 DEF Ledger

\* A request of staff begins: if it may write, it is alone.
LEMMA LedgerReads ==
    ASSUME TypeOK, Ledger, NEW m \in Staff, NEW pc \in {"board", "form"},
           NEW to \in Statuses, Reads(m, pc, to), UNCHANGED <<quote, written>>
    PROVE  Ledger'
  <1>0. /\ page[m].pc = "idle"
        /\ page' = [page EXCEPT ![m] = [pc |-> pc, to |-> to, status |-> quote.status,
                                        stamped |-> quote.stamped, lead |-> lead]]
        /\ tally'.mishaps = tally.mishaps /\ tally'.unissued = tally.unissued
    BY DEF Reads, TypeOK
  <1>1. tally'.overlap <=> tally.overlap \/ ~Quiet
    <2> DEFINE o == tally.overlap \/ ~Quiet
    <2>1. tally' = [tally EXCEPT !.requests = @ + 1, !.overlap = o]
      BY DEF Reads
    <2> HIDE DEF o
    <2>2. tally'.overlap = o
      BY <2>1 DEF TypeOK
    <2> QED
      BY <2>2 DEF o
  <1> SUFFICES ASSUME Calm' PROVE Ledger'
    BY DEF Ledger
  <1>2. Calm /\ Quiet
    BY <1>0, <1>1 DEF Calm
  <1>3. page'[m].pc = pc /\ \A n \in Staff \ {m} : page'[n] = page[n]
    BY <1>0 DEF TypeOK
  <1>4. \A n \in Staff : page[n].pc \in {"idle", "order"}
    BY <1>2 DEF Quiet
  <1>5. Settled /\ Settled'
    BY <1>0, <1>2, <1>4 DEF Ledger, Settled
  <1>6. \A n \in Staff \ {m} : ~Writing(n)' /\ HalfWay(n)'
    BY <1>3, <1>4 DEF Writing, HalfWay
  <1>7. HalfWay(m)'
    <2>1. page'[m].stamped = quote.stamped /\ page'[m].status = quote.status
      BY <1>0 DEF TypeOK
    <2> QED
      BY <1>0, <1>3, <1>5, <2>1 DEF HalfWay, Settled
  <1> QED
    BY <1>5, <1>6, <1>7 DEF Ledger

\* The board: the move, the stamp, the letter and the lead, one after the other.
LEMMA LedgerBoard ==
    ASSUME TypeOK, Legal, Ledger, NEW m \in Staff,
           BoardMoves(m) \/ BoardStamps(m) \/ BoardWrites(m) \/ BoardCloses(m)
    PROVE  Ledger'
  <1>0. page[m] \in Page /\ Idle.pc = "idle"
    BY DEF TypeOK, Idle
  <1>1. CASE BoardMoves(m)
    <2>0. page[m].to \in Statuses /\ 0 \in Nat
      BY <1>0 DEF Page
    <2>1. /\ Writing(m) /\ tally'.overlap = tally.overlap /\ tally'.mishaps = tally.mishaps
          /\ page' = [page EXCEPT ![m].pc = "moved"]
          /\ quote'.stamped = quote.stamped /\ UNCHANGED written
      BY <1>1, <2>0, UndoesEffect DEF BoardMoves, TypeOK, Writing
    <2>2. /\ \A n \in Staff \ {m} : page'[n] = page[n]
          /\ page'[m].pc = "moved" /\ page'[m].to = page[m].to
          /\ page'[m].stamped = page[m].stamped
      BY <1>0, <2>1 DEF TypeOK, Page
    <2>3. \/ /\ page[m].status = page[m].to
             /\ quote'.status = quote.status /\ tally'.unissued = tally.unissued
          \/ /\ page[m].status # page[m].to
             /\ quote'.status = page[m].to
             /\ tally'.unissued <=> tally.unissued /\ page[m].to # "sent"
      BY <1>1, <2>0, UndoesEffect DEF BoardMoves, TypeOK
    <2>4. ASSUME Calm PROVE HalfWay(m)'
      <3>1. /\ page[m].stamped <=> quote.stamped
            /\ \/ quote.status = page[m].status
               \/ page[m].status = "sent" /\ quote.status = "accepted"
            /\ page[m].status \in {"draft", "sent"} => ~tally.unissued
        BY <1>1, <2>4 DEF BoardMoves, Ledger, HalfWay
      <3>2. Settled
        <4>1. \A n \in Staff : page[n].pc \notin {"moved", "stamped"}
          BY <1>1, <2>4 DEF BoardMoves, Ledger, Writing
        <4> QED
          BY <2>4, <4>1 DEF Ledger
      <3>3. /\ page[m].status \in Statuses /\ Allowed(page[m].status, page[m].to)
        BY <1>0, <1>1 DEF BoardMoves, Legal, Page
      <3>4. /\ page[m].to = "draft" => page[m].status \in {"draft", "sent"}
            /\ page[m].to \in {"accepted", "rejected"} => page[m].status # "draft"
        BY <2>0, <3>3 DEF Allowed, Transitions, Statuses
      <3>5. CASE page[m].status = page[m].to
        BY <2>0, <2>1, <2>2, <2>3, <3>1, <3>2, <3>5 DEF HalfWay, Settled, Statuses
      <3>6. CASE page[m].status # page[m].to
        BY <2>0, <2>1, <2>2, <2>3, <3>1, <3>2, <3>3, <3>4, <3>6 DEF HalfWay, Settled, Statuses
      <3> QED
        BY <3>5, <3>6
    <2> QED
      BY <2>1, <2>2, <2>4, LedgerWritten DEF Calm
  <1>2. CASE BoardStamps(m)
    <2>1. /\ Writing(m) /\ UNCHANGED tally /\ quote'.status = quote.status
          /\ (quote'.stamped <=> StampAfter(m))
          /\ (written' <=> (written /\ ~Issues(m) /\ ~Recalls(m)))
          /\ \A n \in Staff \ {m} : page'[n] = page[n]
          /\ page'[m].pc = IF Issues(m) THEN "stamped" ELSE "idle"
      BY <1>0, <1>2, LeftPage DEF BoardStamps, TypeOK, Writing, Page
    <2>2. ASSUME Calm
          PROVE  HalfWay(m)' /\ (page'[m].pc \notin {"moved", "stamped"} => Settled')
      <3>1. /\ page[m].stamped <=> quote.stamped
            /\ page[m].to = "draft" <=> quote.status = "draft"
            /\ page[m].to \in {"draft", "sent"} => ~tally.unissued
            /\ page[m].to \in {"accepted", "rejected"} => (page[m].stamped <=> ~tally.unissued)
            /\ tally.unissued => quote.status \in {"accepted", "rejected"}
            /\ quote.stamped => written
        BY <1>2, <2>2 DEF BoardStamps, Ledger, HalfWay
      <3>2. page[m].to \in Statuses
        BY <1>0 DEF Page
      <3> QED
        BY <2>1, <3>1, <3>2 DEF StampAfter, Issues, Recalls, HalfWay, Settled, Statuses
    <2> QED
      BY <2>1, <2>2, LedgerWritten DEF Calm
  <1>3. CASE BoardWrites(m)
    <2>1. /\ Writing(m) /\ UNCHANGED <<tally, quote>> /\ written'
          /\ \A n \in Staff \ {m} : page'[n] = page[n]
          /\ page'[m].pc = "written"
      BY <1>0, <1>3, LeftPage DEF BoardWrites, TypeOK, Writing, Page
    <2>2. Calm => HalfWay(m)' /\ Settled'
      BY <1>3, <2>1 DEF BoardWrites, Ledger, HalfWay, Settled
    <2> QED
      BY <2>1, <2>2, LedgerWritten DEF Calm
  <1>4. CASE BoardCloses(m)
    <2>1. /\ Writing(m) /\ UNCHANGED <<tally, quote, written>>
          /\ \A n \in Staff \ {m} : page'[n] = page[n]
          /\ page'[m].pc = "idle"
      BY <1>0, <1>4 DEF BoardCloses, TypeOK, Writing, Page
    <2>2. Calm => Settled
      BY <1>4 DEF BoardCloses, Ledger, Writing
    <2>3. Calm => HalfWay(m)' /\ Settled'
      BY <2>1, <2>2 DEF HalfWay, Settled
    <2> QED
      BY <2>1, <2>3, LedgerWritten DEF Calm
  <1> QED
    BY <1>1, <1>2, <1>3, <1>4

\* The form, in one transaction.
LEMMA LedgerForm ==
    ASSUME TypeOK, Legal, Ledger, NEW m \in Staff, FormCommits(m)
    PROVE  Ledger'
  <1>0. page[m] \in Page /\ Idle.pc = "idle"
    BY DEF TypeOK, Idle
  <1>1. /\ Writing(m) /\ \A n \in Staff \ {m} : page'[n] = page[n]
        /\ page'[m].pc = "idle"
    BY <1>0, CommitEffect DEF TypeOK, Writing
  <1>2. page[m].to \in Statuses /\ 0 \in Nat /\ 1 \in Nat /\ tally.mishaps \in Nat
    BY <1>0 DEF Page, TypeOK
  <1>3. CASE Undoes(page[m].to, 1)
    <2>1. tally'.mishaps # 0
      BY <1>2, <1>3, UndoesEffect
    <2> QED
      BY <2>1 DEF Ledger, Calm
  <1>4. CASE (written' <=> Issues(m) \/ (written /\ ~Recalls(m))) /\ Undoes(page[m].to, 0)
    <2>1. /\ tally'.overlap = tally.overlap /\ tally'.mishaps = tally.mishaps
          /\ tally'.unissued <=> tally.unissued /\ page[m].to # "sent"
      BY <1>2, <1>4, UndoesEffect
    <2>2. /\ quote'.status = page[m].to
          /\ quote'.stamped <=> (page[m].stamped /\ ~Recalls(m)) \/ Issues(m)
      BY CommitEffect
    <2>3. ASSUME Calm PROVE Settled'
      <3>1. /\ page[m].stamped <=> quote.stamped
            /\ \/ quote.status = page[m].status
               \/ page[m].status = "sent" /\ quote.status = "accepted"
            /\ page[m].status \in {"draft", "sent"} => ~tally.unissued
        BY <2>3, CommitEffect DEF Ledger, HalfWay
      <3>2. Settled
        <4>1. \A n \in Staff : page[n].pc \notin {"moved", "stamped"}
          BY <2>3, CommitEffect DEF Ledger, Writing
        <4> QED
          BY <2>3, <4>1 DEF Ledger
      <3>3. page[m].status \in Statuses /\ Allowed(page[m].status, page[m].to)
        BY <1>0, CommitEffect DEF Legal, Page
      <3>4. /\ page[m].to = "draft" => page[m].status \in {"draft", "sent"}
            /\ page[m].to \in {"accepted", "rejected"} => page[m].status # "draft"
        BY <1>2, <3>3 DEF Allowed, Transitions, Statuses
      <3> QED
        BY <1>2, <1>4, <2>1, <2>2, <3>1, <3>2, <3>3, <3>4 DEF Issues, Recalls, Settled, Statuses
    <2>4. Calm => HalfWay(m)'
      BY <1>1 DEF HalfWay
    <2> QED
      BY <1>1, <2>1, <2>3, <2>4, LedgerWritten DEF Calm
  <1> QED
    BY <1>3, <1>4, CommitEffect

LEMMA LedgerStep == TypeOK /\ Legal /\ Agreements /\ Ledger /\ [Next]_vars => Ledger'
  <1> SUFFICES ASSUME TypeOK, Legal, Agreements, Ledger, [Next]_vars PROVE Ledger'
    OBVIOUS
  <1>1. ASSUME NEW m \in Staff, BoardReads(m) \/ FormReads(m)
        PROVE  Ledger'
    BY <1>1, LedgerReads DEF BoardReads, FormReads
  <1>2. ASSUME NEW m \in Staff, PdfFails(m) \/ Dies(m)
        PROVE  Ledger'
    <2>1. tally'.mishaps # 0
      BY <1>2 DEF PdfFails, Dies, Mishap, TypeOK
    <2> QED
      BY <2>1 DEF Ledger, Calm
  <1>3. ASSUME NEW m \in Staff, OrderAsks(m) \/ OrderLocks(m) \/ OrderCommits(m)
        PROVE  Ledger'
    <2>1. /\ ~Writing(m) /\ page'[m].pc \in {"idle", "order", "create", "reuse"}
          /\ \A n \in Staff \ {m} : page'[n] = page[n]
          /\ UNCHANGED <<quote, written>>
          /\ quote'.stamped = quote.stamped /\ quote'.status = quote.status
          /\ tally'.overlap = tally.overlap /\ tally'.mishaps = tally.mishaps
          /\ tally'.unissued = tally.unissued
      <3>1. Idle.pc = "idle"
        BY DEF Idle
      <3>2. CASE OrderLocks(m)
        BY <3>2 DEF OrderLocks, TypeOK, Page, Writing
      <3>3. CASE OrderCommits(m)
        BY <3>1, <3>3 DEF OrderCommits, TypeOK, Writing
      <3>4. CASE OrderAsks(m)
        BY <3>4 DEF OrderAsks, Idle, TypeOK, Writing
      <3> QED
        BY <1>3, <3>2, <3>3, <3>4
    <2>2. \A n \in Staff : \/ page'[n] = page[n]
                           \/ /\ ~Writing(n)
                              /\ page'[n].pc \in {"idle", "order", "create", "reuse"}
      BY <2>1
    <2> QED
      BY <2>1, <2>2, LedgerFramed
  <1>4. ASSUME NEW t \in Tabs, AcceptLocks(t) \/ AcceptCommits(t)
        PROVE  Ledger'
    <2>1. /\ UNCHANGED <<page, written>> /\ quote'.stamped = quote.stamped
          /\ \/ quote'.status = quote.status
             \/ quote.status = "sent" /\ quote'.status = "accepted"
      BY <1>4 DEF AcceptLocks, AcceptCommits, TypeOK, Agreements
    <2>2. /\ tally'.overlap = tally.overlap /\ tally'.mishaps = tally.mishaps
          /\ tally'.unissued = tally.unissued
      BY <1>4 DEF AcceptLocks, AcceptCommits, TypeOK
    <2>3. \A n \in Staff : page'[n] = page[n]
      BY <2>1
    <2> QED
      BY <2>1, <2>2, <2>3, LedgerFramed
  <1>5. CASE Expires \/ OrderTakenAway \/ OrderByHand \/ LeadMoved \/ UNCHANGED vars
    <2>1. /\ UNCHANGED <<page, written>> /\ quote'.stamped = quote.stamped
          /\ quote'.status = quote.status
      BY <1>5 DEF Expires, OrderTakenAway, OrderByHand, LeadMoved, vars, TypeOK
    <2>2. /\ tally'.overlap = tally.overlap /\ tally'.mishaps = tally.mishaps
          /\ tally'.unissued = tally.unissued
      BY <1>5 DEF Expires, OrderTakenAway, OrderByHand, LeadMoved, vars, TypeOK
    <2>3. \A n \in Staff : page'[n] = page[n]
      BY <2>1
    <2> QED
      BY <2>1, <2>2, <2>3, LedgerFramed
  <1> QED
    BY <1>1, <1>2, <1>3, <1>4, <1>5, LedgerBoard, LedgerForm DEF Next, Progress

\* Between requests sent_at says whether the quotation is issued and the client
\* has been written to about this issue, however the client's answers fall among
\* the steps of the board (set_status_view, finalize_quote_status, accept_quote).
THEOREM IssuesAddUp == Spec => []IssueAddsUp
  <1>1. Init => Ledger
    <2> SUFFICES ASSUME Init PROVE Ledger
      OBVIOUS
    <2>1. \A m \in Staff : page[m].pc = "idle"
      BY DEF Init, Idle
    <2>2. PICK born \in Statuses, pdf \in BOOLEAN :
            /\ quote = [status |-> born, stamped |-> born = "sent", expired |-> FALSE]
            /\ written = (born = "sent" /\ pdf)
            /\ tally = [requests |-> 0, answers |-> 0, mishaps |-> IF pdf THEN 0 ELSE 1,
                        overlap |-> FALSE, undone |-> 0, byHand |-> 0,
                        unissued |-> born \in {"accepted", "rejected"}]
      BY Zenon DEF Init
    <2>3. Calm => Settled
      <3>1. tally.mishaps = IF pdf THEN 0 ELSE 1
        BY <2>2
      <3>2. tally.unissued <=> born \in {"accepted", "rejected"}
        BY <2>2
      <3>3. quote.status = born /\ (quote.stamped <=> born = "sent")
        BY <2>2
      <3> QED
        BY <2>2, <3>1, <3>2, <3>3 DEF Calm, Settled, Statuses
    <2> QED
      BY <2>1, <2>3 DEF Ledger, Writing, HalfWay
  <1>2. Init => Legal /\ Agreements
    BY DEF Init, Idle, Legal, Agreements
  <1>3. Ledger => IssueAddsUp
    BY DEF Ledger, Settled, IssueAddsUp, Quiet, Calm
  <1> QED
    BY <1>1, <1>2, <1>3, InitTyped, TypedStep, LegalStep, AgreementsStep, LedgerStep, PTL DEF Spec
=============================================================================
