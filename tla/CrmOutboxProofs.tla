--------------------------- MODULE CrmOutboxProofs ---------------------------
(***************************************************************************)
(* Theorems about CrmOutbox, for any number of deliveries and staff, any   *)
(* number of retries, requests, deaths and losses.                         *)
(***************************************************************************)
EXTENDS CrmOutbox, FiniteSetTheorems, TLAPS

\* A delivery that has read the row has a Message-ID to send.
Named ==
    \A d \in Deliveries :
        delivery[d].pc \notin {"free", "enqueued"} => delivery[d].id \in Deliveries

-----------------------------------------------------------------------------
(* Facts about the updates the actions share.                              *)

\* A counter of the history goes up and the others stay.
LEMMA CountsType ==
    ASSUME TypeOK,
           NEW field \in {"requests", "deaths", "lost", "resent", "restored",
                          "overlooked", "doubtful", "spoilt"},
           Counts(field)
    PROVE  tally' \in Tallies
  BY DEF TypeOK, Counts, Tallies

\* What a status written by staff adds to the history.
LEMMA WriteEffect ==
    ASSUME TypeOK, NEW status, NEW enqueued, CountsWritten(status, enqueued)
    PROVE  /\ tally' \in Tallies
           /\ tally'.resent = IF letter.status \notin Claimable /\ status \in Claimable
                              THEN tally.resent + 1 ELSE tally.resent
           /\ tally'.restored = IF letter.status # "sending" /\ status = "sending"
                                THEN tally.restored + 1 ELSE tally.restored
           /\ tally'.overlooked = IF letter.status # "queued" /\ status = "queued"
                                       /\ ~enqueued
                                  THEN tally.overlooked + 1 ELSE tally.overlooked
           /\ \A f \in {"deaths", "lost", "doubtful", "spoilt"} : tally'[f] = tally[f]
  <1> DEFINE resent == IF letter.status \notin Claimable /\ status \in Claimable
                       THEN tally.resent + 1 ELSE tally.resent
             restored == IF letter.status # "sending" /\ status = "sending"
                         THEN tally.restored + 1 ELSE tally.restored
             overlooked == IF letter.status # "queued" /\ status = "queued" /\ ~enqueued
                           THEN tally.overlooked + 1 ELSE tally.overlooked
  <1>1. tally' = [tally EXCEPT !.resent = resent, !.restored = restored,
                               !.overlooked = overlooked]
    BY DEF CountsWritten
  <1>2. resent \in Nat /\ restored \in Nat /\ overlooked \in Nat
    BY DEF TypeOK, Tallies
  <1>3. ASSUME NEW a \in Nat, NEW b \in Nat, NEW c \in Nat,
               tally' = [tally EXCEPT !.resent = a, !.restored = b, !.overlooked = c]
        PROVE  /\ tally' \in Tallies
               /\ tally'.resent = a /\ tally'.restored = b /\ tally'.overlooked = c
               /\ \A f \in {"deaths", "lost", "doubtful", "spoilt"} : tally'[f] = tally[f]
    BY <1>3 DEF TypeOK, Tallies
  <1> HIDE DEF resent, restored, overlooked
  <1>4. /\ tally' \in Tallies
        /\ tally'.resent = resent /\ tally'.restored = restored
        /\ tally'.overlooked = overlooked
        /\ \A f \in {"deaths", "lost", "doubtful", "spoilt"} : tally'[f] = tally[f]
    BY <1>1, <1>2, <1>3
  <1> QED
    BY <1>4 DEF resent, restored, overlooked

\* Moving a delivery to a new point of the task keeps the types.
LEMMA BecomesType ==
    ASSUME TypeOK, Named, NEW d \in Deliveries,
           delivery[d].id \in Deliveries,
           NEW pc \in {"loaded", "prepared", "broken"} \cup Claimed,
           Becomes(d, pc)
    PROVE  delivery' \in [Deliveries -> Slots] /\ Named'
  BY DEF TypeOK, Named, Becomes, Slots, Claimed, Holding

LEMMA EndsType ==
    ASSUME TypeOK, Named, NEW d \in Deliveries, Ends(d)
    PROVE  delivery' \in [Deliveries -> Slots] /\ Named'
  BY BoundAssumption DEF TypeOK, Named, Ends, Free, Slots, Claimed, Holding

LEMMA EnqueuesType ==
    ASSUME TypeOK, Named, Enqueues
    PROVE  delivery' \in [Deliveries -> Slots] /\ Named'
  BY BoundAssumption DEF TypeOK, Named, Enqueues, Enqueued, Slots, Claimed, Holding

-----------------------------------------------------------------------------
LEMMA InitTyped == Init => TypeOK /\ Named
  <1> SUFFICES ASSUME Init PROVE TypeOK /\ Named
    OBVIOUS
  <1>1. letter \in Letters /\ stamp \in {"absent", "recent", "old"}
    BY DEF Init, Letters, Statuses
  <1>2. delivery \in [Deliveries -> Slots] /\ Named
    BY BoundAssumption DEF Init, Slots, Claimed, Holding, Free, Enqueued, Named
  <1>3. page \in [Operators -> Pages] /\ sweep \in BOOLEAN
    BY DEF Init, NoPage, Pages, Statuses
  <1>4. mail \in Seq(Deliveries) /\ tally \in Tallies
    BY DEF Init, Tallies
  <1> QED
    BY <1>1, <1>2, <1>3, <1>4 DEF TypeOK

LEMMA SendTyped ==
    ASSUME TypeOK, Named, NEW d \in Deliveries, Send(d)
    PROVE  TypeOK' /\ Named'
  <1>0. delivery[d] \in Slots /\ letter.id \in Deliveries \cup {NoId}
    BY DEF TypeOK, Letters
  <1>1. CASE SendReturns(d) \/ SendSkips(d)
    BY <1>1, EndsType DEF SendReturns, SendSkips, TypeOK
  <1>2. CASE SendLoads(d)
    <2>1. delivery' = [delivery EXCEPT ![d].pc = "loaded",
                         ![d].id = IF letter.id = NoId THEN d ELSE letter.id]
      BY <1>2 DEF SendLoads
    <2>2. delivery' \in [Deliveries -> Slots] /\ Named'
      BY <1>0, <2>1 DEF TypeOK, Slots, Named
    <2> QED
      BY <1>2, <2>2 DEF SendLoads, TypeOK
  <1>3. CASE SendStoresId(d)
    <2>1. delivery[d].id \in Deliveries
      BY <1>3 DEF SendStoresId, Named
    <2>2. letter' \in Letters
      BY <1>3, <2>1 DEF SendStoresId, TypeOK, Letters
    <2> QED
      BY <1>3, <2>1, <2>2, BecomesType DEF SendStoresId, TypeOK
  <1>4. CASE SendBreaks(d)
    <2>1. delivery[d].id \in Deliveries
      BY <1>4 DEF SendBreaks, Named
    <2> QED
      BY <1>4, <2>1, BecomesType DEF SendBreaks, TypeOK
  <1>5. CASE SendClaims(d)
    <2>1. delivery[d].id \in Deliveries
      BY <1>5 DEF SendClaims, Named
    <2>2. letter' \in Letters
      BY <1>5 DEF SendClaims, TypeOK, Letters, Statuses
    <2> QED
      BY <1>5, <2>1, <2>2, BecomesType DEF SendClaims, TypeOK, Claimed, Holding
  <1>6. CASE SmtpAccepts(d)
    <2>1. delivery[d].id \in Deliveries
      BY <1>6 DEF SmtpAccepts, Named
    <2>2. mail' \in Seq(Deliveries)
      BY <1>6, <2>1 DEF SmtpAccepts, TypeOK
    <2> QED
      BY <1>6, <2>1, <2>2, BecomesType DEF SmtpAccepts, TypeOK, Claimed, Holding
  <1>7. CASE SmtpRefuses(d)
    <2>1. delivery[d].id \in Deliveries
      BY <1>7 DEF SmtpRefuses, Named
    <2> QED
      BY <1>7, <2>1, BecomesType DEF SmtpRefuses, TypeOK, Claimed, Holding
  <1>8. CASE SmtpDoubts(d)
    <2>1. delivery[d].id \in Deliveries
      BY <1>8 DEF SmtpDoubts, Named
    <2>2. mail' \in Seq(Deliveries)
      BY <1>8, <2>1 DEF SmtpDoubts, TypeOK
    <2>3. tally' \in Tallies
      BY <1>8, CountsType DEF SmtpDoubts
    <2> QED
      BY <1>8, <2>1, <2>2, <2>3, BecomesType DEF SmtpDoubts, TypeOK, Claimed, Holding
  <1>9. CASE MarksSent(d)
    <2>1. letter' \in Letters
      BY <1>9 DEF MarksSent, TypeOK, Letters, Statuses
    <2> QED
      BY <1>9, <2>1, EndsType DEF MarksSent, TypeOK
  <1>10. CASE MarksFailed(d)
    <2>1. delivery[d].id \in Deliveries
      BY <1>10 DEF MarksFailed, Named
    <2>2. letter' \in Letters
      BY <1>10 DEF MarksFailed, TypeOK, Letters, Statuses
    <2>3. tally' \in Tallies
      BY <1>10, CountsType DEF MarksFailed, TypeOK
    <2> QED
      BY <1>10, <2>1, <2>2, <2>3, BecomesType DEF MarksFailed, TypeOK, Claimed, Holding
  <1>11. CASE SendRetries(d)
    <2>1. delivery' = [delivery EXCEPT
                        ![d] = IF RetriesLeft(d) THEN Enqueued(@.retries + 1)
                                                 ELSE Free]
      BY <1>11 DEF SendRetries
    <2>2. delivery' \in [Deliveries -> Slots]
      BY <1>0, <2>1, BoundAssumption
         DEF TypeOK, Slots, RetriesLeft, Enqueued, Free
    <2>3. Named'
      BY <2>1 DEF TypeOK, Named, Enqueued, Free
    <2> QED
      BY <1>11, <2>2, <2>3 DEF SendRetries, TypeOK
  <1> QED
    BY <1>1, <1>2, <1>3, <1>4, <1>5, <1>6, <1>7, <1>8, <1>9, <1>10, <1>11
       DEF Send

LEMMA StaffTyped ==
    ASSUME TypeOK, Named, NEW o \in Operators, Staff(o)
    PROVE  TypeOK' /\ Named'
  <1>1. Leaves(o) => page' \in [Operators -> Pages]
    BY DEF Leaves, NoPage, Pages, Statuses, TypeOK
  <1>2. \A step \in {"update", "form"} :
            Asks(o, step) => page' \in [Operators -> Pages] /\ tally' \in Tallies
    <2> SUFFICES ASSUME NEW step \in {"update", "form"}, Asks(o, step)
                 PROVE  page' \in [Operators -> Pages] /\ tally' \in Tallies
      OBVIOUS
    <2>1. [step |-> step, seen |-> letter.status] \in Pages
      BY DEF Pages, TypeOK, Letters
    <2>2. page' \in [Operators -> Pages]
      BY <2>1 DEF Asks, TypeOK
    <2>3. tally' \in Tallies
      BY CountsType DEF Asks
    <2> QED
      BY <2>2, <2>3
  <1>3. \A status, enqueued : CountsWritten(status, enqueued) => tally' \in Tallies
    BY WriteEffect
  <1>4. UNCHANGED delivery => delivery' \in [Deliveries -> Slots] /\ Named'
    BY DEF TypeOK, Named
  <1>5. CASE QueueReads(o) \/ FormOpens(o)
    BY <1>5, <1>2, <1>4 DEF QueueReads, FormOpens, TypeOK
  <1>6. CASE QueueUpdates(o)
    <2>1. letter' \in Letters /\ page' \in [Operators -> Pages]
      BY <1>6 DEF QueueUpdates, TypeOK, Letters, Statuses, Pages
    <2> QED
      BY <1>6, <2>1, <1>3, <1>4 DEF QueueUpdates, TypeOK
  <1>7. CASE QueueSkips(o)
    BY <1>7, <1>1, <1>4 DEF QueueSkips, TypeOK
  <1>8. CASE QueueEnqueues(o)
    BY <1>8, <1>1, EnqueuesType DEF QueueEnqueues, TypeOK
  <1>9. CASE FormSaves(o)
    <2>1. page[o].seen \in Statuses
      BY DEF TypeOK, Pages
    <2>2. letter' \in Letters /\ tally' \in Tallies
      BY <1>9, <1>3, <2>1 DEF FormSaves, TypeOK, Letters, Statuses
    <2>3. stamp' \in {"absent", "recent", "old"}
      BY <1>9 DEF FormSaves, TypeOK
    <2>4. delivery' \in [Deliveries -> Slots] /\ Named'
      BY <1>9, <1>4, EnqueuesType DEF FormSaves
    <2> QED
      BY <1>9, <1>1, <2>2, <2>3, <2>4 DEF FormSaves, TypeOK
  <1>10. CASE FormChecks(o)
    <2>1. page' \in [Operators -> Pages]
      BY <1>10 DEF FormChecks, TypeOK, Pages
    <2> QED
      BY <1>10, <2>1, <1>4 DEF FormChecks, TypeOK
  <1> QED
    BY <1>5, <1>6, <1>7, <1>8, <1>9, <1>10 DEF Staff

LEMMA TypedStep ==
    ASSUME TypeOK, Named, [Next]_vars
    PROVE  TypeOK' /\ Named'
  <1>1. CASE \E d \in Deliveries : Send(d)
    BY <1>1, SendTyped
  <1>2. CASE Sweep
    <2>1. UNCHANGED delivery => Named'
      BY DEF Named
    <2> QED
      BY <1>2, <2>1, EnqueuesType
         DEF Sweep, SweepStamps, SweepSees, SweepRequeues, TypeOK
  <1>3. CASE \E o \in Operators : Staff(o)
    BY <1>3, StaffTyped
  <1>4. ASSUME NEW d \in Deliveries, WorkerDies(d)
        PROVE  TypeOK' /\ Named'
    <2>1. delivery[d] \in Slots
      BY DEF TypeOK
    <2>2. delivery' \in {[delivery EXCEPT ![d] = Free],
                         [delivery EXCEPT ![d] = Enqueued(@.retries)]}
      BY <1>4 DEF WorkerDies
    <2>3. delivery' \in [Deliveries -> Slots]
      BY <2>1, <2>2, BoundAssumption DEF TypeOK, Slots, Free, Enqueued
    <2>4. Named'
      BY <2>2 DEF TypeOK, Named, Free, Enqueued
    <2> QED
      BY <1>4, <2>3, <2>4, CountsType DEF WorkerDies, TypeOK
  <1>5. ASSUME NEW d \in Deliveries, BrokerLoses(d)
        PROVE  TypeOK' /\ Named'
    BY <1>5, EndsType, CountsType DEF BrokerLoses, TypeOK
  <1>6. CASE CacheLoses
    BY <1>6, CountsType DEF CacheLoses, TypeOK, Named
  <1>7. CASE StampAges \/ UNCHANGED vars
    BY <1>7 DEF StampAges, vars, TypeOK, Named
  <1> QED
    BY <1>1, <1>2, <1>3, <1>4, <1>5, <1>6, <1>7 DEF Next, Failure

\* The row, the deliveries, the pages and the histories keep their types, and
\* every copy that goes out has a Message-ID (EmailMessage, send_crm_email).
THEOREM OutboxTypeCorrect == Spec => []TypeOK
  <1>1. TypeOK /\ Named /\ [Next]_vars => TypeOK' /\ Named'
    BY TypedStep
  <1> QED
    BY InitTyped, <1>1, PTL DEF Spec
-----------------------------------------------------------------------------
(* SENDING is held.                                                        *)

LEMMA HeldStep ==
    ASSUME TypeOK, SendingIsHeld, [Next]_vars
    PROVE  SendingIsHeld'
  <1> SUFFICES ASSUME letter'.status = "sending", tally'.deaths = 0,
                      tally'.restored = 0
               PROVE  \E d \in Deliveries : delivery'[d].pc \in Holding
    BY DEF SendingIsHeld
  <1> DEFINE WasHeld == /\ letter.status = "sending"
                        /\ tally.deaths = 0
                        /\ tally.restored = 0
  \* What has to be shown of a step after which the letter is in SENDING.
  <1>0. ASSUME WasHeld,
               \A d \in Deliveries :
                   delivery[d].pc \in Holding => delivery'[d].pc \in Holding
        PROVE  \E d \in Deliveries : delivery'[d].pc \in Holding
    BY <1>0 DEF SendingIsHeld
  <1>1. ASSUME NEW d \in Deliveries, Send(d)
        PROVE  \E e \in Deliveries : delivery'[e].pc \in Holding
    <2>1. CASE SendClaims(d)
      <3>1. delivery'[d].pc = "claimed"
        BY <2>1 DEF SendClaims, Becomes, TypeOK, Slots
      <3> QED
        BY <3>1 DEF Holding
    <2>2. CASE MarksSent(d) \/ MarksFailed(d)
      BY <2>2 DEF MarksSent, MarksFailed, TypeOK, Letters
    <2>3. CASE SmtpAccepts(d) \/ SmtpRefuses(d) \/ SmtpDoubts(d)
      <3>1. delivery'[d].pc \in Holding
        BY <2>3 DEF SmtpAccepts, SmtpRefuses, SmtpDoubts, Becomes, Holding,
                    TypeOK, Slots
      <3> QED
        BY <3>1
    <2>4. CASE SendReturns(d) \/ SendLoads(d) \/ SendStoresId(d) \/ SendBreaks(d)
                 \/ SendSkips(d) \/ SendRetries(d)
      <3>1. letter'.status = letter.status /\ tally' = tally
        BY <2>4 DEF SendReturns, SendLoads, SendStoresId, SendBreaks, SendSkips,
                    SendRetries, TypeOK, Letters
      <3>2. delivery[d].pc \notin Holding
        BY <2>4 DEF SendReturns, SendLoads, SendStoresId, SendBreaks, SendSkips,
                    SendRetries, Holding
      <3>3. \A e \in Deliveries \ {d} : delivery'[e] = delivery[e]
        BY <2>4 DEF SendReturns, SendLoads, SendStoresId, SendBreaks, SendSkips,
                    SendRetries, Ends, Becomes, TypeOK
      <3> QED
        BY <1>0, <3>1, <3>2, <3>3
    <2> QED
      BY <1>1, <2>1, <2>2, <2>3, <2>4 DEF Send
  <1>2. Enqueues => \A d \in Deliveries :
            delivery[d].pc \in Holding => delivery'[d].pc \in Holding
    BY DEF Enqueues, Holding, TypeOK
  <1>3. CASE Sweep
    BY <1>0, <1>2, <1>3 DEF Sweep, SweepStamps, SweepSees, SweepRequeues
  <1>4. ASSUME NEW o \in Operators, Staff(o)
        PROVE  \E e \in Deliveries : delivery'[e].pc \in Holding
    <2>1. CASE QueueReads(o) \/ FormOpens(o)
      <3>1. tally'.deaths = tally.deaths /\ tally'.restored = tally.restored
        BY <2>1 DEF QueueReads, FormOpens, Asks, Counts, TypeOK, Tallies
      <3> QED
        BY <1>0, <2>1, <3>1 DEF QueueReads, FormOpens
    <2>2. CASE QueueUpdates(o)
      BY <2>2 DEF QueueUpdates, TypeOK, Letters
    <2>3. CASE QueueSkips(o) \/ QueueEnqueues(o)
      BY <1>0, <1>2, <2>3 DEF QueueSkips, QueueEnqueues
    <2>4. CASE FormSaves(o)
      <3>1. PICK status \in {page[o].seen, "queued"} :
              /\ letter' = [letter EXCEPT !.status = status]
              /\ CountsWritten(status, page[o].step = "save")
              /\ Enqueues \/ UNCHANGED delivery
        BY <2>4 DEF FormSaves
      <3>2. status = "sending"
        BY <3>1 DEF TypeOK, Letters
      <3>3. letter.status = "sending" /\ tally.restored = 0 /\ tally.deaths = 0
        <4>1. /\ tally'.restored = IF letter.status # "sending" THEN tally.restored + 1
                                   ELSE tally.restored
              /\ tally'.deaths = tally.deaths
          BY <3>1, <3>2, WriteEffect
        <4>2. tally.restored \in Nat
          BY DEF TypeOK, Tallies
        <4> QED
          BY <4>1, <4>2
      <3> QED
        BY <1>0, <1>2, <3>1, <3>3
    <2>5. CASE FormChecks(o)
      BY <1>0, <2>5 DEF FormChecks
    <2> QED
      BY <1>4, <2>1, <2>2, <2>3, <2>4, <2>5 DEF Staff
  <1>5. ASSUME NEW d \in Deliveries, WorkerDies(d)
        PROVE  FALSE
    <2>1. tally'.deaths = tally.deaths + 1 /\ tally.deaths \in Nat
      BY <1>5 DEF WorkerDies, Counts, TypeOK, Tallies
    <2> QED
      BY <2>1
  <1>6. ASSUME NEW d \in Deliveries, BrokerLoses(d)
        PROVE  \E e \in Deliveries : delivery'[e].pc \in Holding
    <2>1. tally'.deaths = tally.deaths /\ tally'.restored = tally.restored
      BY <1>6 DEF BrokerLoses, Counts, TypeOK, Tallies
    <2>2. \A e \in Deliveries :
            delivery[e].pc \in Holding => delivery'[e].pc \in Holding
      BY <1>6 DEF BrokerLoses, Ends, Holding, TypeOK
    <2> QED
      BY <1>0, <1>6, <2>1, <2>2 DEF BrokerLoses
  <1>7. CASE CacheLoses
    <2>1. tally'.deaths = tally.deaths /\ tally'.restored = tally.restored
      BY <1>7 DEF CacheLoses, Counts, TypeOK, Tallies
    <2> QED
      BY <1>0, <1>7, <2>1 DEF CacheLoses
  <1>8. CASE StampAges \/ UNCHANGED vars
    BY <1>0, <1>8 DEF StampAges, vars
  <1> QED
    BY <1>1, <1>3, <1>4, <1>5, <1>6, <1>7, <1>8 DEF Next, Failure

\* No error path of send_crm_email leaves the letter in SENDING: as long as no
\* worker dies and no form restores it, somebody is sending it.
THEOREM SendingHeld == Spec => []SendingIsHeld
  <1>1. Init => SendingIsHeld
    BY DEF Init, SendingIsHeld
  <1>2. TypeOK /\ SendingIsHeld /\ [Next]_vars => SendingIsHeld'
    BY HeldStep
  <1> QED
    BY OutboxTypeCorrect, <1>1, <1>2, PTL DEF Spec
-----------------------------------------------------------------------------
(* One copy.                                                               *)

\* Deliveries that may still bring a copy about: they have claimed the letter
\* and SMTP has not accepted it, or an error waits to make it claimable.
Owed == {d \in Deliveries : delivery[d].pc \in {"claimed", "failing"}}

\* The copy a claimable letter stands for.
Open(status) == IF status \in Claimable THEN 1 ELSE 0

Allowed == 1 + tally.resent + tally.doubtful + tally.spoilt

\* The strengthening of OneCopy: copies that went out, copies on their way and
\* the copy the status still allows are covered together.
Budget == Len(mail) + Cardinality(Owed) + Open(letter.status) <= Allowed

LEMMA OwedFinite ==
    /\ IsFiniteSet(Owed) /\ Cardinality(Owed) \in Nat
    /\ IsFiniteSet(Owed') /\ Cardinality(Owed') \in Nat
  <1>1. Owed \subseteq Deliveries /\ Owed' \subseteq Deliveries
    BY DEF Owed
  <1>2. IsFiniteSet(Owed) /\ IsFiniteSet(Owed')
    BY <1>1, DeliveriesAssumption, FS_Subset
  <1> QED
    BY <1>2, FS_CardinalityType

\* How a step of delivery d changes the owed copies.
LEMMA OwedOf ==
    ASSUME NEW d \in Deliveries,
           \A e \in Deliveries \ {d} : delivery'[e].pc = delivery[e].pc
    PROVE  IF delivery'[d].pc \in {"claimed", "failing"}
           THEN Owed' = Owed \cup {d} ELSE Owed' = Owed \ {d}
  BY DEF Owed

\* Arithmetic of a write that is counted.
LEMMA CountedWrite ==
    ASSUME NEW out \in Nat, NEW owed \in Nat, NEW before \in Nat,
           NEW after \in Nat, NEW old \in Nat, NEW new \in Nat,
           NEW doubtful \in Nat, NEW spoilt \in Nat,
           out + owed + before <= 1 + old + doubtful + spoilt,
           after + old <= before + new
    PROVE  out + owed + after <= 1 + new + doubtful + spoilt
  OBVIOUS

LEMMA BudgetStep ==
    ASSUME TypeOK, Budget, [Next]_vars
    PROVE  Budget'
  <1> USE OwedFinite
  <1>0. /\ Len(mail) \in Nat
        /\ tally.resent \in Nat /\ tally.doubtful \in Nat /\ tally.spoilt \in Nat
    BY DEF TypeOK, Tallies
  \* A step that leaves the owed copies and the status, and counts no less.
  <1>1. ASSUME Owed' = Owed, letter'.status = letter.status, mail' = mail,
               Allowed' = Allowed
        PROVE  Budget'
    BY <1>1 DEF Budget, Open
  <1>2. Enqueues => Owed' = Owed
    <2> SUFFICES ASSUME NEW d \in Deliveries, delivery[d].pc = "free",
                        delivery' = [delivery EXCEPT ![d] = Enqueued(0)]
                 PROVE  Owed' = Owed
      BY DEF Enqueues
    <2>1. \A e \in Deliveries : delivery'[e] = IF e = d THEN Enqueued(0)
                                                         ELSE delivery[e]
      BY DEF TypeOK
    <2> QED
      BY <2>1 DEF Owed, Enqueued
  <1>3. ASSUME NEW d \in Deliveries, Send(d)
        PROVE  Budget'
    <2> DEFINE Others == \A e \in Deliveries \ {d} : delivery'[e].pc = delivery[e].pc
    <2>0. /\ Cardinality(Owed \cup {d}) =
               IF d \in Owed THEN Cardinality(Owed) ELSE Cardinality(Owed) + 1
          /\ Cardinality(Owed \ {d}) =
               IF d \in Owed THEN Cardinality(Owed) - 1 ELSE Cardinality(Owed)
      BY FS_AddElement, FS_RemoveElement
    <2>1. CASE SendClaims(d)
      <3>1. Owed' = Owed \cup {d} /\ d \notin Owed
        BY <2>1, OwedOf DEF SendClaims, Becomes, TypeOK, Slots, Owed
      <3>2. Open(letter.status) = 1 /\ Open(letter'.status) = 0
        BY <2>1 DEF SendClaims, TypeOK, Letters, Open, Claimable
      <3>3. mail' = mail /\ Allowed' = Allowed
        BY <2>1 DEF SendClaims, Allowed
      <3> QED
        BY <1>0, <2>0, <3>1, <3>2, <3>3 DEF Budget, Allowed
    <2>2. CASE SmtpAccepts(d)
      <3>1. Owed' = Owed \ {d} /\ d \in Owed
        BY <2>2, OwedOf DEF SmtpAccepts, Becomes, TypeOK, Slots, Owed
      <3>2. Len(mail') = Len(mail) + 1
        BY <2>2 DEF SmtpAccepts, TypeOK
      <3>3. letter' = letter /\ Allowed' = Allowed
        BY <2>2 DEF SmtpAccepts, Allowed
      <3>4. Open(letter.status) \in {0, 1}
        BY DEF Open
      <3> QED
        BY <1>0, <2>0, <3>1, <3>2, <3>3, <3>4 DEF Budget, Allowed
    <2>3. CASE SmtpRefuses(d)
      <3>1. Owed' = Owed
        BY <2>3 DEF SmtpRefuses, Becomes, TypeOK, Slots, Owed
      <3> QED
        BY <1>1, <2>3, <3>1 DEF SmtpRefuses, Allowed
    <2>4. CASE SmtpDoubts(d)
      <3>1. Owed' = Owed
        BY <2>4 DEF SmtpDoubts, Becomes, TypeOK, Slots, Owed
      <3>2. Len(mail') = Len(mail) + 1 /\ letter' = letter
        BY <2>4 DEF SmtpDoubts, TypeOK
      <3>3. Allowed' = Allowed + 1
        BY <2>4, <1>0 DEF SmtpDoubts, Counts, TypeOK, Tallies, Allowed
      <3>4. Open(letter.status) \in {0, 1}
        BY DEF Open
      <3> QED
        BY <1>0, <3>1, <3>2, <3>3, <3>4 DEF Budget, Allowed
    <2>5. CASE MarksSent(d)
      <3>1. Owed' = Owed
        BY <2>5 DEF MarksSent, Ends, Free, TypeOK, Slots, Owed
      <3>2. Open(letter'.status) = 0 /\ Open(letter.status) \in {0, 1}
        BY <2>5 DEF MarksSent, TypeOK, Letters, Open, Claimable
      <3>3. mail' = mail /\ Allowed' = Allowed
        BY <2>5 DEF MarksSent, Allowed
      <3> QED
        BY <1>0, <3>1, <3>2, <3>3 DEF Budget, Allowed
    <2>6. CASE MarksFailed(d)
      <3>1. Owed' = Owed \ {d} /\ (d \in Owed <=> delivery[d].pc = "failing")
        BY <2>6, OwedOf DEF MarksFailed, Becomes, TypeOK, Slots, Owed
      <3>2. Open(letter'.status) = 1 /\ Open(letter.status) \in {0, 1}
        BY <2>6 DEF MarksFailed, TypeOK, Letters, Open, Claimable
      <3>3. mail' = mail
        BY <2>6 DEF MarksFailed
      <3>4. CASE delivery[d].pc = "broken" /\ letter.status \notin Claimable
        <4>1. Allowed' = Allowed + 1
          <5>1. Counts("spoilt")
            BY <2>6, <3>4 DEF MarksFailed
          <5> QED
            BY <5>1, <1>0 DEF Counts, TypeOK, Tallies, Allowed
        <4> QED
          BY <1>0, <2>0, <3>1, <3>2, <3>3, <3>4, <4>1 DEF Budget, Allowed
      <3>5. CASE ~(delivery[d].pc = "broken" /\ letter.status \notin Claimable)
        <4>1. Allowed' = Allowed
          BY <2>6, <3>5 DEF MarksFailed, Allowed
        <4>2. d \in Owed \/ Open(letter.status) = 1
          BY <2>6, <3>1, <3>5 DEF MarksFailed, Open
        <4>3. Cardinality(Owed') + 1 <= Cardinality(Owed) + Open(letter.status)
          BY <2>0, <3>1, <3>2, <4>2
        <4>4. Allowed \in Nat
          BY <1>0 DEF Allowed
        <4> HIDE DEF Allowed
        <4> QED
          BY <1>0, <3>2, <3>3, <4>1, <4>3, <4>4 DEF Budget
      <3> QED
        BY <3>4, <3>5
    <2>7. CASE SendReturns(d) \/ SendLoads(d) \/ SendStoresId(d) \/ SendBreaks(d)
                 \/ SendSkips(d) \/ SendRetries(d)
      <3>1. letter'.status = letter.status /\ mail' = mail /\ tally' = tally
        BY <2>7 DEF SendReturns, SendLoads, SendStoresId, SendBreaks, SendSkips,
                    SendRetries, TypeOK, Letters
      <3>2. d \notin Owed
        BY <2>7 DEF SendReturns, SendLoads, SendStoresId, SendBreaks, SendSkips,
                    SendRetries, Owed
      <3>3. Others
        BY <2>7 DEF SendReturns, SendLoads, SendStoresId, SendBreaks, SendSkips,
                    SendRetries, Ends, Becomes, TypeOK
      <3>4. delivery'[d].pc \notin {"claimed", "failing"}
        BY <2>7 DEF SendReturns, SendLoads, SendStoresId, SendBreaks, SendSkips,
                    SendRetries, Ends, Becomes, Free, Enqueued, TypeOK, Slots
      <3>5. Owed' = Owed
        BY <3>2, <3>3, <3>4, OwedOf
      <3> QED
        BY <1>1, <3>1, <3>5 DEF Allowed
    <2> QED
      BY <1>3, <2>1, <2>2, <2>3, <2>4, <2>5, <2>6, <2>7 DEF Send
  <1>4. UNCHANGED delivery => Owed' = Owed
    BY DEF Owed
  <1>5. CASE Sweep
    BY <1>1, <1>2, <1>4, <1>5
       DEF Sweep, SweepStamps, SweepSees, SweepRequeues, Allowed
  \* What staff write over the status is counted.
  <1>6. ASSUME NEW status \in Statuses, NEW enqueued, CountsWritten(status, enqueued),
               letter' = [letter EXCEPT !.status = status],
               mail' = mail, Owed' = Owed
        PROVE  Budget'
    <2> DEFINE resent == IF letter.status \notin Claimable /\ status \in Claimable
                         THEN tally.resent + 1 ELSE tally.resent
    <2>2. /\ tally'.resent = resent /\ tally'.doubtful = tally.doubtful
          /\ tally'.spoilt = tally.spoilt
      BY <1>6, WriteEffect
    <2>3. Open(letter'.status) + tally.resent <= Open(letter.status) + resent
      BY <1>0, <1>6 DEF Open, TypeOK, Letters
    <2>4. resent \in Nat /\ Open(letter.status) \in Nat /\ Open(letter'.status) \in Nat
      BY <1>0 DEF Open
    <2> HIDE DEF resent
    <2>5. Len(mail) + Cardinality(Owed) + Open(letter.status)
            <= 1 + tally.resent + tally.doubtful + tally.spoilt
      BY DEF Budget, Allowed
    <2>6. Len(mail) + Cardinality(Owed) + Open(letter'.status)
            <= 1 + resent + tally.doubtful + tally.spoilt
      BY <1>0, <2>3, <2>4, <2>5, CountedWrite, Zenon
    <2> QED
      BY <1>6, <2>2, <2>6 DEF Budget, Allowed
  <1>7. ASSUME NEW o \in Operators, Staff(o)
        PROVE  Budget'
    <2>1. CASE QueueReads(o) \/ FormOpens(o)
      <3>1. Allowed' = Allowed
        BY <2>1 DEF QueueReads, FormOpens, Asks, Counts, TypeOK, Tallies, Allowed
      <3> QED
        BY <1>1, <1>4, <2>1, <3>1 DEF QueueReads, FormOpens
    <2>2. CASE QueueUpdates(o)
      BY <1>4, <1>6, <2>2 DEF QueueUpdates, Statuses
    <2>3. CASE QueueSkips(o) \/ QueueEnqueues(o)
      BY <1>1, <1>2, <1>4, <2>3 DEF QueueSkips, QueueEnqueues, Allowed
    <2>4. CASE FormSaves(o)
      <3>1. page[o].seen \in Statuses /\ "queued" \in Statuses
        BY DEF TypeOK, Pages, Statuses
      <3> QED
        BY <1>2, <1>4, <1>6, <2>4, <3>1 DEF FormSaves
    <2>5. CASE FormChecks(o)
      BY <1>1, <1>4, <2>5 DEF FormChecks, Allowed
    <2> QED
      BY <1>7, <2>1, <2>2, <2>3, <2>4, <2>5 DEF Staff
  <1>8. ASSUME NEW d \in Deliveries, WorkerDies(d)
        PROVE  Budget'
    <2>1. Owed' \subseteq Owed
      BY <1>8 DEF WorkerDies, Free, Enqueued, TypeOK, Owed
    <2>2. Cardinality(Owed') <= Cardinality(Owed)
      BY <2>1, FS_Subset
    <2>3. Allowed' = Allowed
      BY <1>8 DEF WorkerDies, Counts, TypeOK, Tallies, Allowed
    <2>4. Open(letter.status) \in Nat
      BY DEF Open
    <2> QED
      BY <1>0, <1>8, <2>2, <2>3, <2>4 DEF WorkerDies, Budget, Allowed
  <1>9. ASSUME NEW d \in Deliveries, BrokerLoses(d)
        PROVE  Budget'
    <2>1. Owed' = Owed
      BY <1>9 DEF BrokerLoses, Ends, Free, TypeOK, Owed
    <2>2. Allowed' = Allowed
      BY <1>9 DEF BrokerLoses, Counts, TypeOK, Tallies, Allowed
    <2> QED
      BY <1>1, <1>9, <2>1, <2>2 DEF BrokerLoses
  <1>10. CASE CacheLoses
    <2>1. Allowed' = Allowed
      BY <1>10 DEF CacheLoses, Counts, TypeOK, Tallies, Allowed
    <2> QED
      BY <1>1, <1>4, <1>10, <2>1 DEF CacheLoses
  <1>11. CASE StampAges \/ UNCHANGED vars
    BY <1>1, <1>4, <1>11 DEF StampAges, vars, Allowed
  <1> QED
    BY <1>3, <1>5, <1>7, <1>8, <1>9, <1>10, <1>11 DEF Next, Failure

LEMMA InitBudget == Init => Budget
  <1> SUFFICES ASSUME Init PROVE Budget
    OBVIOUS
  <1>1. Owed = {}
    BY DEF Init, Owed, Free, Enqueued
  <1>2. Cardinality(Owed) = 0
    BY <1>1, FS_EmptySet
  <1>3. Len(mail) = 0 /\ Allowed = 1
    BY DEF Init, Allowed
  <1>4. Open(letter.status) = 1
    BY DEF Init, Open, Claimable
  <1> QED
    BY <1>2, <1>3, <1>4 DEF Budget

\* A letter goes out once, and each further copy has one of three causes, each
\* counted (claim_crm_email_send, mark_failed, queue_send, save_model).
THEOREM CopiesCovered == Spec => []OneCopy
  <1>1. TypeOK /\ Budget /\ [Next]_vars => Budget'
    BY BudgetStep
  <1>2. TypeOK /\ Budget => OneCopy
    <2> SUFFICES ASSUME TypeOK, Budget PROVE OneCopy
      OBVIOUS
    <2>1. /\ Len(mail) \in Nat /\ Cardinality(Owed) \in Nat
          /\ Open(letter.status) \in Nat
          /\ tally.resent \in Nat /\ tally.doubtful \in Nat /\ tally.spoilt \in Nat
      BY OwedFinite DEF TypeOK, Tallies, Open
    <2> QED
      BY <2>1 DEF Budget, Allowed, OneCopy
  <1> QED
    BY OutboxTypeCorrect, InitBudget, <1>1, <1>2, PTL DEF Spec

-----------------------------------------------------------------------------
(* A queued letter has its task.                                           *)

\* Nothing that befell the letter is unsaid.
LossesKept ==
    /\ tally.deaths > 0 => tally'.deaths > 0
    /\ tally.lost > 0 => tally'.lost > 0
    /\ tally.overlooked > 0 => tally'.overlooked > 0

\* Every delivery that carries the letter goes on, and so does everybody about to
\* enqueue it.
AllCarryOn ==
    /\ \A d \in Deliveries : Carries(d) => Carries(d)'
    /\ \A o \in Operators : page[o].step = "enqueue" => page'[o].step = "enqueue"

LEMMA CarriedOn ==
    ASSUME QueuedIsCarried, LossesKept, AllCarryOn, letter'.status = letter.status
    PROVE  QueuedIsCarried'
  BY DEF QueuedIsCarried, LossesKept, AllCarryOn

\* What is enqueued carries the letter, and nobody lays it down for that.
LEMMA EnqueuesCarry ==
    ASSUME TypeOK, Enqueues
    PROVE  /\ \E d \in Deliveries : Carries(d)'
           /\ \A d \in Deliveries : Carries(d) => Carries(d)'
  <1>1. PICK d \in Deliveries : /\ delivery[d].pc = "free"
                                /\ delivery' = [delivery EXCEPT ![d] = Enqueued(0)]
    BY DEF Enqueues
  <1>2. delivery'[d].pc = "enqueued" /\ \A e \in Deliveries \ {d} : delivery'[e] = delivery[e]
    BY <1>1 DEF TypeOK, Enqueued
  <1> QED
    BY <1>1, <1>2 DEF Carries

\* A step of a delivery: it goes on with the letter, or had laid it down before, or
\* the letter is no longer QUEUED when it lets go.
LEMMA SendCarries ==
    ASSUME TypeOK, QueuedIsCarried, NEW d \in Deliveries, Send(d)
    PROVE  QueuedIsCarried'
  <1>0. page' = page /\ LossesKept
    BY DEF Send, SendReturns, SendLoads, SendStoresId, SendBreaks, SendClaims, SendSkips,
           SmtpAccepts, SmtpRefuses, SmtpDoubts, MarksSent, MarksFailed, SendRetries,
           Counts, LossesKept, TypeOK, Tallies
  <1>1. \A e \in Deliveries \ {d} : delivery'[e] = delivery[e]
    BY DEF Send, SendReturns, SendLoads, SendStoresId, SendBreaks, SendClaims, SendSkips,
           SmtpAccepts, SmtpRefuses, SmtpDoubts, MarksSent, MarksFailed, SendRetries,
           Becomes, Ends, TypeOK
  <1>2. CASE SendLoads(d) \/ SendStoresId(d) \/ SendBreaks(d)
    <2>1. Carries(d)' /\ letter'.status = letter.status
      BY <1>2 DEF SendLoads, SendStoresId, SendBreaks, Becomes, Carries, TypeOK, Slots,
                  Letters
    <2> QED
      BY <1>0, <1>1, <2>1, CarriedOn DEF AllCarryOn, Carries
  <1>3. CASE SendReturns(d) \/ SendSkips(d)
    BY <1>3 DEF SendReturns, SendSkips, QueuedIsCarried, Claimable
  <1>4. CASE SendClaims(d) \/ MarksSent(d) \/ MarksFailed(d)
    <2>1. letter'.status \in {"sending", "sent", "failed"}
      BY <1>4 DEF SendClaims, MarksSent, MarksFailed, TypeOK, Letters
    <2> QED
      BY <2>1 DEF QueuedIsCarried
  <1>5. CASE SmtpAccepts(d) \/ SmtpRefuses(d) \/ SmtpDoubts(d) \/ SendRetries(d)
    <2>1. ~Carries(d) /\ letter' = letter
      BY <1>5 DEF SmtpAccepts, SmtpRefuses, SmtpDoubts, SendRetries, Carries
    <2> QED
      BY <1>0, <1>1, <2>1, CarriedOn DEF AllCarryOn, Carries
  <1> QED
    BY <1>2, <1>3, <1>4, <1>5 DEF Send

\* A step of staff: a status that becomes QUEUED is enqueued, or is about to be.
LEMMA StaffCarries ==
    ASSUME TypeOK, QueuedIsCarried, NEW o \in Operators, Staff(o)
    PROVE  QueuedIsCarried'
  <1>1. CASE QueueReads(o) \/ FormOpens(o)
    <2>1. LossesKept
      BY <1>1 DEF QueueReads, FormOpens, Asks, Counts, LossesKept, TypeOK, Tallies
    <2>2. page[o].step = "none" /\ \A q \in Operators \ {o} : page'[q] = page[q]
      BY <1>1 DEF QueueReads, FormOpens, Asks, NoPage, TypeOK
    <2> QED
      BY <1>1, <2>1, <2>2, CarriedOn DEF QueueReads, FormOpens, AllCarryOn, Carries
  <1>2. CASE QueueUpdates(o)
    <2>1. page'[o].step = "enqueue"
      BY <1>2 DEF QueueUpdates, TypeOK, Pages
    <2> QED
      BY <2>1 DEF QueuedIsCarried
  <1>3. CASE QueueSkips(o) \/ FormChecks(o)
    <2>1. /\ page[o].step # "enqueue" /\ \A q \in Operators \ {o} : page'[q] = page[q]
          /\ UNCHANGED <<letter, delivery, tally>>
      BY <1>3 DEF QueueSkips, FormChecks, Leaves, TypeOK
    <2> QED
      BY <2>1, CarriedOn DEF AllCarryOn, Carries, LossesKept
  <1>4. CASE QueueEnqueues(o)
    BY <1>4, EnqueuesCarry DEF QueueEnqueues, QueuedIsCarried
  <1>5. CASE FormSaves(o)
    <2>1. PICK status \in {page[o].seen, "queued"} :
            /\ letter' = [letter EXCEPT !.status = status]
            /\ CountsWritten(status, page[o].step = "save")
            /\ IF status = "queued" /\ page[o].step = "save"
               THEN stamp' = "recent" /\ Enqueues
               ELSE UNCHANGED <<stamp, delivery>>
      BY <1>5 DEF FormSaves
    <2>2. letter'.status = status
      BY <2>1 DEF TypeOK, Letters
    <2>3. CASE status # "queued"
      BY <2>2, <2>3 DEF QueuedIsCarried
    <2>4. CASE status = "queued" /\ page[o].step = "save"
      BY <2>1, <2>4, EnqueuesCarry DEF QueuedIsCarried
    <2>5. CASE status = "queued" /\ page[o].step # "save"
      <3>1. tally.overlooked \in Nat /\ tally.deaths \in Nat /\ tally.lost \in Nat
        BY DEF TypeOK, Tallies
      <3>2. /\ tally'.overlooked = IF letter.status # "queued" THEN tally.overlooked + 1
                                                              ELSE tally.overlooked
            /\ tally'.deaths = tally.deaths /\ tally'.lost = tally.lost
        BY <2>1, <2>5, WriteEffect
      <3>3. page[o].step # "enqueue" /\ \A q \in Operators \ {o} : page'[q] = page[q]
        BY <1>5 DEF FormSaves, Leaves, TypeOK
      <3>4. CASE letter.status # "queued"
        <4>1. tally'.overlooked > 0
          BY <3>1, <3>2, <3>4
        <4> QED
          BY <4>1 DEF QueuedIsCarried
      <3>5. CASE letter.status = "queued"
        <4>1. LossesKept /\ UNCHANGED delivery
          BY <2>1, <2>5, <3>2, <3>5 DEF LossesKept
        <4> QED
          BY <2>2, <2>5, <3>3, <3>5, <4>1, CarriedOn DEF AllCarryOn, Carries
      <3> QED
        BY <3>4, <3>5
    <2> QED
      BY <2>3, <2>4, <2>5
  <1> QED
    BY <1>1, <1>2, <1>3, <1>4, <1>5 DEF Staff

LEMMA CarriedStep ==
    ASSUME TypeOK, QueuedIsCarried, [Next]_vars
    PROVE  QueuedIsCarried'
  <1>0. tally.deaths \in Nat /\ tally.lost \in Nat
    BY DEF TypeOK, Tallies
  <1>1. CASE Sweep
    <2>1. UNCHANGED <<letter, page, tally>> /\ (Enqueues \/ UNCHANGED delivery)
      BY <1>1 DEF Sweep, SweepStamps, SweepSees, SweepRequeues
    <2> QED
      BY <2>1, EnqueuesCarry, CarriedOn DEF AllCarryOn, Carries, LossesKept
  <1>2. ASSUME NEW d \in Deliveries, WorkerDies(d) PROVE QueuedIsCarried'
    <2>1. tally'.deaths = tally.deaths + 1
      BY <1>2 DEF WorkerDies, Counts, TypeOK, Tallies
    <2> QED
      BY <1>0, <2>1 DEF QueuedIsCarried
  <1>3. ASSUME NEW d \in Deliveries, BrokerLoses(d) PROVE QueuedIsCarried'
    <2>1. tally'.lost = tally.lost + 1
      BY <1>3 DEF BrokerLoses, Counts, TypeOK, Tallies
    <2> QED
      BY <1>0, <2>1 DEF QueuedIsCarried
  <1>4. CASE CacheLoses
    <2>1. tally'.lost = tally.lost + 1
      BY <1>4 DEF CacheLoses, Counts, TypeOK, Tallies
    <2> QED
      BY <1>0, <2>1 DEF QueuedIsCarried
  <1>5. CASE StampAges \/ UNCHANGED vars
    BY <1>5, CarriedOn DEF StampAges, vars, AllCarryOn, Carries, LossesKept
  <1> QED
    BY <1>1, <1>2, <1>3, <1>4, <1>5, SendCarries, StaffCarries DEF Next, Failure

LEMMA InitCarried == Init => QueuedIsCarried
  <1> SUFFICES ASSUME Init, letter.status = "queued"
               PROVE  \E d \in Deliveries : Carries(d)
    BY DEF QueuedIsCarried
  <1>1. PICK d \in Deliveries : delivery[d] = Enqueued(0)
    BY DEF Init
  <1> QED
    BY <1>1 DEF Carries, Enqueued

\* A QUEUED letter has its task: the sweep is there for deaths, for losses and for the
\* letter that moved on under save_model, and for nothing else.
THEOREM QueuedHasItsTask == Spec => []QueuedIsCarried
  <1>1. TypeOK /\ QueuedIsCarried /\ [Next]_vars => QueuedIsCarried'
    BY CarriedStep
  <1> QED
    BY OutboxTypeCorrect, InitCarried, <1>1, PTL DEF Spec
=============================================================================
