------------------------------ MODULE MailLedger ------------------------------
(***************************************************************************)
(* What the import of mail promises, with everything that makes it hard    *)
(* left out: no runs, no lock, no tries, no crashes.  Mail comes into the  *)
(* mailboxes; a letter goes into the CRM whole (its row, the card of its   *)
(* sender, the lead of a sender who is new) or is passed over with a mark; *)
(* and a mailbox is ticked off only as far as every letter in it has been  *)
(* dealt with.  MailImport implements it.                                  *)
(***************************************************************************)
EXTENDS Naturals, Sequences

CONSTANTS Boxes, Letters, Senders, Sender, Named, Broken

VARIABLES
    inbox,    \* letters of each mailbox, in order
    cursor,   \* how far each mailbox has been ticked off
    clients,  \* senders with a card
    leads,    \* senders with a lead
    rows,     \* how many rows each letter has
    skipped   \* letters passed over, by mailbox and position

ledgerVars == <<inbox, cursor, clients, leads, rows, skipped>>

Init ==
    /\ inbox = [b \in Boxes |-> <<>>]
    /\ cursor = [b \in Boxes |-> 0]
    /\ clients = {} /\ leads = {}
    /\ rows = [l \in Letters |-> 0]
    /\ skipped = {}

Settled(b, uid) ==
    LET l == inbox[b][uid] IN rows[l] > 0 \/ l \in Broken \/ <<b, uid>> \in skipped

LetterComes(b) ==
    /\ \E l \in Letters : inbox' = [inbox EXCEPT ![b] = Append(@, l)]
    /\ UNCHANGED <<cursor, clients, leads, rows, skipped>>

\* Somebody else creates a card, with or without a lead.
CardComes(s) ==
    /\ s \notin clients
    /\ clients' = clients \cup {s}
    /\ leads' \in {leads, leads \cup {s}}
    /\ UNCHANGED <<inbox, cursor, rows, skipped>>

\* A letter goes into the CRM: one with a Message-ID once, and with a lead if,
\* and only if, its sender is new to the CRM.
LetterGoesIn(b, uid) ==
    LET l == inbox[b][uid]  s == Sender[l] IN
    /\ l \notin Broken
    /\ l \in Named => rows[l] = 0
    /\ rows' = [rows EXCEPT ![l] = @ + 1]
    /\ clients' = clients \cup {s}
    /\ leads' = IF s \in clients THEN leads ELSE leads \cup {s}
    /\ UNCHANGED <<inbox, cursor, skipped>>

\* A letter that is not stored is passed over, with a mark.
LetterSkipped(b, uid) ==
    /\ rows[inbox[b][uid]] = 0
    /\ skipped' = skipped \cup {<<b, uid>>}
    /\ UNCHANGED <<inbox, cursor, clients, leads, rows>>

\* A mailbox is ticked off up to n.
TickedOff(b, n) ==
    /\ \A uid \in 1..n : Settled(b, uid)
    /\ cursor' = [cursor EXCEPT ![b] = n]
    /\ UNCHANGED <<inbox, clients, leads, rows, skipped>>

Next ==
    \/ \E b \in Boxes : LetterComes(b)
    \/ \E s \in Senders : CardComes(s)
    \/ \E b \in Boxes : \E uid \in 1..Len(inbox[b]) :
           LetterGoesIn(b, uid) \/ LetterSkipped(b, uid)
    \/ \E b \in Boxes : \E n \in 0..Len(inbox[b]) : TickedOff(b, n)

Spec == Init /\ [][Next]_ledgerVars
=============================================================================
