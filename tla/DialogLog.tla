------------------------------ MODULE DialogLog ------------------------------
(***************************************************************************)
(* What a support conversation promises, with everything that makes it     *)
(* hard left out: no tasks, no workers, no clock, no failures.  It is a    *)
(* log that only grows, the side that leads the dialog, and the place in   *)
(* the log where the assistant handed the client over to people.           *)
(* SupportDialog implements it.                                            *)
(***************************************************************************)
EXTENDS Naturals, Sequences

VARIABLES
    log,      \* the messages, in order
    leader,   \* who answers the client: "bot" or "people"
    handoff   \* length of the log when the bot handed off, 0 if it did not

logVars == <<log, leader, handoff>>

ClientKinds == {"inbound", "continue"}

FromClient == {i \in DOMAIN log : log[i].kind \in ClientKinds}

\* The client's last message.
IsLatest(i) == i \in FromClient /\ \A j \in FromClient : j <= i

PeopleReplied == \E i \in DOMAIN log : i > handoff /\ log[i].kind = "reply"

EmailAsked == \E i \in DOMAIN log : log[i].kind = "busy"

Says(kind, ref) == log' = Append(log, [kind |-> kind, ref |-> ref])

Init == log = <<>> /\ leader = "bot" /\ handoff = 0

\* The client writes; a dialog that was over begins again with the bot.
ClientSays ==
    /\ \E kind \in ClientKinds : Says(kind, 0)
    /\ \/ UNCHANGED <<leader, handoff>>
       \/ leader' = "bot" /\ handoff' = 0

\* The bot answers the client's last message, and only where it leads.
BotAnswers ==
    /\ leader = "bot"
    /\ \E i \in FromClient : IsLatest(i) /\ Says("ai", i)
    /\ UNCHANGED <<leader, handoff>>

\* A client who waits for people is asked for an e-mail, once.
BotAsksEmail ==
    /\ handoff # 0
    /\ ~PeopleReplied
    /\ ~EmailAsked
    /\ Says("busy", 0)
    /\ UNCHANGED <<leader, handoff>>

\* A service line of the bot or of the house, or an internal note.
Remark ==
    /\ \E kind \in {"notice", "closed", "note"} : Says(kind, 0)
    /\ UNCHANGED <<leader, handoff>>

\* A reply makes people lead; the bot's handoff is not forgotten.
PeopleReply ==
    /\ Says("reply", 0)
    /\ leader' = "people"
    /\ UNCHANGED handoff

\* A reassignment: to somebody, and people lead; to nobody, and the bot may
\* lead again unless it handed the dialog off.
Reassign ==
    /\ Says("assigned", 0)
    /\ \/ leader' = "people"
       \/ handoff = 0 /\ leader' = "bot"
    /\ UNCHANGED handoff

\* Somebody takes the dialog, or the bot hands it off and marks the place.
PeopleLead ==
    /\ leader' = "people"
    /\ handoff' \in {handoff, Len(log)}
    /\ handoff' # handoff => handoff = 0
    /\ UNCHANGED log

\* The dialog goes back to the bot, which forgets the handoff.
BotLeads ==
    /\ leader' \in {leader, "bot"}
    /\ handoff' = 0
    /\ UNCHANGED log

Next ==
    \/ ClientSays \/ BotAnswers \/ BotAsksEmail \/ Remark
    \/ PeopleReply \/ Reassign \/ PeopleLead \/ BotLeads

Spec == Init /\ [][Next]_logVars
=============================================================================
