------------------------- MODULE SupportDialogProofs -------------------------
(***************************************************************************)
(* What holds of a support conversation for any number of managers,        *)
(* workers and messages, and any durations the settings allow.             *)
(***************************************************************************)
EXTENDS SupportDialog, WellFoundedInduction, TLAPS

(***************************************************************************)
(* The tasks an operation enqueues are well typed.                         *)
(***************************************************************************)
LEMMA ReplyTaskType ==
    ASSUME NEW cause \in {"inbound", "takeover"}, NEW i \in Nat
    PROVE  ReplyTask(cause, i) \in Tasks
BY TimingAssumption, BoundAssumption DEF ReplyTask, Task, Tasks

LEMMA BusyTaskType ==
    ASSUME NEW wait \in 0..Horizon
    PROVE  BusyTask(wait) \in Tasks
BY TimingAssumption, BoundAssumption DEF BusyTask, Task, Tasks

LEMMA WatchdogType ==
    ASSUME NEW cause \in {"inbound", "escalation"}, NEW i \in Nat,
           NEW c, NEW since \in 0..Horizon
    PROVE  Watchdog(cause, i, TakeoverWait(c, since)) \in Tasks
<1>1. TakeoverWait(c, since) \in 0..Horizon
  BY TimingAssumption DEF TakeoverWait, Greater
<1>2. QED
  BY <1>1, TimingAssumption, BoundAssumption DEF Watchdog, Task, Tasks

LEMMA NoTaskType == NoTask \in Tasks /\ Idle.task = NoTask
BY TimingAssumption, BoundAssumption DEF NoTask, Task, Tasks, Idle

LEMMA TasksOfInboundType ==
    ASSUME TypeOK, NEW c, NEW i \in Nat
    PROVE  TasksOfInbound(c, i) \subseteq Tasks
<1>1. clock.sinceEscalation \in 0..Horizon
  BY DEF TypeOK, Timers
<1>2. BusyDelay \in 0..Horizon
  BY TimingAssumption
<1>3. QED
  BY <1>1, <1>2, ReplyTaskType, BusyTaskType, WatchdogType DEF TasksOfInbound

LEMMA TasksOfEscalationType ==
    ASSUME TypeOK, NEW c
    PROVE  TasksOfEscalation(c) \subseteq Tasks
<1>1. LatestInbounds \subseteq Nat
  BY DEF LatestInbounds, InboundIds, TypeOK
<1>2. BusyDelay \in 0..Horizon /\ 0 \in 0..Horizon
  BY TimingAssumption
<1>3. QED
  BY <1>1, <1>2, BusyTaskType, WatchdogType DEF TasksOfEscalation

(***************************************************************************)
(* Rows, lines and worker slots that the actions write keep their type.    *)
(***************************************************************************)
LEMMA RowTypes ==
    ASSUME NEW c \in Rows
    PROVE  Reopened(c) \in Rows /\ BotLeads(c) \in Rows
<1>1. 0 \in Turns /\ 0 \in Nat
  BY BoundAssumption DEF Turns
<1>2. BotLeads(c) \in Rows
  BY <1>1, Zenon DEF Rows, BotLeads, Assignees
<1>3. CASE c.status = "closed"
  <2>1. [c EXCEPT !.status = "open", !.aiActive = TRUE, !.escalatedAt = 0,
                  !.turns = 0, !.assignee = Nobody] \in Rows
    BY <1>1, Zenon DEF Rows, Assignees
  <2>2. QED
    BY <1>2, <1>3, <2>1 DEF Reopened
<1>4. CASE c.status # "closed"
  BY <1>2, <1>4 DEF Reopened
<1>5. QED
  BY <1>3, <1>4

LEMMA PostType ==
    ASSUME TypeOK, NEW line \in Lines, Post(line)
    PROVE  /\ log' \in Seq(Lines)
           /\ clock' \in [Timers -> 0..Horizon]
<1>1. log' \in Seq(Lines)
  BY DEF Post, TypeOK
<1>2. clock' \in [Timers -> 0..Horizon]
  <2>1. clock \in [Timers -> 0..Horizon] /\ clock' = [clock EXCEPT !.quiet = 0]
    BY DEF Post, TypeOK
  <2>2. QED
    BY <2>1, TimingAssumption DEF Timers
<1>3. QED
  BY <1>1, <1>2

LEMMA LineType == \A kind \in Kinds : Line(kind) \in Lines
BY DEF Line, Lines

LEMMA SlotTypes ==
    ASSUME TypeOK, NEW w \in Workers
    PROVE  /\ Finish(w) => worker' \in [Workers -> Slots]
           /\ \A pc \in {"generating", "resumed", "escalating"} :
                 Moves(w, pc) => worker' \in [Workers -> Slots]
           /\ \A t \in Tasks, c \in Rows :
                 Loads(w, t, c) => worker' \in [Workers -> Slots]
<1>1. Idle \in Slots
  BY NoTaskType, Zenon DEF Idle, Slots
<1>2. worker \in [Workers -> Slots]
  BY DEF TypeOK
<1>3. \A pc \in {"generating", "resumed", "escalating"} :
          [worker[w] EXCEPT !.pc = pc] \in Slots
  BY <1>2, Zenon DEF Slots
<1>4. \A t \in Tasks, c \in Rows :
          [pc |-> "loaded", task |-> t, eligible |-> Eligible(c),
           capped |-> c.turns >= MaxTurns, silent |-> FALSE] \in Slots
  <2>1. \A c \in Rows : Eligible(c) \in BOOLEAN
    BY DEF Eligible, Rows
  <2>2. \A c \in Rows : (c.turns >= MaxTurns) \in BOOLEAN
    BY BoundAssumption DEF Rows, Turns
  <2>3. QED
    BY <2>1, <2>2, Zenon DEF Slots
<1>5. QED
  BY <1>1, <1>2, <1>3, <1>4, Zenon DEF Finish, Moves, Loads

(***************************************************************************)
(* TypeOK is kept by every step: one lemma per group of actions.           *)
(***************************************************************************)
LEMMA ClientTypes ==
    ASSUME TypeOK, Client
    PROVE  TypeOK'
<1>1. conv \in Rows /\ log \in Seq(Lines) /\ queue \subseteq Tasks
  BY DEF TypeOK
<1>2. Reopened(conv) \in Rows
  BY <1>1, RowTypes
<1>3. ASSUME NEW kind \in InboundKinds, ClientWrites(kind)
      PROVE  TypeOK'
  <2>1. conv' \in Rows
    BY <1>2, <1>3, Zenon DEF ClientWrites, Rows
  <2>2. log' \in Seq(Lines)
    <3>1. Line(kind) \in Lines
      BY LineType DEF Kinds
    <3>2. QED
      BY <1>1, <1>3, <3>1 DEF ClientWrites
  <2>3. queue' \subseteq Tasks
    <3>1. Len(log) + 1 \in Nat
      BY <1>1
    <3>2. TasksOfInbound(Reopened(conv), Len(log) + 1) \subseteq Tasks
      BY <3>1, TasksOfInboundType
    <3>3. QED
      BY <1>1, <1>3, <3>2 DEF ClientWrites
  <2>4. clock' \in [Timers -> 0..Horizon]
    <3>1. /\ clock \in [Timers -> 0..Horizon]
          /\ clock' = [clock EXCEPT !.sincePrevious = clock.quiet,
                                    !.quiet = 0, !.sinceInbound = 0]
      BY <1>3 DEF ClientWrites, TypeOK
    <3>2. clock.quiet \in 0..Horizon /\ 0 \in 0..Horizon
      BY <3>1, TimingAssumption DEF Timers
    <3>3. QED
      BY <3>1, <3>2, Zenon DEF Timers
  <2>5. QED
    BY <2>1, <2>2, <2>3, <2>4, <1>3 DEF ClientWrites, TypeOK
<1>4. CASE ClientReturns
  BY <1>2, <1>4 DEF ClientReturns, TypeOK
<1>5. CASE ClientGivesEmail
  <2>1. conv' \in Rows
    BY <1>2, <1>5, Zenon DEF ClientGivesEmail, Rows
  <2>2. QED
    BY <2>1, <1>5 DEF ClientGivesEmail, TypeOK
<1>6. QED
  BY <1>3, <1>4, <1>5 DEF Client

LEMMA StaffTypes ==
    ASSUME TypeOK, Staff
    PROVE  TypeOK'
<1>1. conv \in Rows
  BY DEF TypeOK
<1>2. ASSUME NEW m \in Managers, StaffReply(m)
      PROVE  TypeOK'
  <2>1. conv' \in Rows
    BY <1>1, <1>2, Zenon DEF StaffReply, Rows, Assignees
  <2>2. Post(Line("reply")) /\ Line("reply") \in Lines
    BY <1>2, LineType DEF StaffReply, Kinds
  <2>3. QED
    BY <2>1, <2>2, PostType, <1>2 DEF StaffReply, TypeOK
<1>3. ASSUME NEW m \in Managers, TakeInApp(m)
      PROVE  TypeOK'
  <2>1. conv' \in Rows
    BY <1>1, <1>3, Zenon DEF TakeInApp, Rows, Assignees
  <2>2. QED
    BY <2>1, <1>3 DEF TakeInApp, TypeOK
<1>4. ASSUME NEW a \in Assignees, Assign(a)
      PROVE  TypeOK'
  <2>1. conv' \in Rows
    BY <1>1, <1>4, Zenon DEF Assign, Rows
  <2>2. Post(Line("assigned")) /\ Line("assigned") \in Lines
    BY <1>4, LineType DEF Assign, Kinds
  <2>3. QED
    BY <2>1, <2>2, PostType, <1>4 DEF Assign, TypeOK
<1>5. CASE StaffNote
  <2>1. conv' \in Rows
    BY <1>1, <1>5, Zenon DEF StaffNote, Rows
  <2>2. Post(Line("note")) /\ Line("note") \in Lines
    BY <1>5, LineType DEF StaffNote, Kinds
  <2>3. QED
    BY <2>1, <2>2, PostType, <1>5 DEF StaffNote, TypeOK
<1>6. CASE StaffCloses \/ MarkRead \/ AdminMarksRead
  <2>1. conv' \in Rows
    BY <1>1, <1>6, Zenon DEF StaffCloses, MarkRead, AdminMarksRead, Rows
  <2>2. QED
    BY <2>1, <1>6 DEF StaffCloses, MarkRead, AdminMarksRead, TypeOK
<1>7. CASE AdminOpens
  BY <1>7 DEF AdminOpens, TypeOK
<1>8. QED
  BY <1>2, <1>3, <1>4, <1>5, <1>6, <1>7 DEF Staff

LEMMA StartTypes ==
    ASSUME TypeOK, NEW w \in Workers,
           StartsReply(w) \/ StartsBusyFollowup(w) \/ StartsWatchdog(w)
    PROVE  TypeOK'
<1>1. conv \in Rows /\ queue \subseteq Tasks /\ worker \in [Workers -> Slots]
  BY DEF TypeOK
<1>2. \A t, job : Starts(w, t, job) => queue' \subseteq Tasks
  BY <1>1 DEF Starts
<1>3. Line("notice") \in Lines /\ Line("busy") \in Lines
  BY LineType DEF Kinds
<1>4. ASSUME NEW t \in queue, ReplyLoads(w, t)
      PROVE  TypeOK'
  <2>1. worker' \in [Workers -> Slots]
    BY <1>1, <1>4, SlotTypes DEF ReplyLoads
  <2>2. QED
    BY <1>2, <2>1, <1>4 DEF ReplyLoads, TypeOK
<1>5. ASSUME NEW t \in queue, ReplyContinues(w, t)
      PROVE  TypeOK'
  <2> DEFINE c == [conv EXCEPT !.aiActive = Escalated \/ @, !.escalatedAt = 0,
                               !.turns = 0]
  <2>1. 0 \in Turns /\ 0 \in Nat /\ (Escalated \/ conv.aiActive) \in BOOLEAN
    BY BoundAssumption DEF Turns
  <2>2. c \in Rows
    BY <1>1, <2>1, Zenon DEF Rows
  <2>3. conv' = c /\ Loads(w, t, c)
    BY <1>5 DEF ReplyContinues
  <2> HIDE DEF c
  <2>4. conv' \in Rows /\ worker' \in [Workers -> Slots]
    BY <1>1, <2>2, <2>3, SlotTypes
  <2>5. QED
    BY <1>2, <2>4, <1>5 DEF ReplyContinues, TypeOK
<1>6. ASSUME NEW t \in queue, ReplyDeclinesContinue(w, t)
      PROVE  TypeOK'
  <2>1. Post(Line("notice"))
    BY <1>6 DEF ReplyDeclinesContinue
  <2>2. QED
    BY <1>2, <1>3, <2>1, PostType, <1>6 DEF ReplyDeclinesContinue, TypeOK
<1>7. ASSUME NEW t \in queue, BusyFollowup(w, t)
      PROVE  TypeOK'
  <2>1. Post(Line("busy")) \/ UNCHANGED <<log, clock>>
    BY <1>7 DEF BusyFollowup
  <2>2. log' \in Seq(Lines) /\ clock' \in [Timers -> 0..Horizon]
    BY <1>3, <2>1, PostType DEF TypeOK
  <2>3. QED
    BY <1>2, <2>2, <1>7 DEF BusyFollowup, TypeOK
<1>8. ASSUME NEW t \in queue, WatchdogTakesOver(w, t)
      PROVE  TypeOK'
  <2>1. conv' \in Rows
    BY <1>1, <1>8, RowTypes DEF WatchdogTakesOver
  <2>2. t \in Tasks /\ Idle \in Slots
    BY <1>1, NoTaskType, Zenon DEF Idle, Slots
  <2>3. [Idle EXCEPT !.pc = "tookOver", !.task = t] \in Slots
    BY <2>2, Zenon DEF Slots
  <2>4. worker' \in [Workers -> Slots]
    BY <1>1, <2>3, <1>8, Zenon DEF WatchdogTakesOver
  <2>5. QED
    BY <1>2, <2>1, <2>4, <1>8 DEF WatchdogTakesOver, TypeOK
<1>9. ASSUME NEW t \in queue, WatchdogStandsDown(w, t)
      PROVE  TypeOK'
  BY <1>2, <1>9 DEF WatchdogStandsDown, TypeOK
<1>10. QED
  BY <1>4, <1>5, <1>6, <1>7, <1>8, <1>9
     DEF StartsReply, StartsBusyFollowup, StartsWatchdog

LEMMA ContinueTypes ==
    ASSUME TypeOK, NEW w \in Workers, ContinuesTask(w)
    PROVE  TypeOK'
<1>1. conv \in Rows /\ queue \subseteq Tasks /\ worker \in [Workers -> Slots]
  BY DEF TypeOK
<1>2. Line("notice") \in Lines
  BY LineType DEF Kinds
<1>3. worker[w] \in Slots
  BY <1>1
<1>4. worker[w].task \in Tasks
  BY <1>3 DEF Slots
<1>5. CASE ReplySuperseded(w) \/ ReplyDropped(w) \/ AlreadyEscalated(w)
  <2>1. worker' \in [Workers -> Slots]
    BY <1>5, SlotTypes DEF ReplySuperseded, ReplyDropped, AlreadyEscalated
  <2>2. QED
    BY <2>1, <1>5 DEF ReplySuperseded, ReplyDropped, AlreadyEscalated, TypeOK
<1>6. CASE ReplyCalls(w) \/ ReplyAsksResume(w)
  <2>1. CASE ReplyCalls(w)
    BY <2>1, SlotTypes DEF ReplyCalls, TypeOK
  <2>2. CASE ReplyAsksResume(w)
    <3>1. (clock.sincePrevious >= ResumeAfter) \in BOOLEAN
      BY TimingAssumption DEF TypeOK, Timers
    <3>2. worker' \in [Workers -> Slots]
      BY <1>1, <2>2, <3>1, Zenon DEF ReplyAsksResume, Slots
    <3>3. QED
      BY <2>2, <3>2 DEF ReplyAsksResume, TypeOK
  <2>3. QED
    BY <1>6, <2>1, <2>2
<1>7. CASE ReplyResumes(w)
  <2>1. worker' \in [Workers -> Slots]
    BY <1>7, SlotTypes DEF ReplyResumes
  <2>2. BotLeads(conv) \in Rows /\ 0 \in Turns
    BY <1>1, RowTypes, BoundAssumption DEF Turns
  <2>3. [BotLeads(conv) EXCEPT !.turns = 0] \in Rows
    BY <2>2, Zenon DEF Rows
  <2>4. QED
    BY <2>1, <2>3, <1>7 DEF ReplyResumes, TypeOK
<1>8. CASE ReplyLeavesToStaff(w)
  <2>1. worker' \in [Workers -> Slots]
    BY <1>8, SlotTypes DEF ReplyLeavesToStaff
  <2>2. Post(Line("notice")) \/ UNCHANGED <<log, clock>>
    BY <1>8 DEF ReplyLeavesToStaff
  <2>3. log' \in Seq(Lines) /\ clock' \in [Timers -> 0..Horizon]
    BY <1>2, <2>2, PostType DEF TypeOK
  <2>4. QED
    BY <2>1, <2>3, <1>8 DEF ReplyLeavesToStaff, TypeOK
<1>9. CASE ReplyAnnouncesResume(w)
  <2>1. (conv.turns >= MaxTurns) \in BOOLEAN
    BY <1>1, BoundAssumption DEF Rows, Turns
  <2>2. worker' \in [Workers -> Slots]
    BY <1>1, <1>9, <2>1, Zenon DEF ReplyAnnouncesResume, Slots
  <2>3. Post(Line("notice"))
    BY <1>9 DEF ReplyAnnouncesResume
  <2>4. QED
    BY <1>2, <2>2, <2>3, PostType, <1>9 DEF ReplyAnnouncesResume, TypeOK
<1>10. ASSUME NEW handoff \in BOOLEAN, ReplyAnswers(w, handoff)
       PROVE  TypeOK'
  <2> DEFINE line == [kind |-> "ai", ref |-> worker[w].task.inbound]
  <2>1. line \in Lines
    BY <1>4 DEF Tasks, Lines, Kinds
  <2>2. Post(line)
    BY <1>10 DEF ReplyAnswers
  <2>3. conv.turns \in Turns
    BY <1>1 DEF Rows
  <2>4. (IF conv.turns < MaxTurns THEN conv.turns + 1 ELSE conv.turns) \in Turns
    BY <2>3, BoundAssumption DEF Turns
  <2>5. conv' = [conv EXCEPT !.turns = IF conv.turns < MaxTurns
                                       THEN conv.turns + 1 ELSE conv.turns]
    BY <1>10, Zenon DEF ReplyAnswers
  <2>6. conv' \in Rows
    BY <1>1, <2>4, <2>5, Zenon DEF Rows
  <2>7. worker' \in [Workers -> Slots]
    BY <1>10, SlotTypes DEF ReplyAnswers
  <2> HIDE DEF line
  <2>8. log' \in Seq(Lines) /\ clock' \in [Timers -> 0..Horizon]
    BY <2>1, <2>2, PostType
  <2>9. QED
    BY <2>6, <2>7, <2>8, <1>10 DEF ReplyAnswers, TypeOK
<1>11. CASE ReplyRetries(w)
  <2>1. worker' \in [Workers -> Slots]
    BY <1>11, SlotTypes DEF ReplyRetries
  <2>2. worker[w].task.retries + 1 \in 0..MaxRetries
    BY <1>4, <1>11, BoundAssumption DEF ReplyRetries, RetriesLeft, Tasks
  <2>3. Retry(worker[w].task) \subseteq Tasks
    BY <1>4, <2>2, Zenon DEF Retry, Tasks
  <2>4. QED
    BY <1>1, <2>1, <2>3, <1>11 DEF ReplyRetries, TypeOK
<1>12. CASE ReplyGivesUp(w)
  <2>1. worker' \in [Workers -> Slots] /\ Post(Line("notice"))
    BY <1>12, SlotTypes DEF ReplyGivesUp
  <2>2. QED
    BY <1>2, <2>1, PostType, <1>12 DEF ReplyGivesUp, TypeOK
<1>13. CASE Escalate(w)
  <2>1. worker' \in [Workers -> Slots]
    BY <1>13, SlotTypes DEF Escalate
  <2>2. Len(log) \in Nat
    BY DEF TypeOK
  <2>3. conv' = [conv EXCEPT !.aiActive = FALSE, !.escalatedAt = Len(log),
                             !.unread = TRUE]
    BY <1>13, Zenon DEF Escalate
  <2>4. conv' \in Rows
    BY <1>1, <2>2, <2>3, Zenon DEF Rows
  <2>5. queue' \subseteq Tasks
    BY <1>1, <1>13, TasksOfEscalationType, Zenon DEF Escalate
  <2>6. clock \in [Timers -> 0..Horizon]
        /\ clock' = [clock EXCEPT !.sinceEscalation = 0]
    BY <1>13 DEF Escalate, TypeOK
  <2>7. clock' \in [Timers -> 0..Horizon]
    BY <2>6, TimingAssumption DEF Timers
  <2>8. QED
    BY <2>1, <2>4, <2>5, <2>7, <1>13 DEF Escalate, TypeOK
<1>14. CASE WatchdogAnnounces(w)
  <2>1. worker' \in [Workers -> Slots] /\ Post(Line("notice"))
    BY <1>14, SlotTypes DEF WatchdogAnnounces
  <2>2. LatestInbounds \subseteq Nat
    BY DEF LatestInbounds, InboundIds, TypeOK
  <2>3. queue' \subseteq Tasks
    BY <1>1, <1>14, <2>2, ReplyTaskType DEF WatchdogAnnounces
  <2>4. QED
    BY <1>2, <2>1, <2>3, PostType, <1>14 DEF WatchdogAnnounces, TypeOK
<1>15. QED
  BY <1>5, <1>6, <1>7, <1>8, <1>9, <1>10, <1>11, <1>12, <1>13, <1>14
     DEF ContinuesTask

LEMMA SystemTypes ==
    ASSUME TypeOK, Housekeeping \/ Failure \/ Tick
    PROVE  TypeOK'
<1>1. conv \in Rows /\ queue \subseteq Tasks
  BY DEF TypeOK
<1>2. CASE HousekeepingRescues
  <2>1. BusyTask(0) \in Tasks
    BY BusyTaskType, TimingAssumption
  <2>2. QED
    BY <1>1, <2>1, <1>2 DEF HousekeepingRescues, TypeOK
<1>3. CASE HousekeepingSelects
  BY <1>3 DEF HousekeepingSelects, TypeOK
<1>4. CASE HousekeepingCloses
  <2>1. conv' \in Rows
    BY <1>1, <1>4, Zenon DEF HousekeepingCloses, Rows
  <2>2. Post(Line("closed")) /\ Line("closed") \in Lines
    BY <1>4, LineType DEF HousekeepingCloses, Kinds
  <2>3. QED
    BY <2>1, <2>2, PostType, <1>4 DEF HousekeepingCloses, TypeOK
<1>5. ASSUME NEW w \in Workers, WorkerCrashes(w)
      PROVE  TypeOK'
  <2>1. worker' \in [Workers -> Slots]
    BY <1>5, SlotTypes DEF WorkerCrashes
  <2>2. lost' \in 0..MaxLost
    BY <1>5, BoundAssumption DEF WorkerCrashes, TypeOK
  <2>3. QED
    BY <2>1, <2>2, <1>5 DEF WorkerCrashes, TypeOK
<1>6. ASSUME NEW t \in queue, TaskLost(t)
      PROVE  TypeOK'
  <2>1. lost' \in 0..MaxLost
    BY <1>6, BoundAssumption DEF TaskLost, TypeOK
  <2>2. QED
    BY <1>1, <2>1, <1>6 DEF TaskLost, TypeOK
<1>7. CASE Tick
  <2>1. clock \in [Timers -> 0..Horizon]
    BY DEF TypeOK
  <2>2. \A n \in 0..Horizon : Later(n) \in 0..Horizon
    BY TimingAssumption DEF Later
  <2>3. clock' \in [Timers -> 0..Horizon]
    <3>1. /\ clock'.quiet \in 0..Horizon
          /\ clock'.sincePrevious \in 0..Horizon
          /\ clock'.sinceInbound \in 0..Horizon
          /\ clock'.sinceEscalation \in 0..Horizon
      BY <2>1, <2>2, <1>7, TimingAssumption DEF Tick, Timers
    <3>2. clock' = [quiet |-> clock'.quiet,
                    sincePrevious |-> clock'.sincePrevious,
                    sinceInbound |-> clock'.sinceInbound,
                    sinceEscalation |-> clock'.sinceEscalation]
      BY <1>7 DEF Tick
    <3>3. QED
      BY <3>1, <3>2 DEF Timers
  <2>4. ASSUME NEW t \in queue
        PROVE  [t EXCEPT !.wait = IF @ = 0 THEN 0 ELSE @ - 1] \in Tasks
    <3>1. t \in Tasks /\ t.wait \in 0..Horizon
      BY <1>1 DEF Tasks
    <3>2. (IF t.wait = 0 THEN 0 ELSE t.wait - 1) \in 0..Horizon
      BY <3>1, TimingAssumption
    <3>3. QED
      BY <3>1, <3>2, Zenon DEF Tasks
  <2>5. queue' \subseteq Tasks
    BY <2>4, <1>7, Zenon DEF Tick
  <2>6. QED
    BY <2>3, <2>5, <1>7 DEF Tick, TypeOK
<1>8. QED
  BY <1>2, <1>3, <1>4, <1>5, <1>6, <1>7 DEF Housekeeping, Failure

LEMMA InitTypes == Init => TypeOK
<1> SUFFICES ASSUME Init PROVE TypeOK
  OBVIOUS
<1>1. conv \in Rows
  <2>1. 0 \in Nat /\ 0 \in Turns
    BY BoundAssumption DEF Turns
  <2>2. QED
    BY <2>1, Zenon DEF Init, Rows, Assignees
<1>2. Idle \in Slots
  BY NoTaskType, Zenon DEF Idle, Slots
<1>3. worker \in [Workers -> Slots]
  BY <1>2 DEF Init
<1>4. clock \in [Timers -> 0..Horizon]
  BY TimingAssumption DEF Init, Timers
<1>5. log \in Seq(Lines) /\ queue \subseteq Tasks /\ lost \in 0..MaxLost
  BY BoundAssumption DEF Init
<1>6. QED
  BY <1>1, <1>3, <1>4, <1>5 DEF Init, TypeOK

\* Every reachable state of a conversation is well typed: no operation of
\* the client, the managers or the Celery tasks leaves the declared ranges.
THEOREM TypeCorrect == Spec => []TypeOK
<1>1. TypeOK /\ [Next]_vars => TypeOK'
  <2>1. TypeOK /\ UNCHANGED vars => TypeOK'
    BY DEF vars, TypeOK
  <2>2. TypeOK /\ Next => TypeOK'
    BY ClientTypes, StaffTypes, StartTypes, ContinueTypes, SystemTypes DEF Next
  <2>3. QED
    BY <2>1, <2>2
<1>2. QED
  BY InitTypes, <1>1, PTL DEF Spec

-----------------------------------------------------------------------------
(***************************************************************************)
(* EscalationPausesBot is inductive given the types: the two columns are   *)
(* only ever written together.                                             *)
(***************************************************************************)
LEMMA PauseStep ==
    ASSUME TypeOK, EscalationPausesBot, [Next]_vars
    PROVE  EscalationPausesBot'
<1>1. conv \in Rows
  BY DEF TypeOK
<1>2. conv' = conv => EscalationPausesBot'
  BY DEF EscalationPausesBot, Escalated
<1>3. Reopened(conv).escalatedAt # 0 => ~Reopened(conv).aiActive
  BY <1>1, Zenon DEF Reopened, EscalationPausesBot, Escalated, Rows
<1>4. BotLeads(conv).escalatedAt = 0
  BY <1>1, Zenon DEF BotLeads, Rows
<1>5. CASE UNCHANGED vars
  BY <1>2, <1>5 DEF vars
<1>6. CASE Client
  <2>1. ASSUME NEW kind \in InboundKinds, ClientWrites(kind)
        PROVE  EscalationPausesBot'
    <3>1. Reopened(conv) \in Rows
      BY <1>1, RowTypes
    <3>2. /\ conv'.escalatedAt = Reopened(conv).escalatedAt
          /\ conv'.aiActive = Reopened(conv).aiActive
      BY <2>1, <3>1, Zenon DEF ClientWrites, Rows
    <3>3. QED
      BY <1>3, <3>2 DEF EscalationPausesBot, Escalated
  <2>2. CASE ClientReturns
    BY <1>3, <2>2 DEF ClientReturns, EscalationPausesBot, Escalated
  <2>3. CASE ClientGivesEmail
    <3>1. Reopened(conv) \in Rows
      BY <1>1, RowTypes
    <3>2. /\ conv'.escalatedAt = Reopened(conv).escalatedAt
          /\ conv'.aiActive = Reopened(conv).aiActive
      BY <2>3, <3>1, Zenon DEF ClientGivesEmail, Rows
    <3>3. QED
      BY <1>3, <3>2 DEF EscalationPausesBot, Escalated
  <2>4. QED
    BY <1>6, <2>1, <2>2, <2>3 DEF Client
<1>7. CASE Staff
  <2>1. ASSUME NEW m \in Managers, StaffReply(m)
        PROVE  EscalationPausesBot'
    <3>1. conv'.aiActive = FALSE
      BY <1>1, <2>1, Zenon DEF StaffReply, Rows
    <3>2. QED
      BY <3>1 DEF EscalationPausesBot
  <2>2. ASSUME NEW m \in Managers, TakeInApp(m)
        PROVE  EscalationPausesBot'
    <3>1. conv'.escalatedAt = conv.escalatedAt /\ conv'.aiActive = conv.aiActive
      BY <1>1, <2>2, Zenon DEF TakeInApp, Rows
    <3>2. QED
      BY <3>1 DEF EscalationPausesBot, Escalated
  <2>3. ASSUME NEW a \in Assignees, Assign(a)
        PROVE  EscalationPausesBot'
    <3>1. conv'.escalatedAt = conv.escalatedAt /\ conv'.aiActive = conv.aiActive
      BY <1>1, <2>3, Zenon DEF Assign, Rows
    <3>2. QED
      BY <3>1 DEF EscalationPausesBot, Escalated
  <2>4. CASE StaffNote \/ StaffCloses \/ MarkRead \/ AdminMarksRead
    <3>1. conv'.escalatedAt = conv.escalatedAt /\ conv'.aiActive = conv.aiActive
      BY <1>1, <2>4, Zenon DEF StaffNote, StaffCloses, MarkRead,
                               AdminMarksRead, Rows
    <3>2. QED
      BY <3>1 DEF EscalationPausesBot, Escalated
  <2>5. CASE AdminOpens
    BY <1>2, <2>5 DEF AdminOpens
  <2>6. QED
    BY <1>7, <2>1, <2>2, <2>3, <2>4, <2>5 DEF Staff
<1>8. ASSUME NEW w \in Workers,
             StartsReply(w) \/ StartsBusyFollowup(w) \/ StartsWatchdog(w)
      PROVE  EscalationPausesBot'
  <2>1. ASSUME NEW t \in queue, ReplyContinues(w, t)
        PROVE  EscalationPausesBot'
    <3>1. conv'.escalatedAt = 0
      BY <1>1, <2>1, Zenon DEF ReplyContinues, Rows
    <3>2. QED
      BY <3>1 DEF EscalationPausesBot, Escalated
  <2>2. ASSUME NEW t \in queue, WatchdogTakesOver(w, t)
        PROVE  EscalationPausesBot'
    BY <1>4, <2>2 DEF WatchdogTakesOver, EscalationPausesBot, Escalated
  <2>3. ASSUME NEW t \in queue,
               ReplyLoads(w, t) \/ ReplyDeclinesContinue(w, t)
                 \/ BusyFollowup(w, t) \/ WatchdogStandsDown(w, t)
        PROVE  EscalationPausesBot'
    BY <1>2, <2>3 DEF ReplyLoads, ReplyDeclinesContinue, BusyFollowup,
                      WatchdogStandsDown
  <2>4. QED
    BY <1>8, <2>1, <2>2, <2>3
       DEF StartsReply, StartsBusyFollowup, StartsWatchdog
<1>9. ASSUME NEW w \in Workers, ContinuesTask(w)
      PROVE  EscalationPausesBot'
  <2>1. CASE ReplyResumes(w)
    <3>1. BotLeads(conv) \in Rows
      BY <1>1, RowTypes
    <3>2. conv'.escalatedAt = BotLeads(conv).escalatedAt
      BY <2>1, <3>1, Zenon DEF ReplyResumes, Rows
    <3>3. QED
      BY <1>4, <3>2 DEF EscalationPausesBot, Escalated
  <2>2. ASSUME NEW handoff \in BOOLEAN, ReplyAnswers(w, handoff)
        PROVE  EscalationPausesBot'
    <3>1. conv'.escalatedAt = conv.escalatedAt /\ conv'.aiActive = conv.aiActive
      BY <1>1, <2>2, Zenon DEF ReplyAnswers, Rows
    <3>2. QED
      BY <3>1 DEF EscalationPausesBot, Escalated
  <2>3. CASE Escalate(w)
    <3>1. conv'.aiActive = FALSE
      BY <1>1, <2>3, Zenon DEF Escalate, Rows
    <3>2. QED
      BY <3>1 DEF EscalationPausesBot
  <2>4. CASE \/ ReplySuperseded(w) \/ ReplyCalls(w) \/ ReplyLeavesToStaff(w)
             \/ ReplyAsksResume(w) \/ ReplyAnnouncesResume(w)
             \/ ReplyDropped(w) \/ ReplyRetries(w) \/ ReplyGivesUp(w) \/ AlreadyEscalated(w) \/ WatchdogAnnounces(w)
    BY <1>2, <2>4 DEF ReplySuperseded, ReplyCalls, ReplyLeavesToStaff,
       ReplyAsksResume, ReplyAnnouncesResume, ReplyDropped, ReplyRetries, ReplyGivesUp,
       AlreadyEscalated, WatchdogAnnounces
  <2>5. QED
    BY <1>9, <2>1, <2>2, <2>3, <2>4 DEF ContinuesTask
<1>10. CASE Housekeeping \/ Failure \/ Tick
  <2>1. CASE HousekeepingCloses
    <3>1. conv'.escalatedAt = conv.escalatedAt /\ conv'.aiActive = conv.aiActive
      BY <1>1, <2>1, Zenon DEF HousekeepingCloses, Rows
    <3>2. QED
      BY <3>1 DEF EscalationPausesBot, Escalated
  <2>2. CASE HousekeepingRescues \/ HousekeepingSelects \/ Failure \/ Tick
    BY <1>2, <2>2 DEF HousekeepingRescues, HousekeepingSelects, Failure, Tick,
                      WorkerCrashes, TaskLost
  <2>3. QED
    BY <1>10, <2>1, <2>2 DEF Housekeeping
<1>11. QED
  BY <1>5, <1>6, <1>7, <1>8, <1>9, <1>10 DEF Next

\* A dialog that was handed to people is not led by the bot, whatever the
\* operations on it and their order (services.py, tasks.py).
THEOREM EscalationPauses == Spec => []EscalationPausesBot
<1>1. Init => EscalationPausesBot
  BY DEF Init, EscalationPausesBot, Escalated
<1>2. QED
  BY <1>1, PauseStep, TypeCorrect, PTL DEF Spec

-----------------------------------------------------------------------------
(***************************************************************************)
(* The messages.  A step appends at most one, an answer passes the         *)
(* rechecks made under the lock, and the tasks that answer or watch a      *)
(* message name one the client wrote.  The last part is what makes the     *)
(* properties of the answers inductive.                                    *)
(***************************************************************************)
Anchored ==
    /\ \A t \in queue : t.job \in {"reply", "watchdog"} => t.inbound \in InboundIds
    /\ \A w \in Workers :
          worker[w].pc # "idle" => worker[w].task.inbound \in InboundIds

MayAppend(line) ==
    /\ line.kind = "ai" => line.ref \in InboundIds /\ MayAnswer(line.ref)
    /\ line.kind = "busy" => ~BusyAsked

Appends ==
    \E line \in Lines : log' = Append(log, line) /\ MayAppend(line)

LEMMA PostAppends ==
    ASSUME NEW kind \in Kinds \ {"ai", "busy"}, Post(Line(kind))
    PROVE  Appends
BY LineType DEF Post, Appends, MayAppend, Line

LEMMA LogStep ==
    ASSUME TypeOK, Anchored, [Next]_vars
    PROVE  log' = log \/ Appends
<1>1. CASE UNCHANGED vars
  BY <1>1 DEF vars
<1>2. CASE Client
  <2>1. ASSUME NEW kind \in InboundKinds, ClientWrites(kind)
        PROVE  Appends
    <3>1. Line(kind) \in Lines /\ MayAppend(Line(kind))
      BY LineType DEF Kinds, InboundKinds, MayAppend, Line
    <3>2. QED
      BY <2>1, <3>1 DEF ClientWrites, Appends
  <2>2. QED
    BY <1>2, <2>1 DEF Client, ClientReturns, ClientGivesEmail
<1>3. CASE Staff
  BY <1>3, PostAppends DEF Staff, StaffReply, TakeInApp, Assign, StaffNote,
     StaffCloses, MarkRead, AdminOpens, AdminMarksRead, Kinds
<1>4. ASSUME NEW w \in Workers,
             StartsReply(w) \/ StartsBusyFollowup(w) \/ StartsWatchdog(w)
      PROVE  log' = log \/ Appends
  <2>1. ASSUME NEW t \in queue, BusyFollowup(w, t), log' # log
        PROVE  Appends
    <3>1. Post(Line("busy")) /\ ~BusyAsked
      BY <2>1 DEF BusyFollowup, NeedsBusyFollowup
    <3>2. Line("busy") \in Lines /\ MayAppend(Line("busy"))
      BY <3>1, LineType DEF Kinds, MayAppend, Line
    <3>3. QED
      BY <3>1, <3>2 DEF Post, Appends
  <2>2. QED
    BY <1>4, <2>1, PostAppends DEF StartsReply, StartsBusyFollowup,
       StartsWatchdog, ReplyLoads, ReplyContinues, ReplyDeclinesContinue,
       WatchdogTakesOver, WatchdogStandsDown, Kinds
<1>5. ASSUME NEW w \in Workers, ContinuesTask(w)
      PROVE  log' = log \/ Appends
  <2>1. ASSUME NEW handoff \in BOOLEAN, ReplyAnswers(w, handoff)
        PROVE  Appends
    <3> DEFINE i == worker[w].task.inbound
               line == [kind |-> "ai", ref |-> i]
    <3>1. i \in InboundIds /\ MayAnswer(i) /\ Post(line)
      BY <2>1 DEF ReplyAnswers, Anchored
    <3>2. i \in Nat
      BY <3>1 DEF InboundIds, TypeOK
    <3>3. line \in Lines /\ MayAppend(line)
      BY <3>1, <3>2 DEF Lines, Kinds, MayAppend
    <3>4. QED
      BY <3>1, <3>3 DEF Post, Appends
  <2>2. QED
    BY <1>5, <2>1, PostAppends DEF ContinuesTask, ReplySuperseded, ReplyCalls,
       ReplyAsksResume, ReplyResumes, ReplyLeavesToStaff,
       ReplyAnnouncesResume, ReplyDropped,
       ReplyRetries, ReplyGivesUp, Escalate, AlreadyEscalated,
       WatchdogAnnounces, Kinds
<1>6. CASE Housekeeping \/ Failure \/ Tick
  BY <1>6, PostAppends DEF Housekeeping, HousekeepingRescues,
     HousekeepingSelects, HousekeepingCloses, Failure, WorkerCrashes,
     TaskLost, Tick, Kinds
<1>7. QED
  BY <1>1, <1>2, <1>3, <1>4, <1>5, <1>6 DEF Next

LEMMA InboundsStay ==
    ASSUME TypeOK, log' = log \/ Appends
    PROVE  InboundIds \subseteq InboundIds'
BY DEF TypeOK, Appends, InboundIds

LEMMA AnchoredStep ==
    ASSUME TypeOK, Anchored, [Next]_vars
    PROVE  Anchored'
<1>1. InboundIds \subseteq InboundIds'
  BY LogStep, InboundsStay
<1>2. worker \in [Workers -> Slots] /\ queue \subseteq Tasks
  BY DEF TypeOK
<1> DEFINE QueueAnchored == \A t \in queue' : t.job \in {"reply", "watchdog"}
                                => t.inbound \in InboundIds'
           SlotsAnchored == \A w \in Workers : worker'[w].pc # "idle"
                                => worker'[w].task.inbound \in InboundIds'
<1> SUFFICES QueueAnchored /\ SlotsAnchored
  BY DEF Anchored
<1>3. queue' \subseteq queue => QueueAnchored
  BY <1>1 DEF Anchored
<1>4. worker' = worker => SlotsAnchored
  BY <1>1 DEF Anchored
<1>5. \A w \in Workers : Finish(w) => SlotsAnchored
  BY <1>1, <1>2 DEF Anchored, Finish, Idle
<1>6. \A w \in Workers, pc \in {"generating", "resumed", "escalating"} :
          Moves(w, pc) /\ worker[w].pc # "idle" => SlotsAnchored
  BY <1>1, <1>2 DEF Anchored, Moves, Slots
<1>7. \A w \in Workers, t \in queue : \A c :
          Loads(w, t, c) /\ t.job = "reply" => SlotsAnchored
  BY <1>1, <1>2 DEF Anchored, Loads
<1>8. CASE UNCHANGED vars
  BY <1>3, <1>4, <1>8 DEF vars
<1>9. CASE Client
  <2>1. ASSUME NEW kind \in InboundKinds, ClientWrites(kind)
        PROVE  QueueAnchored
    <3>1. Len(log) + 1 \in InboundIds'
      BY <2>1 DEF ClientWrites, InboundIds, Line, TypeOK
    <3>2. \A t \in TasksOfInbound(Reopened(conv), Len(log) + 1) :
              t.job \in {"reply", "watchdog"} => t.inbound = Len(log) + 1
      BY DEF TasksOfInbound, ReplyTask, BusyTask, Watchdog, Task
    <3>3. QED
      BY <1>1, <2>1, <3>1, <3>2 DEF ClientWrites, Anchored
  <2>2. QED
    BY <1>3, <1>4, <1>9, <2>1 DEF Client, ClientWrites, ClientReturns,
       ClientGivesEmail
<1>10. CASE Staff
  BY <1>3, <1>4, <1>10 DEF Staff, StaffReply, TakeInApp, Assign, StaffNote,
     StaffCloses, MarkRead, AdminOpens, AdminMarksRead
<1>11. ASSUME NEW w \in Workers,
              StartsReply(w) \/ StartsBusyFollowup(w) \/ StartsWatchdog(w)
       PROVE  QueueAnchored /\ SlotsAnchored
  <2>1. queue' \subseteq queue
    BY <1>11 DEF StartsReply, StartsBusyFollowup, StartsWatchdog, ReplyLoads,
       ReplyContinues, ReplyDeclinesContinue, BusyFollowup, WatchdogTakesOver,
       WatchdogStandsDown, Starts
  <2>2. ASSUME NEW t \in queue, WatchdogTakesOver(w, t)
        PROVE  SlotsAnchored
    <3>1. t.inbound \in InboundIds'
      BY <1>1, <2>2 DEF WatchdogTakesOver, Starts, Anchored
    <3>2. worker'[w].task = t /\ \A v \in Workers \ {w} : worker'[v] = worker[v]
      BY <1>2, <2>2 DEF WatchdogTakesOver, Idle
    <3>3. QED
      BY <1>1, <3>1, <3>2 DEF Anchored
  <2>3. QED
    BY <1>3, <1>4, <1>7, <1>11, <2>1, <2>2 DEF StartsReply, StartsBusyFollowup,
       StartsWatchdog, ReplyLoads, ReplyContinues, ReplyDeclinesContinue,
       BusyFollowup, WatchdogStandsDown, Starts
<1>12. ASSUME NEW w \in Workers, ContinuesTask(w)
       PROVE  QueueAnchored /\ SlotsAnchored
  <2>1. CASE ReplyRetries(w)
    <3>1. worker[w].task.inbound \in InboundIds'
      BY <1>1, <2>1 DEF ReplyRetries, Anchored
    <3>2. worker[w].task \in Tasks
      BY <1>2 DEF Slots
    <3>3. \A t \in Retry(worker[w].task) : t.inbound = worker[w].task.inbound
      BY <3>2, Zenon DEF Retry, Tasks
    <3>4. QueueAnchored
      BY <1>1, <2>1, <3>1, <3>3 DEF ReplyRetries, Anchored
    <3>5. QED
      BY <1>5, <2>1, <3>4 DEF ReplyRetries
  <2>2. CASE Escalate(w)
    <3>1. \A c : \A t \in TasksOfEscalation(c) :
              t.job \in {"reply", "watchdog"} => t.inbound \in InboundIds
      BY DEF TasksOfEscalation, BusyTask, Watchdog, Task, LatestInbounds
    <3>2. \E c : queue' = queue \cup TasksOfEscalation(c)
      BY <2>2 DEF Escalate
    <3>3. QueueAnchored
      BY <1>1, <3>1, <3>2 DEF Anchored
    <3>4. QED
      BY <1>5, <2>2, <3>3 DEF Escalate
  <2>3. CASE WatchdogAnnounces(w)
    <3>1. QueueAnchored
      BY <1>1, <2>3 DEF WatchdogAnnounces, Anchored, ReplyTask, Task,
         LatestInbounds
    <3>2. QED
      BY <1>5, <2>3, <3>1 DEF WatchdogAnnounces
  <2>4. CASE ReplyAnnouncesResume(w) \/ ReplyAsksResume(w)
    <3>1. worker[w].task.inbound \in InboundIds'
      BY <1>1, <2>4 DEF ReplyAnnouncesResume, ReplyAsksResume, Anchored
    <3>2. /\ worker'[w].task = worker[w].task
          /\ \A v \in Workers \ {w} : worker'[v] = worker[v]
      BY <1>2, <2>4, Zenon DEF ReplyAnnouncesResume, ReplyAsksResume, Slots
    <3>3. QED
      BY <1>1, <1>3, <2>4, <3>1, <3>2
         DEF ReplyAnnouncesResume, ReplyAsksResume, Anchored
  <2>5. CASE ReplySuperseded(w) \/ ReplyLeavesToStaff(w) \/ ReplyDropped(w)
             \/ AlreadyEscalated(w)
    <3>1. Finish(w) /\ queue' = queue
      BY <2>5 DEF ReplySuperseded, ReplyLeavesToStaff, ReplyDropped,
         AlreadyEscalated
    <3>2. QED
      BY <1>3, <1>5, <3>1
  <2>6. ASSUME \/ ReplyCalls(w) \/ ReplyResumes(w) \/ ReplyGivesUp(w)
               \/ \E handoff \in BOOLEAN : ReplyAnswers(w, handoff)
        PROVE  QueueAnchored /\ SlotsAnchored
    <3>1. worker[w].pc # "idle" /\ queue' = queue
      BY <2>6 DEF ReplyCalls, ReplyResumes, ReplyGivesUp, ReplyAnswers
    <3>2. \/ Finish(w) \/ Moves(w, "generating") \/ Moves(w, "resumed")
          \/ Moves(w, "escalating")
      BY <2>6 DEF ReplyCalls, ReplyResumes, ReplyGivesUp, ReplyAnswers
    <3>3. SlotsAnchored
      BY <1>5, <1>6, <3>1, <3>2
    <3>4. QED
      BY <1>3, <3>1, <3>3
  <2>7. QED
    BY <1>12, <2>1, <2>2, <2>3, <2>4, <2>5, <2>6 DEF ContinuesTask
<1>13. CASE Housekeeping \/ Failure
  <2>1. CASE HousekeepingRescues
    BY <1>1, <1>4, <2>1 DEF HousekeepingRescues, Anchored, BusyTask, Task
  <2>2. QED
    BY <1>3, <1>4, <1>5, <1>13, <2>1 DEF Housekeeping, HousekeepingSelects,
       HousekeepingCloses, Failure, WorkerCrashes, TaskLost
<1>14. CASE Tick
  <2>1. ASSUME NEW t \in queue
        PROVE  LET u == [t EXCEPT !.wait = IF @ = 0 THEN 0 ELSE @ - 1]
               IN  u.job = t.job /\ u.inbound = t.inbound
    <3>1. t \in Tasks
      BY <1>2
    <3>2. QED
      BY <3>1, Zenon DEF Tasks
  <2>2. ASSUME NEW u \in queue'
        PROVE  \E t \in queue : u.job = t.job /\ u.inbound = t.inbound
    BY <1>14, <2>1, Zenon DEF Tick
  <2>3. QueueAnchored
    BY <1>1, <2>2, Zenon DEF Anchored
  <2>4. QED
    BY <1>4, <1>14, <2>3 DEF Tick
<1>15. QED
  BY <1>8, <1>9, <1>10, <1>11, <1>12, <1>13, <1>14 DEF Next

LEMMA AnchoredAlways == Spec => [](TypeOK /\ Anchored)
<1>1. Init => Anchored
  BY DEF Init, Anchored, Idle
<1>2. QED
  BY <1>1, AnchoredStep, TypeCorrect, PTL DEF Spec

LEMMA AnswersStep ==
    ASSUME TypeOK, Anchored, AnswersLatestInbound, [Next]_vars
    PROVE  AnswersLatestInbound'
<1>1. log \in Seq(Lines)
  BY DEF TypeOK
<1>2. CASE log' = log
  BY <1>2 DEF AnswersLatestInbound, InboundIds
<1>3. ASSUME NEW line \in Lines, log' = Append(log, line), MayAppend(line)
      PROVE  AnswersLatestInbound'
  <2> SUFFICES ASSUME NEW p \in DOMAIN log', log'[p].kind = "ai"
               PROVE  /\ log'[p].ref \in InboundIds'
                      /\ log'[p].ref < p
                      /\ \A j \in InboundIds' : j < p => j <= log'[p].ref
    BY DEF AnswersLatestInbound
  <2>1. /\ p \in 1..(Len(log) + 1)
        /\ \A j \in DOMAIN log : log'[j] = log[j] /\ j \in 1..Len(log)
        /\ log'[Len(log) + 1] = line
        /\ DOMAIN log' = 1..(Len(log) + 1)
        /\ Len(log) \in Nat
    BY <1>1, <1>3
  <2>2. \A j \in InboundIds' : j <= Len(log) => j \in InboundIds
    BY <1>1, <2>1 DEF InboundIds
  <2>3. InboundIds \subseteq InboundIds'
    BY <1>3, InboundsStay DEF Appends
  <2>4. CASE p = Len(log) + 1
    <3>1. line.ref \in InboundIds /\ ~Superseded(line.ref)
      BY <1>3, <2>1, <2>4 DEF MayAppend, MayAnswer
    <3>2. line.ref \in 1..Len(log)
      BY <1>1, <3>1 DEF InboundIds
    <3>3. \A j \in InboundIds : j \in Nat /\ j <= line.ref
      BY <1>1, <3>1, <3>2 DEF Superseded, InboundIds
    <3>4. \A j \in InboundIds' : j < p => j <= Len(log)
      BY <2>1, <2>4 DEF InboundIds
    <3>5. QED
      BY <2>1, <2>2, <2>3, <2>4, <3>1, <3>2, <3>3, <3>4
  <2>5. CASE p \in 1..Len(log)
    <3>1. p \in DOMAIN log /\ log'[p] = log[p]
      BY <1>1, <2>1, <2>5
    <3>2. /\ log[p].ref \in InboundIds /\ log[p].ref < p
          /\ \A j \in InboundIds : j < p => j <= log[p].ref
      BY <3>1 DEF AnswersLatestInbound
    <3>3. \A j \in InboundIds' : j < p => j \in InboundIds
      BY <2>1, <2>2, <2>5 DEF InboundIds
    <3>4. QED
      BY <2>3, <3>1, <3>2, <3>3
  <2>6. QED
    BY <2>1, <2>4, <2>5
<1>4. QED
  BY <1>2, <1>3, LogStep DEF Appends

\* Every answer of the assistant answers the client's latest message at the
\* time, for any number of workers, tasks and messages and however long the
\* language model takes (gigachat_reply, inbound_superseded).
THEOREM AnswersLatest == Spec => []AnswersLatestInbound
<1>1. Init => AnswersLatestInbound
  BY DEF Init, AnswersLatestInbound
<1>2. QED
  BY <1>1, AnswersStep, AnchoredAlways, PTL DEF Spec

LEMMA BusyStep ==
    ASSUME TypeOK, Anchored, BusyFollowupOnce, [Next]_vars
    PROVE  BusyFollowupOnce'
<1>1. log \in Seq(Lines)
  BY DEF TypeOK
<1>2. CASE log' = log
  BY <1>2 DEF BusyFollowupOnce
<1>3. ASSUME NEW line \in Lines, log' = Append(log, line), MayAppend(line)
      PROVE  BusyFollowupOnce'
  <2>1. /\ \A j \in DOMAIN log' : j \in DOMAIN log \/ j = Len(log) + 1
        /\ \A j \in DOMAIN log : log'[j] = log[j]
        /\ log'[Len(log) + 1] = line
    BY <1>1, <1>3
  <2>2. line.kind = "busy" => \A j \in DOMAIN log : log[j].kind # "busy"
    BY <1>3 DEF MayAppend, BusyAsked
  <2>3. QED
    BY <2>1, <2>2 DEF BusyFollowupOnce
<1>4. QED
  BY <1>2, <1>3, LogStep DEF Appends

\* The client is asked for an e-mail at most once, however many countdowns
\* the escalations, the inbound messages and the sweep have started
\* (support_escalation_busy_followup, escalation_needs_busy_followup).
THEOREM BusyOnce == Spec => []BusyFollowupOnce
<1>1. Init => BusyFollowupOnce
  BY DEF Init, BusyFollowupOnce
<1>2. QED
  BY <1>1, BusyStep, AnchoredAlways, PTL DEF Spec

\* The row the assistant answers into is led by the bot when the answer is
\* written, whatever happened during the call to the model (gigachat_reply).
THEOREM AnswersOnlyWhenLeading == Spec => BotAnswersOnlyWhenLeading
<1>1. TypeOK /\ Anchored /\ [Next]_vars
        => [\A w \in Workers : Answers(w) => Eligible(conv)]_vars
  <2> SUFFICES ASSUME TypeOK, Anchored, [Next]_vars,
                      NEW w \in Workers, Answers(w)
               PROVE  Eligible(conv)
    OBVIOUS
  <2>1. log \in Seq(Lines) /\ log' # log
    BY DEF Answers, TypeOK
  <2>2. PICK line \in Lines : log' = Append(log, line) /\ MayAppend(line)
    BY <2>1, LogStep DEF Appends
  <2>3. log'[Len(log')] = line
    BY <2>1, <2>2
  <2>4. QED
    BY <2>2, <2>3 DEF Answers, MayAppend, MayAnswer
<1>2. QED
  BY <1>1, AnchoredAlways, PTL DEF Spec, BotAnswersOnlyWhenLeading

LEMMA TakesOverStep ==
    ASSUME TypeOK, [Next]_vars, NEW w \in Workers, TakesOver(w)
    PROVE  \E t \in queue : WatchdogTakesOver(w, t)
<1>1. worker \in [Workers -> Slots] /\ worker' # worker
  BY DEF TakesOver, TypeOK
<1>2. PICK v \in Workers : \/ StartsReply(v) \/ StartsBusyFollowup(v)
                           \/ StartsWatchdog(v) \/ ContinuesTask(v)
                           \/ WorkerCrashes(v)
  BY <1>1 DEF vars, Next, Client, ClientWrites, ClientReturns,
     ClientGivesEmail, Staff, StaffReply, TakeInApp, Assign, StaffNote,
     StaffCloses, MarkRead, AdminOpens, AdminMarksRead, Housekeeping,
     HousekeepingRescues, HousekeepingSelects, HousekeepingCloses, Failure,
     TaskLost, Tick
<1>3. \A u \in Workers : Finish(u) => worker'[w] = Idle \/ worker'[w] = worker[w]
  BY <1>1 DEF Finish
<1>4. \A u \in Workers, pc \in {"generating", "resumed", "escalating"} :
          Moves(u, pc) => worker'[w].pc # "tookOver"
  BY <1>1 DEF Moves, TakesOver, Slots
<1>5. \A u \in Workers : \A t, c : Loads(u, t, c) => worker'[w].pc # "tookOver"
  BY <1>1 DEF Loads, TakesOver
<1>6. CASE ContinuesTask(v) \/ WorkerCrashes(v)
  <2>1. CASE ReplyAnnouncesResume(v) \/ ReplyAsksResume(v)
    <3>1. worker'[w].pc \in {"generating", "resuming", worker[w].pc}
      BY <1>1, <2>1, Zenon DEF ReplyAnnouncesResume, ReplyAsksResume, Slots
    <3>2. QED
      BY <3>1 DEF TakesOver
  <2>2. CASE \/ Finish(v) \/ Moves(v, "generating") \/ Moves(v, "resumed")
             \/ Moves(v, "escalating")
    BY <1>3, <1>4, <2>2 DEF TakesOver, Idle
  <2>3. QED
    BY <1>6, <2>1, <2>2 DEF ContinuesTask, WorkerCrashes, ReplySuperseded,
       ReplyCalls, ReplyResumes, ReplyLeavesToStaff, ReplyAnswers,
       ReplyDropped, ReplyRetries, ReplyGivesUp, Escalate, AlreadyEscalated,
       WatchdogAnnounces
<1>7. CASE StartsReply(v) \/ StartsBusyFollowup(v)
  BY <1>1, <1>5, <1>7 DEF StartsReply, StartsBusyFollowup, ReplyLoads,
     ReplyContinues, ReplyDeclinesContinue, BusyFollowup, Starts, TakesOver
<1>8. CASE StartsWatchdog(v)
  <2>1. PICK t \in queue : WatchdogTakesOver(v, t)
    BY <1>1, <1>8 DEF StartsWatchdog, WatchdogStandsDown
  <2>2. v = w
    BY <1>1, <2>1 DEF WatchdogTakesOver, TakesOver
  <2>3. QED
    BY <2>1, <2>2
<1>9. QED
  BY <1>2, <1>6, <1>7, <1>8

\* The watchdog never takes a dialog from a manager who has answered the
\* client's latest message, nor a fresh handoff before its time, although
\* the message it was set for may be an older one
\* (support_manager_silence_watchdog).
THEOREM WatchdogSpares == Spec => WatchdogSparesManager
<1>1. TypeOK /\ Anchored /\ [Next]_vars
        => [\A w \in Workers : TakesOver(w) =>
              /\ \A i \in LatestInbounds : ~RepliedSince(i)
              /\ AwaitingManager(conv)
                   => clock.sinceEscalation >= TakeoverDelay]_vars
  <2> SUFFICES ASSUME TypeOK, Anchored, [Next]_vars,
                      NEW w \in Workers, TakesOver(w)
               PROVE  /\ \A i \in LatestInbounds : ~RepliedSince(i)
                      /\ AwaitingManager(conv)
                           => clock.sinceEscalation >= TakeoverDelay
    OBVIOUS
  <2>1. PICK t \in queue : WatchdogTakesOver(w, t)
    BY TakesOverStep
  <2>2. t.job = "watchdog" /\ ManagerSilent(t.inbound)
    BY <2>1 DEF WatchdogTakesOver, Starts
  <2>3. t.inbound \in InboundIds
    BY <2>2 DEF Anchored
  <2>4. DOMAIN log \subseteq Nat /\ InboundIds \subseteq DOMAIN log
    BY DEF InboundIds, TypeOK
  <2>5. ASSUME NEW i \in LatestInbounds
        PROVE  i \in Nat /\ t.inbound \in Nat /\ t.inbound <= i
    <3>1. i \in InboundIds /\ ~(t.inbound > i)
      BY <2>3, Zenon DEF LatestInbounds, Superseded
    <3>2. QED
      BY <2>3, <2>4, <3>1
  <2>6. ASSUME NEW i \in LatestInbounds, RepliedSince(i)
        PROVE  FALSE
    <3>1. PICK j \in DOMAIN log : j > i /\ log[j].kind = "reply"
      BY <2>6 DEF RepliedSince
    <3>2. j > t.inbound
      BY <2>4, <2>5, <3>1
    <3>3. QED
      BY <2>2, <3>1, <3>2 DEF ManagerSilent, RepliedSince
  <2>7. QED
    BY <2>2, <2>6 DEF ManagerSilent, TakeoverDue
<1>2. QED
  BY <1>1, AnchoredAlways, PTL DEF Spec, WatchdogSparesManager

-----------------------------------------------------------------------------
(***************************************************************************)
(* The refinement.  Every step of SupportDialog is a step of DialogLog or  *)
(* leaves the log, the leader and the handoff alone.  Unled says which     *)
(* columns of the row decide who leads.                                    *)
(***************************************************************************)
Unled ==
    /\ conv'.aiActive = conv.aiActive
    /\ conv'.escalatedAt = conv.escalatedAt
    /\ conv'.assignee = conv.assignee

LEMMA UnledLeader ==
    ASSUME Unled
    PROVE  Leader(conv)' = Leader(conv)
BY DEF Unled, Leader, Eligible

\* A row that is reopened, or that the watchdog took back, is led by the bot.
LEMMA GivenToBot ==
    ASSUME NEW c \in Rows
    PROVE  /\ Leader(BotLeads(c)) = "bot" /\ BotLeads(c).escalatedAt = 0
           /\ \/ Reopened(c) = c
              \/ Leader(Reopened(c)) = "bot" /\ Reopened(c).escalatedAt = 0
<1>1. /\ BotLeads(c).aiActive = TRUE /\ BotLeads(c).escalatedAt = 0
      /\ BotLeads(c).assignee = Nobody
  BY Zenon DEF BotLeads, Rows
<1>2. c.status = "closed" =>
        /\ Reopened(c).aiActive = TRUE /\ Reopened(c).escalatedAt = 0
        /\ Reopened(c).assignee = Nobody
  BY Zenon DEF Reopened, Rows
<1>3. QED
  BY <1>1, <1>2 DEF Leader, Eligible, Reopened

LEMMA ClientPromise ==
    ASSUME TypeOK, Client
    PROVE  [DialogLog!Next]_(DialogLog!logVars)
<1>1. conv \in Rows /\ Reopened(conv) \in Rows
  BY RowTypes DEF TypeOK
<1>2. ASSUME NEW kind \in InboundKinds, ClientWrites(kind)
      PROVE  DialogLog!ClientSays
  <2>1. /\ conv'.aiActive = Reopened(conv).aiActive
        /\ conv'.escalatedAt = Reopened(conv).escalatedAt
        /\ conv'.assignee = Reopened(conv).assignee
    BY <1>1, <1>2, Zenon DEF ClientWrites, Rows
  <2>2. Leader(conv)' = Leader(Reopened(conv))
    BY <2>1 DEF Leader, Eligible
  <2>3. DialogLog!Says(kind, 0)
    BY <1>2 DEF ClientWrites, Line, DialogLog!Says
  <2>4. QED
    BY <1>1, <2>1, <2>2, <2>3, GivenToBot
       DEF DialogLog!ClientSays, DialogLog!ClientKinds, InboundKinds
<1>3. ASSUME ClientReturns \/ ClientGivesEmail
      PROVE  DialogLog!BotLeads \/ UNCHANGED DialogLog!logVars
  <2>1. /\ conv'.aiActive = Reopened(conv).aiActive
        /\ conv'.escalatedAt = Reopened(conv).escalatedAt
        /\ conv'.assignee = Reopened(conv).assignee
        /\ log' = log
    BY <1>1, <1>3, Zenon DEF ClientReturns, ClientGivesEmail, Rows
  <2>2. Leader(conv)' = Leader(Reopened(conv))
    BY <2>1 DEF Leader, Eligible
  <2>3. QED
    BY <1>1, <2>1, <2>2, GivenToBot
       DEF DialogLog!BotLeads, DialogLog!logVars
<1>4. QED
  BY <1>2, <1>3 DEF Client, DialogLog!Next

\* A step that posts a line other than an answer and moves no leading column.
LEMMA RemarkPromise ==
    ASSUME NEW kind \in {"notice", "closed", "note"}, Post(Line(kind)), Unled
    PROVE  DialogLog!Next
BY UnledLeader DEF Unled, Post, Line, DialogLog!Next, DialogLog!Remark,
   DialogLog!Says

LEMMA SilentPromise ==
    ASSUME log' = log, Unled
    PROVE  UNCHANGED DialogLog!logVars
BY UnledLeader DEF Unled, DialogLog!logVars

LEMMA UnchangedPromise ==
    ASSUME UNCHANGED <<conv, log>>
    PROVE  UNCHANGED DialogLog!logVars
BY DEF DialogLog!logVars, Leader, Eligible

LEMMA StaffPromise ==
    ASSUME TypeOK, Staff
    PROVE  [DialogLog!Next]_(DialogLog!logVars)
<1>1. conv \in Rows
  BY DEF TypeOK
<1>2. ASSUME NEW m \in Managers, StaffReply(m)
      PROVE  DialogLog!PeopleReply
  <2>1. conv'.aiActive = FALSE /\ conv'.escalatedAt = conv.escalatedAt
    BY <1>1, <1>2, Zenon DEF StaffReply, Rows
  <2>2. QED
    BY <1>2, <2>1 DEF StaffReply, Post, Line, Leader, Eligible,
       DialogLog!PeopleReply, DialogLog!Says
<1>3. ASSUME NEW a \in Assignees, Assign(a)
      PROVE  DialogLog!Reassign
  <2>1. conv'.aiActive = conv.aiActive /\ conv'.escalatedAt = conv.escalatedAt
    BY <1>1, <1>3, Zenon DEF Assign, Rows
  <2>2. Leader(conv)' = "people" \/ (conv.escalatedAt = 0 /\ Leader(conv)' = "bot")
    BY <2>1 DEF Leader, Eligible
  <2>3. QED
    BY <1>3, <2>1, <2>2 DEF Assign, Post, Line, DialogLog!Reassign,
       DialogLog!Says
<1>4. ASSUME NEW m \in Managers, TakeInApp(m)
      PROVE  DialogLog!PeopleLead
  <2>1. conv'.assignee = m /\ conv'.escalatedAt = conv.escalatedAt
    BY <1>1, <1>4, Zenon DEF TakeInApp, Rows
  <2>2. Leader(conv)' = "people"
    BY <2>1, NobodyAssumption DEF Leader, Eligible
  <2>3. QED
    BY <1>4, <2>1, <2>2 DEF TakeInApp, DialogLog!PeopleLead
<1>5. CASE StaffNote
  <2>1. Unled
    BY <1>1, <1>5, Zenon DEF StaffNote, Rows, Unled
  <2>2. QED
    BY <1>5, <2>1, RemarkPromise DEF StaffNote
<1>6. CASE StaffCloses \/ MarkRead \/ AdminMarksRead
  <2>1. Unled
    BY <1>1, <1>6, Zenon DEF StaffCloses, MarkRead, AdminMarksRead, Rows, Unled
  <2>2. QED
    BY <1>6, <2>1, SilentPromise DEF StaffCloses, MarkRead, AdminMarksRead
<1>7. CASE AdminOpens
  BY <1>7, UnchangedPromise DEF AdminOpens
<1>8. QED
  BY <1>2, <1>3, <1>4, <1>5, <1>6, <1>7 DEF Staff, DialogLog!Next

LEMMA StartPromise ==
    ASSUME TypeOK, NEW w \in Workers,
           StartsReply(w) \/ StartsBusyFollowup(w) \/ StartsWatchdog(w)
    PROVE  [DialogLog!Next]_(DialogLog!logVars)
<1>1. conv \in Rows
  BY DEF TypeOK
<1>2. ASSUME NEW t \in queue, ReplyContinues(w, t)
      PROVE  DialogLog!BotLeads
  <2>1. /\ conv'.aiActive = (Escalated \/ conv.aiActive)
        /\ conv'.escalatedAt = 0 /\ conv'.assignee = conv.assignee
    BY <1>1, <1>2, Zenon DEF ReplyContinues, Rows
  <2>2. Leader(conv)' \in {Leader(conv), "bot"}
    BY <1>2, <2>1 DEF ReplyContinues, Leader, Eligible, Escalated
  <2>3. QED
    BY <1>2, <2>1, <2>2 DEF ReplyContinues, DialogLog!BotLeads
<1>3. ASSUME NEW t \in queue, BusyFollowup(w, t)
      PROVE  [DialogLog!Next]_(DialogLog!logVars)
  <2>1. conv' = conv
    BY <1>3 DEF BusyFollowup
  <2>2. CASE NeedsBusyFollowup
    <3>1. conv.escalatedAt # 0 /\ ~RepliedSince(conv.escalatedAt) /\ ~BusyAsked
      BY <2>2 DEF NeedsBusyFollowup, AckPending
    <3>2. DialogLog!BotAsksEmail
      BY <1>3, <2>1, <2>2, <3>1
         DEF BusyFollowup, Post, Line, RepliedSince, BusyAsked, Leader,
             Eligible, DialogLog!BotAsksEmail, DialogLog!PeopleReplied,
             DialogLog!EmailAsked, DialogLog!Says
    <3>3. QED
      BY <3>2 DEF DialogLog!Next
  <2>3. CASE ~NeedsBusyFollowup
    BY <1>3, <2>1, <2>3, UnchangedPromise DEF BusyFollowup
  <2>4. QED
    BY <2>2, <2>3
<1>4. ASSUME NEW t \in queue, WatchdogTakesOver(w, t)
      PROVE  DialogLog!BotLeads
  BY <1>1, <1>4, GivenToBot DEF WatchdogTakesOver, DialogLog!BotLeads, Leader, Eligible
<1>5. ASSUME NEW t \in queue, ReplyDeclinesContinue(w, t)
      PROVE  DialogLog!Next
  BY <1>5, RemarkPromise DEF ReplyDeclinesContinue, Unled
<1>6. ASSUME NEW t \in queue, ReplyLoads(w, t) \/ WatchdogStandsDown(w, t)
      PROVE  UNCHANGED DialogLog!logVars
  BY <1>6, UnchangedPromise DEF ReplyLoads, WatchdogStandsDown
<1>7. QED
  BY <1>2, <1>3, <1>4, <1>5, <1>6
     DEF StartsReply, StartsBusyFollowup, StartsWatchdog, DialogLog!Next

LEMMA ContinuePromise ==
    ASSUME TypeOK, Anchored, NEW w \in Workers, ContinuesTask(w)
    PROVE  [DialogLog!Next]_(DialogLog!logVars)
<1>1. conv \in Rows
  BY DEF TypeOK
<1>2. CASE ReplyResumes(w)
  <2>1. BotLeads(conv) \in Rows
    BY <1>1, RowTypes
  <2>2. /\ conv'.aiActive = BotLeads(conv).aiActive
        /\ conv'.escalatedAt = BotLeads(conv).escalatedAt
        /\ conv'.assignee = BotLeads(conv).assignee
    BY <1>2, <2>1, Zenon DEF ReplyResumes, Rows
  <2>3. Leader(conv)' = "bot" /\ conv'.escalatedAt = 0
    BY <1>1, <2>2, GivenToBot DEF Leader, Eligible
  <2>4. QED
    BY <1>2, <2>3 DEF ReplyResumes, DialogLog!BotLeads, DialogLog!Next
<1>3. ASSUME NEW handoff \in BOOLEAN, ReplyAnswers(w, handoff)
      PROVE  DialogLog!BotAnswers
  <2> DEFINE i == worker[w].task.inbound
  <2>1. i \in InboundIds /\ Eligible(conv) /\ ~Superseded(i)
    BY <1>3 DEF ReplyAnswers, MayAnswer, Anchored
  <2>2. Unled
    BY <1>1, <1>3, Zenon DEF ReplyAnswers, Rows, Unled
  <2>3. \A j \in InboundIds : i \in Nat /\ j \in Nat /\ j <= i
    <3>1. InboundIds \subseteq Nat
      BY DEF InboundIds, TypeOK
    <3>2. \A j \in InboundIds : ~(j > i)
      BY <2>1 DEF Superseded
    <3>3. \A a, b \in Nat : ~(b > a) => b <= a
      OBVIOUS
    <3>4. QED
      BY <2>1, <3>1, <3>2, <3>3, Zenon
  <2>4. i \in DialogLog!FromClient /\ DialogLog!IsLatest(i)
    BY <2>1, <2>3 DEF InboundIds, InboundKinds, DialogLog!FromClient,
       DialogLog!ClientKinds, DialogLog!IsLatest
  <2>5. DialogLog!Says("ai", i)
    BY <1>3 DEF ReplyAnswers, Post, DialogLog!Says
  <2>6. Leader(conv) = "bot" /\ Leader(conv)' = "bot"
    BY <2>1, <2>2, UnledLeader DEF Leader
  <2>7. QED
    BY <2>2, <2>4, <2>5, <2>6 DEF Unled, DialogLog!BotAnswers
<1>4. CASE Escalate(w)
  <2>1. conv'.aiActive = FALSE /\ conv'.escalatedAt = Len(log)
    BY <1>1, <1>4, Zenon DEF Escalate, Rows
  <2>2. log' = log /\ conv.escalatedAt = 0
    BY <1>4 DEF Escalate, Escalated
  <2>3. QED
    BY <2>1, <2>2 DEF Leader, Eligible, DialogLog!PeopleLead, DialogLog!Next
<1>5. CASE ReplyAnnouncesResume(w) \/ ReplyGivesUp(w) \/ WatchdogAnnounces(w)
  BY <1>5, RemarkPromise
     DEF ReplyAnnouncesResume, ReplyGivesUp, WatchdogAnnounces, Unled
<1>6. CASE ReplyLeavesToStaff(w)
  <2>1. Unled /\ (Post(Line("notice")) \/ log' = log)
    BY <1>6 DEF ReplyLeavesToStaff, Unled
  <2>2. QED
    BY <2>1, RemarkPromise, SilentPromise
<1>7. CASE \/ ReplySuperseded(w) \/ ReplyCalls(w) \/ ReplyAsksResume(w)
           \/ ReplyDropped(w) \/ ReplyRetries(w) \/ AlreadyEscalated(w)
  BY <1>7, UnchangedPromise DEF ReplySuperseded, ReplyCalls, ReplyAsksResume,
     ReplyDropped, ReplyRetries, AlreadyEscalated
<1>8. QED
  BY <1>2, <1>3, <1>4, <1>5, <1>6, <1>7 DEF ContinuesTask, DialogLog!Next

LEMMA SystemPromise ==
    ASSUME TypeOK, Housekeeping \/ Failure \/ Tick
    PROVE  [DialogLog!Next]_(DialogLog!logVars)
<1>1. CASE HousekeepingCloses
  <2>1. Unled
    BY <1>1, Zenon DEF HousekeepingCloses, TypeOK, Rows, Unled
  <2>2. QED
    BY <1>1, <2>1, RemarkPromise DEF HousekeepingCloses
<1>2. CASE HousekeepingRescues \/ HousekeepingSelects \/ Failure \/ Tick
  BY <1>2, UnchangedPromise DEF HousekeepingRescues, HousekeepingSelects,
     Failure, WorkerCrashes, TaskLost, Tick
<1>3. QED
  BY <1>1, <1>2 DEF Housekeeping

\* The support dialog implements DialogLog, for any number of people, workers
\* and messages: tasks that overlap, retry, get lost and answer late write
\* nothing that the plain dialog would not allow at that point (tasks.py,
\* services.py).
THEOREM DialogRefines == Spec => ImplementsDialogLog
<1>1. Init => DialogLog!Init
  BY DEF Init, DialogLog!Init, Leader, Eligible
<1>2. TypeOK /\ Anchored /\ [Next]_vars => [DialogLog!Next]_(DialogLog!logVars)
  <2> SUFFICES ASSUME TypeOK, Anchored, [Next]_vars
               PROVE  [DialogLog!Next]_(DialogLog!logVars)
    OBVIOUS
  <2>1. CASE UNCHANGED vars
    BY <2>1, UnchangedPromise DEF vars
  <2>2. QED
    BY <2>1, ClientPromise, StaffPromise, StartPromise, ContinuePromise,
       SystemPromise DEF Next
<1>3. QED
  BY <1>1, <1>2, AnchoredAlways, PTL DEF Spec, ImplementsDialogLog, DialogLog!Spec
-----------------------------------------------------------------------------
(***************************************************************************)
(* A waiting handoff has its watchdog.                                     *)
(***************************************************************************)

\* A handoff happened at a message that is there.
Dated == conv.escalatedAt <= Len(log)

\* What an entry of the log changes for the questions about it.
LEMMA OneMoreLine ==
    ASSUME TypeOK, NEW line \in Lines, log' = Append(log, line)
    PROVE  /\ Len(log) \in Nat /\ Len(log') = Len(log) + 1
           /\ \A j \in DOMAIN log : j \in DOMAIN log' /\ log'[j] = log[j]
           /\ \A j \in DOMAIN log' : j \in DOMAIN log \/ j = Len(log) + 1
           /\ Len(log) + 1 \in DOMAIN log' /\ log'[Len(log) + 1] = line
           /\ line.kind \notin InboundKinds => LatestInbounds' = LatestInbounds
           /\ line.kind \in InboundKinds => LatestInbounds' = {Len(log) + 1}
           /\ \A i \in Nat : line.kind # "reply" => RepliedSince(i)' = RepliedSince(i)
           /\ \A i \in 0..Len(log) : line.kind = "reply" => RepliedSince(i)'
           /\ \A i \in Nat : RepliedSince(i) => RepliedSince(i)'
           /\ \A i \in Nat : Reassigned(i) => Reassigned(i)'
           /\ \A i \in 0..Len(log) : line.kind = "assigned" => Reassigned(i)'
<1>1. log \in Seq(Lines) /\ Len(log) \in Nat /\ DOMAIN log = 1..Len(log)
  BY DEF TypeOK
<1>2. /\ Len(log') = Len(log) + 1 /\ DOMAIN log' = 1..(Len(log) + 1)
      /\ \A j \in 1..Len(log) : log'[j] = log[j]
      /\ log'[Len(log) + 1] = line
  BY <1>1
<1>3. \A j \in DOMAIN log : j \in DOMAIN log' /\ log'[j] = log[j]
  BY <1>1, <1>2
<1>4. \A j \in DOMAIN log' : j \in DOMAIN log \/ j = Len(log) + 1
  BY <1>1, <1>2
<1>5. Len(log) + 1 \in DOMAIN log' /\ log'[Len(log) + 1] = line
  BY <1>1, <1>2
<1>6. \A j \in DOMAIN log : j \in Nat /\ j < Len(log) + 1
  BY <1>1
<1>7. ASSUME line.kind \notin InboundKinds PROVE LatestInbounds' = LatestInbounds
  <2>1. InboundIds' = InboundIds
    BY <1>3, <1>4, <1>5, <1>7, Zenon DEF InboundIds
  <2>2. QED
    BY <2>1 DEF LatestInbounds, Superseded
<1>8. ASSUME line.kind \in InboundKinds PROVE LatestInbounds' = {Len(log) + 1}
  <2>1. InboundIds' = InboundIds \cup {Len(log) + 1}
    BY <1>3, <1>4, <1>5, <1>8, Zenon DEF InboundIds
  <2>2. \A i \in InboundIds : i \in Nat /\ i < Len(log) + 1
    BY <1>6 DEF InboundIds
  <2>3. \A i \in InboundIds : \E j \in InboundIds' : j > i
    BY <1>1, <2>1, <2>2
  <2>4. ~\E j \in InboundIds' : j > Len(log) + 1
    BY <1>1, <2>1, <2>2
  <2>5. LatestInbounds' = {i \in InboundIds' : ~\E j \in InboundIds' : j > i}
    BY DEF LatestInbounds, Superseded
  <2>6. QED
    BY <2>1, <2>3, <2>4, <2>5
<1>9. ASSUME NEW i \in Nat
      PROVE  /\ RepliedSince(i) => RepliedSince(i)'
             /\ Reassigned(i) => Reassigned(i)'
  BY <1>3 DEF RepliedSince, Reassigned
<1>10. ASSUME NEW i \in Nat, line.kind # "reply", RepliedSince(i)' PROVE RepliedSince(i)
  BY <1>3, <1>4, <1>5, <1>10 DEF RepliedSince
<1>11. ASSUME NEW i \in Nat, line.kind # "reply" PROVE RepliedSince(i)' = RepliedSince(i)
  BY <1>9, <1>10, <1>11 DEF RepliedSince
<1>12. ASSUME NEW i \in 0..Len(log)
       PROVE  /\ line.kind = "reply" => RepliedSince(i)'
              /\ line.kind = "assigned" => Reassigned(i)'
  <2>1. Len(log) + 1 > i
    BY <1>1
  <2>2. QED
    BY <1>5, <2>1 DEF RepliedSince, Reassigned
<1>13. QED
  BY <1>1, <1>2, <1>3, <1>4, <1>5, <1>7, <1>8, <1>9, <1>11, <1>12

\* The columns that say who leads.
SameLead ==
    /\ conv'.status = conv.status /\ conv'.aiActive = conv.aiActive
    /\ conv'.escalatedAt = conv.escalatedAt /\ conv'.assignee = conv.assignee

\* A remark: a line, if any, that the client did not write.
Remarked ==
    log' = log \/ \E line \in Lines :
                      line.kind \notin InboundKinds /\ log' = Append(log, line)

\* The watchdog of a handoff stays, or the handoff is over.
LEMMA StillWatched ==
    ASSUME TypeOK, Dated, HandoffWatched, UNCHANGED lost, SameLead, Remarked,
           clock'.sinceEscalation = clock.sinceEscalation,
           NEW started,
           queue \ {started} \subseteq queue',
           started \in queue /\ FindsDue(started) => ~WaitingHandoff
    PROVE  HandoffWatched'
<1> SUFFICES ASSUME lost' = 0, WaitingHandoff', ~Reassigned(conv.escalatedAt)'
             PROVE  \E t \in queue' : FindsDue(t)'
  BY DEF HandoffWatched
<1>1. conv.escalatedAt \in 0..Len(log) /\ Len(log) \in Nat
  BY DEF TypeOK, Rows, Dated
<1>2. CASE log' = log
  <2>1. WaitingHandoff /\ ~Reassigned(conv.escalatedAt) /\ lost = 0
    BY <1>2 DEF WaitingHandoff, AwaitingManager, AckPending, RepliedSince, Reassigned,
       LatestInbounds, Superseded, InboundIds, SameLead
  <2>2. PICK t \in queue : FindsDue(t)
    BY <2>1 DEF HandoffWatched
  <2>3. t \in queue' /\ FindsDue(t)'
    BY <2>1, <2>2, <1>2 DEF FindsDue, RepliedSince
  <2>4. QED
    BY <2>3
<1>3. ASSUME NEW line \in Lines, line.kind \notin InboundKinds, log' = Append(log, line)
      PROVE  \E t \in queue' : FindsDue(t)'
  <2>1. LatestInbounds' = LatestInbounds
    BY <1>3, OneMoreLine
  <2>2. ~RepliedSince(conv.escalatedAt)'
    BY DEF WaitingHandoff, AwaitingManager, AckPending, SameLead
  <2>3. line.kind # "reply"
    <3>1. \A i \in 0..Len(log) : line.kind = "reply" => RepliedSince(i)'
      BY <1>3, OneMoreLine
    <3>2. PICK e \in 0..Len(log) : e = conv.escalatedAt
      BY <1>1
    <3>3. ~RepliedSince(e)'
      BY <3>2, <2>2 DEF SameLead
    <3>4. QED
      BY <3>1, <3>3
  <2>4. \A i \in Nat : RepliedSince(i)' = RepliedSince(i)
    BY <1>3, <2>3, OneMoreLine
  <2>5. PICK e \in Nat : e = conv.escalatedAt /\ e = conv'.escalatedAt
    BY <1>1 DEF SameLead
  <2>6. ~RepliedSince(e) /\ e # 0
    <3>1. ~RepliedSince(e)' /\ e # 0
      BY <2>5 DEF WaitingHandoff, AwaitingManager, AckPending
    <3>2. QED
      BY <3>1, <2>4
  <2>7. ~Reassigned(e)
    <3>1. ~Reassigned(e)'
      BY <2>5
    <3>2. QED
      BY <3>1, <1>3, <2>5, OneMoreLine
  <2>8. \A i \in LatestInbounds : ~RepliedSince(i)
    <3>1. \A i \in LatestInbounds : i \in Nat /\ ~RepliedSince(i)'
      <4>1. \A i \in LatestInbounds' : ~RepliedSince(i)'
        BY DEF WaitingHandoff
      <4>2. LatestInbounds \subseteq Nat
        BY DEF LatestInbounds, InboundIds, TypeOK
      <4>3. QED
        BY <4>1, <4>2, <2>1
    <3>2. QED
      BY <3>1, <2>4
  <2>9. WaitingHandoff
    BY <2>5, <2>6, <2>8 DEF WaitingHandoff, AwaitingManager, AckPending, SameLead
  <2>10. PICK t \in queue : FindsDue(t)
    BY <2>5, <2>7, <2>9 DEF HandoffWatched
  <2>11. t \in queue' /\ t.inbound \in Nat
    BY <2>9, <2>10 DEF TypeOK, Tasks
  <2>12. FindsDue(t)'
    BY <2>4, <2>10, <2>11 DEF FindsDue
  <2>13. QED
    BY <2>11, <2>12
<1>4. QED
  BY <1>2, <1>3 DEF Remarked

LEMMA QueueKept ==
    ASSUME TypeOK, Dated, HandoffWatched, UNCHANGED lost, SameLead, Remarked,
           clock'.sinceEscalation = clock.sinceEscalation, queue \subseteq queue'
    PROVE  HandoffWatched'
<1>1. NoTask \in queue /\ FindsDue(NoTask) => ~WaitingHandoff
  BY DEF FindsDue, NoTask, Task
<1>2. QED
  BY <1>1, StillWatched

LEMMA NotWaiting ==
    ASSUME \/ conv'.escalatedAt = 0 \/ conv'.status # "open" \/ conv'.assignee # Nobody
           \/ lost' # 0
    PROVE  HandoffWatched'
BY DEF HandoffWatched, WaitingHandoff, AwaitingManager, AckPending

LEMMA PostRemarks ==
    ASSUME TypeOK, NEW line \in Lines, line.kind \notin InboundKinds, Post(line)
    PROVE  Remarked /\ clock'.sinceEscalation = clock.sinceEscalation
<1>1. clock \in [Timers -> 0..Horizon] /\ "sinceEscalation" \in Timers
  BY DEF TypeOK, Timers
<1>2. QED
  BY <1>1 DEF Post, Remarked

LEMMA SimpleLines ==
    \A kind \in Kinds \ InboundKinds :
        Line(kind) \in Lines /\ Line(kind).kind \notin InboundKinds
BY LineType DEF Line

LEMMA LeadKept ==
    ASSUME TypeOK, \/ UNCHANGED conv
                   \/ conv' = [conv EXCEPT !.unread = FALSE]
                   \/ conv' = [conv EXCEPT !.unread = TRUE]
                   \/ conv' = [conv EXCEPT !.email = TRUE]
                   \/ \E n : conv' = [conv EXCEPT !.turns = n]
    PROVE  SameLead
<1>1. conv \in Rows
  BY DEF TypeOK
<1>2. QED
  BY <1>1, Zenon DEF Rows, SameLead

LEMMA ClientWatched ==
    ASSUME TypeOK, Dated, HandoffWatched, Client
    PROVE  HandoffWatched'
<1>1. conv \in Rows /\ Reopened(conv) \in Rows
  BY RowTypes DEF TypeOK
<1>2. conv.status = "closed" => Reopened(conv).escalatedAt = 0
  BY <1>1, Zenon DEF Reopened, Rows
<1>3. ASSUME NEW kind \in InboundKinds, ClientWrites(kind)
      PROVE  HandoffWatched'
  <2>1. CASE conv.status = "closed"
    <3>1. conv'.escalatedAt = 0
      BY <1>1, <1>2, <1>3, <2>1, Zenon DEF ClientWrites, Rows
    <3>2. QED
      BY <3>1, NotWaiting
  <2>2. CASE conv.status # "closed"
    <3>1. Reopened(conv) = conv /\ conv' = [conv EXCEPT !.unread = TRUE]
      BY <1>3, <2>2 DEF ClientWrites, Reopened
    <3>2. SameLead
      BY <3>1, LeadKept
    <3>3. PICK n \in Nat : n = Len(log) + 1 /\ log' = Append(log, Line(kind))
      BY <1>3 DEF ClientWrites, TypeOK
    <3>4. PICK since \in Nat : since = clock.sinceEscalation
      BY DEF TypeOK, Timers
    <3>5. clock'.sinceEscalation = since
      BY <1>3, <3>4 DEF ClientWrites, TypeOK, Timers
    <3>0. PICK t : t = Watchdog("inbound", n, TakeoverWait(conv, since))
      OBVIOUS
    <3>6. SUFFICES ASSUME WaitingHandoff' PROVE t \in queue' /\ FindsDue(t)'
      BY DEF HandoffWatched
    <3>7. conv.escalatedAt # 0 /\ conv.assignee = Nobody /\ ~RepliedSince(conv.escalatedAt)'
      BY <3>2, <3>6 DEF SameLead, WaitingHandoff, AwaitingManager, AckPending
    <3>8. Line(kind) \in Lines /\ conv.escalatedAt \in Nat
      BY <1>1, LineType DEF Kinds, Rows
    <3>9. ~RepliedSince(conv.escalatedAt)
      <4>1. PICK e \in Nat : e = conv.escalatedAt /\ e = conv'.escalatedAt
        BY <3>8, <3>2 DEF SameLead
      <4>2. ~RepliedSince(e)'
        BY <4>1, <3>7
      <4>3. QED
        BY <4>1, <4>2, <3>3, <3>8, OneMoreLine
    <3>10. AwaitingManager(conv) /\ ~Eligible(conv)
      BY <3>7, <3>9 DEF AwaitingManager, AckPending, Eligible
    <3>11. t \in queue'
      BY <1>3, <3>0, <3>1, <3>3, <3>4, <3>10 DEF ClientWrites, TasksOfInbound
    <3>12. ~RepliedSince(n)'
      <4>1. \A j \in DOMAIN log' : ~(j > n)
        BY <3>3, <3>8 DEF TypeOK
      <4>2. QED
        BY <4>1 DEF RepliedSince
    <3>13. t.job = "watchdog" /\ t.inbound = n /\ t.wait = TakeoverWait(conv, since)
      BY <3>0 DEF Watchdog, Task
    <3>14. TakeoverWait(conv, since) + since >= TakeoverDelay
      BY <3>4, <3>10, TimingAssumption DEF TakeoverWait, Greater
    <3>15. FindsDue(t)'
      BY <3>5, <3>12, <3>13, <3>14 DEF FindsDue
    <3>16. QED
      BY <3>11, <3>15
  <2>3. QED
    BY <2>1, <2>2
<1>4. CASE ClientReturns
  BY <1>2, <1>4, NotWaiting DEF ClientReturns
<1>5. CASE ClientGivesEmail
  <2>1. CASE conv.status = "closed"
    <3>1. conv'.escalatedAt = 0
      BY <1>1, <1>2, <1>5, <2>1, Zenon DEF ClientGivesEmail, Rows
    <3>2. QED
      BY <3>1, NotWaiting
  <2>2. CASE conv.status # "closed"
    <3>1. SameLead
      BY <1>5, <2>2, LeadKept DEF ClientGivesEmail, Reopened
    <3>2. QED
      BY <1>5, <3>1, QueueKept DEF ClientGivesEmail, Remarked
  <2>3. QED
    BY <2>1, <2>2
<1>6. QED
  BY <1>3, <1>4, <1>5 DEF Client

LEMMA StaffWatched ==
    ASSUME TypeOK, Dated, HandoffWatched, Staff
    PROVE  HandoffWatched'
<1>1. conv \in Rows
  BY DEF TypeOK
<1>2. PICK e \in 0..Len(log) : e = conv.escalatedAt
  BY <1>1 DEF Rows, Dated, TypeOK
<1>3. ASSUME NEW m \in Managers, StaffReply(m) PROVE HandoffWatched'
  <2>1. Line("reply") \in Lines /\ log' = Append(log, Line("reply"))
    BY <1>3, SimpleLines DEF StaffReply, Post, Kinds, InboundKinds
  <2>2. Line("reply").kind = "reply"
    BY DEF Line
  <2>3. RepliedSince(e)'
    BY <1>2, <2>1, <2>2, OneMoreLine
  <2>4. conv'.escalatedAt = e
    BY <1>1, <1>2, <1>3, Zenon DEF StaffReply, Rows
  <2>5. QED
    BY <2>3, <2>4 DEF HandoffWatched, WaitingHandoff, AwaitingManager, AckPending
<1>4. ASSUME NEW a \in Assignees, Assign(a) PROVE HandoffWatched'
  <2>1. Line("assigned") \in Lines /\ log' = Append(log, Line("assigned"))
    BY <1>4, SimpleLines DEF Assign, Post, Kinds, InboundKinds
  <2>2. Line("assigned").kind = "assigned"
    BY DEF Line
  <2>3. Reassigned(e)'
    BY <1>2, <2>1, <2>2, OneMoreLine
  <2>4. conv'.escalatedAt = e
    BY <1>1, <1>2, <1>4, Zenon DEF Assign, Rows
  <2>5. QED
    BY <2>3, <2>4 DEF HandoffWatched
<1>5. ASSUME NEW m \in Managers, TakeInApp(m) PROVE HandoffWatched'
  <2>1. conv'.assignee = m
    BY <1>1, <1>5, Zenon DEF TakeInApp, Rows
  <2>2. QED
    BY <2>1, NobodyAssumption, NotWaiting
<1>6. CASE StaffCloses
  <2>1. conv'.status = "closed"
    BY <1>1, <1>6, Zenon DEF StaffCloses, Rows
  <2>2. QED
    BY <2>1, NotWaiting
<1>7. CASE StaffNote
  <2>1. Remarked /\ clock'.sinceEscalation = clock.sinceEscalation
    BY <1>7, PostRemarks, SimpleLines DEF StaffNote, Kinds, InboundKinds
  <2>2. QED
    BY <1>7, <2>1, LeadKept, QueueKept DEF StaffNote
<1>8. CASE MarkRead \/ AdminOpens \/ AdminMarksRead
  BY <1>8, LeadKept, QueueKept DEF MarkRead, AdminOpens, AdminMarksRead, Remarked
<1>9. QED
  BY <1>3, <1>4, <1>5, <1>6, <1>7, <1>8 DEF Staff

LEMMA StartWatched ==
    ASSUME TypeOK, Dated, HandoffWatched, NEW w \in Workers, NEW t \in queue,
           \/ ReplyLoads(w, t) \/ ReplyContinues(w, t) \/ ReplyDeclinesContinue(w, t)
           \/ BusyFollowup(w, t) \/ WatchdogTakesOver(w, t) \/ WatchdogStandsDown(w, t)
    PROVE  HandoffWatched'
<1>1. conv \in Rows /\ queue' = queue \ {t} /\ t.wait = 0
  BY DEF TypeOK, ReplyLoads, ReplyContinues, ReplyDeclinesContinue, BusyFollowup,
         WatchdogTakesOver, WatchdogStandsDown, Starts
<1>2. CASE ReplyContinues(w, t)
  <2>1. conv'.escalatedAt = 0
    BY <1>1, <1>2, Zenon DEF ReplyContinues, Rows
  <2>2. QED
    BY <2>1, NotWaiting
<1>3. CASE WatchdogTakesOver(w, t)
  <2>1. conv'.escalatedAt = 0
    BY <1>1, <1>3, Zenon DEF WatchdogTakesOver, BotLeads, Rows
  <2>2. QED
    BY <2>1, NotWaiting
<1>4. CASE ReplyLoads(w, t) \/ ReplyDeclinesContinue(w, t) \/ BusyFollowup(w, t)
  <2>1. t.job # "watchdog"
    BY <1>4 DEF ReplyLoads, ReplyDeclinesContinue, BusyFollowup, Starts
  <2>2. Remarked /\ clock'.sinceEscalation = clock.sinceEscalation
    BY <1>4, PostRemarks, SimpleLines
       DEF ReplyLoads, ReplyDeclinesContinue, BusyFollowup, Kinds, InboundKinds, Remarked
  <2>3. SameLead /\ UNCHANGED lost
    BY <1>4, LeadKept DEF ReplyLoads, ReplyDeclinesContinue, BusyFollowup
  <2>4. t \in queue /\ FindsDue(t) => ~WaitingHandoff
    BY <2>1 DEF FindsDue
  <2>5. QED
    BY <1>1, <2>2, <2>3, <2>4, StillWatched
<1>5. CASE WatchdogStandsDown(w, t)
  <2>1. ASSUME FindsDue(t), WaitingHandoff PROVE FALSE
    <3>1. clock.sinceEscalation \in Nat
      BY DEF TypeOK, Timers
    <3>2. clock.sinceEscalation >= TakeoverDelay
      BY <1>1, <2>1, <3>1, TimingAssumption DEF FindsDue
    <3>3. conv.status = "open" /\ ~Eligible(conv) /\ TakeoverDue(conv)
      BY <2>1, <3>2 DEF WaitingHandoff, AwaitingManager, AckPending, Eligible, TakeoverDue
    <3>4. ~RepliedSince(t.inbound) /\ ~ManagerSilent(t.inbound)
      BY <1>5, <2>1 DEF FindsDue, WatchdogStandsDown
    <3>5. QED
      BY <3>3, <3>4 DEF ManagerSilent
  <2>2. SameLead /\ UNCHANGED lost /\ Remarked /\ UNCHANGED clock
    BY <1>5, LeadKept DEF WatchdogStandsDown, Remarked
  <2>3. QED
    BY <1>1, <2>1, <2>2, StillWatched
<1>6. QED
  BY <1>2, <1>3, <1>4, <1>5

\* A client who has written has written a last message.
LEMMA HasLatest ==
    ASSUME TypeOK, InboundIds # {}
    PROVE  LatestInbounds # {}
<1> DEFINE Before == OpToRel(<, Nat)
<1>1. IsWellFoundedOn(Before, Nat)
  BY NatLessThanWellFounded
<1>2. \A x, y \in Nat : y < x => <<y, x>> \in Before
  BY DEF OpToRel
<1> HIDE DEF Before
<1>3. Len(log) \in Nat /\ \A i \in InboundIds : i \in 1..Len(log)
  BY DEF TypeOK, InboundIds
<1> DEFINE Behind == {Len(log) - i : i \in InboundIds}
<1>4. Behind \subseteq Nat /\ Behind # {}
  BY <1>3
<1>5. PICK x \in Behind : \A y \in Behind : ~(<<y, x>> \in Before)
  BY <1>1, <1>4, WFMin
<1>6. PICK i \in InboundIds : x = Len(log) - i
  OBVIOUS
<1>7. ASSUME NEW j \in InboundIds, j > i PROVE FALSE
  <2>1. PICK y \in Behind : y = Len(log) - j
    OBVIOUS
  <2>2. x \in Nat /\ y \in Nat /\ y < x
    BY <1>3, <1>4, <1>6, <1>7, <2>1
  <2>3. QED
    BY <1>2, <1>5, <2>2, Zenon
<1>8. QED
  BY <1>7 DEF LatestInbounds, Superseded

LEMMA ContinueWatched ==
    ASSUME TypeOK, Anchored, Dated, HandoffWatched, NEW w \in Workers, ContinuesTask(w)
    PROVE  HandoffWatched'
<1>1. conv \in Rows
  BY DEF TypeOK
<1>2. CASE ReplyResumes(w)
  <2>1. BotLeads(conv) \in Rows /\ BotLeads(conv).escalatedAt = 0
    BY <1>1, RowTypes, Zenon DEF BotLeads, Rows
  <2>2. conv'.escalatedAt = 0
    BY <1>2, <2>1, Zenon DEF ReplyResumes, Rows
  <2>3. QED
    BY <2>2, NotWaiting
<1>3. CASE Escalate(w)
  <2>1. SUFFICES ASSUME WaitingHandoff' PROVE \E t \in queue' : FindsDue(t)'
    BY DEF HandoffWatched
  <2>2. worker[w].task.inbound \in InboundIds
    BY <1>3 DEF Escalate, Anchored
  <2>3. PICK i \in LatestInbounds : TRUE
    BY <2>2, HasLatest
  <2>4. log' = log /\ LatestInbounds' = LatestInbounds
    BY <1>3 DEF Escalate, LatestInbounds, Superseded, InboundIds
  <2>5. PICK c : /\ c = [conv EXCEPT !.aiActive = FALSE, !.escalatedAt = Len(log),
                                      !.unread = TRUE]
                 /\ conv' = c /\ queue' = queue \cup TasksOfEscalation(c)
    BY <1>3 DEF Escalate
  <2>6. AwaitingManager(c)
    <3>1. AwaitingManager(c)'
      BY <2>1, <2>5 DEF WaitingHandoff, AwaitingManager, AckPending
    <3>2. QED
      BY <3>1, <2>4 DEF AwaitingManager, AckPending, RepliedSince
  <2>7. PICK t : t = Watchdog("escalation", i, TakeoverWait(c, 0))
    OBVIOUS
  <2>8. t \in queue'
    BY <2>3, <2>5, <2>7 DEF TasksOfEscalation
  <2>9. t.job = "watchdog" /\ t.inbound = i /\ t.wait = TakeoverWait(c, 0)
    BY <2>7 DEF Watchdog, Task
  <2>10. TakeoverWait(c, 0) \in Nat /\ TakeoverWait(c, 0) >= TakeoverDelay
    BY <2>6, TimingAssumption DEF TakeoverWait, Greater
  <2>11. clock'.sinceEscalation = 0
    BY <1>3 DEF Escalate, TypeOK, Timers
  <2>12. ~RepliedSince(i)'
    BY <2>1, <2>3, <2>4 DEF WaitingHandoff
  <2>13. FindsDue(t)'
    BY <2>9, <2>10, <2>11, <2>12, TimingAssumption DEF FindsDue
  <2>14. QED
    BY <2>8, <2>13
<1>4. ASSUME NEW handoff \in BOOLEAN, ReplyAnswers(w, handoff) PROVE HandoffWatched'
  <2> DEFINE line == [kind |-> "ai", ref |-> worker[w].task.inbound]
  <2>1. line \in Lines /\ line.kind \notin InboundKinds
    BY DEF TypeOK, Slots, Tasks, Lines, Kinds, InboundKinds
  <2>2. Remarked /\ clock'.sinceEscalation = clock.sinceEscalation
    BY <1>4, <2>1, PostRemarks DEF ReplyAnswers
  <2>3. SameLead
    BY <1>4, LeadKept DEF ReplyAnswers
  <2>4. QED
    BY <1>4, <2>2, <2>3, QueueKept DEF ReplyAnswers
<1>5. CASE \/ ReplyLeavesToStaff(w) \/ ReplyAnnouncesResume(w) \/ ReplyGivesUp(w)
           \/ WatchdogAnnounces(w)
  <2>1. Remarked /\ clock'.sinceEscalation = clock.sinceEscalation
    BY <1>5, PostRemarks, SimpleLines
       DEF ReplyLeavesToStaff, ReplyAnnouncesResume, ReplyGivesUp, WatchdogAnnounces,
           Kinds, InboundKinds, Remarked
  <2>2. SameLead /\ UNCHANGED lost /\ queue \subseteq queue'
    BY <1>5, LeadKept
       DEF ReplyLeavesToStaff, ReplyAnnouncesResume, ReplyGivesUp, WatchdogAnnounces
  <2>3. QED
    BY <2>1, <2>2, QueueKept
<1>6. CASE \/ ReplySuperseded(w) \/ ReplyCalls(w) \/ ReplyAsksResume(w)
           \/ ReplyDropped(w) \/ ReplyRetries(w) \/ AlreadyEscalated(w)
  <2>1. SameLead /\ UNCHANGED <<log, clock, lost>> /\ queue \subseteq queue'
    BY <1>6, LeadKept DEF ReplySuperseded, ReplyCalls, ReplyAsksResume,
       ReplyDropped, ReplyRetries, AlreadyEscalated
  <2>2. QED
    BY <2>1, QueueKept DEF Remarked
<1>7. QED
  BY <1>2, <1>3, <1>4, <1>5, <1>6 DEF ContinuesTask

LEMMA SystemWatched ==
    ASSUME TypeOK, Dated, HandoffWatched, Housekeeping \/ Failure \/ Tick
    PROVE  HandoffWatched'
<1>1. conv \in Rows
  BY DEF TypeOK
<1>2. CASE HousekeepingCloses
  <2>1. conv'.status = "closed"
    BY <1>1, <1>2, Zenon DEF HousekeepingCloses, Rows
  <2>2. QED
    BY <2>1, NotWaiting
<1>3. CASE HousekeepingRescues \/ HousekeepingSelects
  BY <1>3, LeadKept, QueueKept DEF HousekeepingRescues, HousekeepingSelects, Remarked
<1>4. CASE Failure
  <2>1. lost' = lost + 1 /\ lost \in Nat
    BY <1>4, BoundAssumption DEF Failure, WorkerCrashes, TaskLost, TypeOK
  <2>2. QED
    BY <2>1, NotWaiting
<1>5. CASE Tick
  <2>1. SUFFICES ASSUME lost' = 0, WaitingHandoff', ~Reassigned(conv.escalatedAt)'
                 PROVE  \E t \in queue' : FindsDue(t)'
    BY DEF HandoffWatched
  <2>2. lost = 0 /\ WaitingHandoff /\ ~Reassigned(conv.escalatedAt)
    BY <1>5, <2>1 DEF Tick, WaitingHandoff, AwaitingManager, AckPending, RepliedSince,
       Reassigned, LatestInbounds, Superseded, InboundIds
  <2>3. PICK t \in queue : FindsDue(t)
    BY <2>2 DEF HandoffWatched
  <2>4. t \in Tasks /\ t.wait \in Nat
    BY DEF TypeOK, Tasks
  <2>5. PICK u \in queue' : u = [t EXCEPT !.wait = IF @ = 0 THEN 0 ELSE @ - 1]
    BY <1>5 DEF Tick
  <2>6. /\ u.job = t.job /\ u.inbound = t.inbound
        /\ u.wait = IF t.wait = 0 THEN 0 ELSE t.wait - 1
    BY <2>4, <2>5, Zenon DEF Tasks
  <2>7. clock.sinceEscalation \in 0..Horizon
    BY DEF TypeOK, Timers
  <2>8. clock'.sinceEscalation = Later(clock.sinceEscalation)
    BY <1>5, <2>2 DEF Tick, WaitingHandoff, AwaitingManager, AckPending, Escalated
  <2>9. t.wait + clock.sinceEscalation >= TakeoverDelay
    BY <2>3 DEF FindsDue
  <2>10. u.wait + clock'.sinceEscalation >= TakeoverDelay
    BY <2>4, <2>6, <2>7, <2>8, <2>9, TimingAssumption DEF Later
  <2>11. ~RepliedSince(u.inbound)'
    BY <1>5, <2>3, <2>6 DEF FindsDue, RepliedSince, Tick
  <2>12. FindsDue(u)'
    BY <2>3, <2>6, <2>10, <2>11 DEF FindsDue
  <2>13. QED
    BY <2>12
<1>6. QED
  BY <1>2, <1>3, <1>4, <1>5 DEF Housekeeping

LEMMA DatedStep ==
    ASSUME TypeOK, Anchored, Dated, [Next]_vars
    PROVE  Dated'
<1>1. conv \in Rows /\ Len(log) \in Nat /\ Len(log') \in Nat /\ Len(log) <= Len(log')
  <2>1. log' = log \/ \E line \in Lines : log' = Append(log, line)
    BY LogStep DEF Appends
  <2>2. QED
    BY <2>1 DEF TypeOK
<1>2. SUFFICES conv'.escalatedAt \in {0, conv.escalatedAt, Len(log)}
  <2>1. conv.escalatedAt \in Nat
    BY <1>1 DEF Rows
  <2>2. QED
    BY <1>1, <2>1 DEF Dated
<1>3. Reopened(conv) \in Rows /\ Reopened(conv).escalatedAt \in {0, conv.escalatedAt}
  BY <1>1, RowTypes, Zenon DEF Reopened, Rows
<1>4. BotLeads(conv) \in Rows /\ BotLeads(conv).escalatedAt = 0
  BY <1>1, RowTypes, Zenon DEF BotLeads, Rows
<1>5. CASE UNCHANGED conv
  BY <1>5
<1>6. CASE Client
  BY <1>3, <1>6, Zenon DEF Client, ClientWrites, ClientReturns, ClientGivesEmail, Rows
<1>7. CASE Staff
  BY <1>1, <1>7, Zenon DEF Staff, StaffReply, TakeInApp, Assign, StaffNote,
     StaffCloses, MarkRead, AdminOpens, AdminMarksRead, Rows
<1>8. ASSUME NEW w \in Workers,
             StartsReply(w) \/ StartsBusyFollowup(w) \/ StartsWatchdog(w)
      PROVE  conv'.escalatedAt \in {0, conv.escalatedAt}
  BY <1>1, <1>4, <1>8, Zenon DEF StartsReply, StartsBusyFollowup, StartsWatchdog,
     ReplyLoads, ReplyContinues, ReplyDeclinesContinue, BusyFollowup,
     WatchdogTakesOver, WatchdogStandsDown, Rows
<1>9. ASSUME NEW w \in Workers, ContinuesTask(w)
      PROVE  conv'.escalatedAt \in {0, conv.escalatedAt, Len(log)}
  <2>1. CASE ReplyResumes(w)
    BY <1>4, <2>1, Zenon DEF ReplyResumes, Rows
  <2>2. CASE Escalate(w)
    BY <1>1, <2>2, Zenon DEF Escalate, Rows
  <2>3. ASSUME NEW handoff \in BOOLEAN, ReplyAnswers(w, handoff)
        PROVE  conv'.escalatedAt = conv.escalatedAt
    BY <1>1, <2>3, Zenon DEF ReplyAnswers, Rows
  <2>4. QED
    BY <1>9, <2>1, <2>2, <2>3 DEF ContinuesTask, ReplySuperseded, ReplyCalls,
       ReplyAsksResume, ReplyLeavesToStaff, ReplyAnnouncesResume, ReplyDropped,
       ReplyRetries, ReplyGivesUp, AlreadyEscalated, WatchdogAnnounces
<1>10. CASE Housekeeping \/ Failure \/ Tick
  BY <1>1, <1>10, Zenon DEF Housekeeping, HousekeepingRescues, HousekeepingSelects,
     HousekeepingCloses, Failure, WorkerCrashes, TaskLost, Tick, Rows
<1>11. QED
  BY <1>5, <1>6, <1>7, <1>8, <1>9, <1>10 DEF Next, vars

LEMMA WatchedStep ==
    ASSUME TypeOK, Anchored, Dated, HandoffWatched, [Next]_vars
    PROVE  HandoffWatched'
<1>1. CASE UNCHANGED vars
  BY <1>1, LeadKept, QueueKept DEF vars, Remarked
<1>2. ASSUME NEW w \in Workers,
             StartsReply(w) \/ StartsBusyFollowup(w) \/ StartsWatchdog(w)
      PROVE  HandoffWatched'
  BY <1>2, StartWatched DEF StartsReply, StartsBusyFollowup, StartsWatchdog
<1>3. QED
  BY <1>1, <1>2, ClientWatched, StaffWatched, ContinueWatched, SystemWatched DEF Next

\* A handoff that nobody picks up has, at every moment, a watchdog that will find it
\* due, so that the silence of people cannot last for want of a task
\* (support_manager_silence_watchdog and its callers).
THEOREM HandoffIsWatched == Spec => []HandoffWatched
<1>1. Init => Anchored /\ Dated /\ HandoffWatched
  BY DEF Init, Anchored, Idle, Dated, HandoffWatched, WaitingHandoff, AwaitingManager,
     AckPending
<1>2. TypeOK /\ Anchored /\ Dated /\ HandoffWatched /\ [Next]_vars
        => (Anchored /\ Dated /\ HandoffWatched)'
  BY AnchoredStep, DatedStep, WatchedStep
<1>3. QED
  BY <1>1, <1>2, TypeCorrect, PTL DEF Spec

-----------------------------------------------------------------------------
(***************************************************************************)
(* No message is left in silence while the bot leads.                      *)
(***************************************************************************)

\* A worker that may call the model holds a reply task.
Replying ==
    \A w \in Workers : worker[w].pc \in {"loaded", "resuming", "resumed", "generating"}
                           => worker[w].task.job = "reply"

LEMMA ReplyingStep ==
    ASSUME TypeOK, Replying, [Next]_vars
    PROVE  Replying'
<1>1. ASSUME NEW w \in Workers, worker' = [worker EXCEPT ![w] = Idle]
      PROVE  Replying'
  BY <1>1 DEF Replying, Idle, TypeOK
<1>2. ASSUME NEW w \in Workers, NEW s \in Slots, worker' = [worker EXCEPT ![w] = s],
             s.task.job = "reply" \/ s.pc \in {"idle", "escalating", "tookOver"}
      PROVE  Replying'
  BY <1>2 DEF Replying, TypeOK
<1>3. ASSUME UNCHANGED worker PROVE Replying'
  BY <1>3 DEF Replying
<1>4. ASSUME NEW w \in Workers, NEW t \in queue, t.job = "reply",
             NEW c, Loads(w, t, c)
      PROVE  Replying'
  BY <1>4 DEF Loads, Replying, TypeOK
<1>5. ASSUME NEW w \in Workers, StartsReply(w) PROVE Replying'
  BY <1>3, <1>4, <1>5 DEF StartsReply, ReplyLoads, ReplyContinues,
     ReplyDeclinesContinue, Starts
<1>6. ASSUME NEW w \in Workers, StartsBusyFollowup(w) \/ StartsWatchdog(w)
      PROVE  Replying'
  <2>1. ASSUME NEW t \in queue, WatchdogTakesOver(w, t) PROVE Replying'
    BY <2>1 DEF WatchdogTakesOver, Replying, TypeOK, Idle
  <2>2. QED
    BY <1>3, <1>6, <2>1 DEF StartsBusyFollowup, StartsWatchdog, BusyFollowup,
       WatchdogStandsDown
<1>7. ASSUME NEW w \in Workers, ContinuesTask(w) PROVE Replying'
  <2>1. worker[w] \in Slots
    BY DEF TypeOK
  <2>2. ASSUME NEW pc, worker' = [worker EXCEPT ![w].pc = pc],
               \/ worker[w].pc \in {"loaded", "resuming", "resumed", "generating"}
               \/ pc \in {"idle", "escalating", "tookOver"}
        PROVE  Replying'
    BY <2>1, <2>2, Zenon DEF Replying, TypeOK, Slots
  <2>3. CASE ReplyAsksResume(w)
    BY <2>1, <2>3 DEF ReplyAsksResume, Replying, TypeOK, Slots
  <2>4. CASE ReplyAnnouncesResume(w)
    BY <2>1, <2>4 DEF ReplyAnnouncesResume, Replying, TypeOK, Slots
  <2>5. CASE ReplyCalls(w) \/ ReplyResumes(w) \/ ReplyGivesUp(w)
    BY <2>2, <2>5 DEF ReplyCalls, ReplyResumes, ReplyGivesUp, Moves
  <2>6. ASSUME NEW handoff \in BOOLEAN, ReplyAnswers(w, handoff) PROVE Replying'
    BY <1>1, <2>2, <2>6 DEF ReplyAnswers, Moves, Finish
  <2>7. CASE \/ ReplySuperseded(w) \/ ReplyLeavesToStaff(w) \/ ReplyDropped(w)
             \/ ReplyRetries(w) \/ Escalate(w) \/ AlreadyEscalated(w)
             \/ WatchdogAnnounces(w)
    BY <1>1, <2>7 DEF ReplySuperseded, ReplyLeavesToStaff, ReplyDropped, ReplyRetries,
       Escalate, AlreadyEscalated, WatchdogAnnounces, Finish
  <2>8. QED
    BY <1>7, <2>3, <2>4, <2>5, <2>6, <2>7 DEF ContinuesTask
<1>8. CASE UNCHANGED vars \/ Client \/ Staff \/ Housekeeping \/ Tick
  BY <1>3, <1>8 DEF vars, Client, ClientWrites, ClientReturns, ClientGivesEmail, Staff,
     StaffReply, TakeInApp, Assign, StaffNote, StaffCloses, MarkRead, AdminOpens,
     AdminMarksRead, Housekeeping, HousekeepingRescues, HousekeepingSelects,
     HousekeepingCloses, Tick
<1>9. CASE Failure
  BY <1>1, <1>3, <1>9 DEF Failure, WorkerCrashes, TaskLost, Finish
<1>10. QED
  BY <1>5, <1>6, <1>7, <1>8, <1>9 DEF Next

\* The client's last message is one message.
LEMMA OneLatest ==
    ASSUME TypeOK, NEW i \in LatestInbounds, NEW j \in InboundIds
    PROVE  /\ j <= i
           /\ ~Superseded(j) => j = i
<1>1. i \in Nat /\ j \in Nat /\ ~Superseded(i) /\ i \in InboundIds
  BY DEF LatestInbounds, InboundIds, TypeOK
<1>2. QED
  BY <1>1 DEF Superseded

\* A message that was heard stays so, and any line of the two sides is heard.
LEMMA HeardGrows ==
    ASSUME TypeOK, NEW line \in Lines, line.kind \notin InboundKinds,
           log' = Append(log, line)
    PROVE  /\ LatestInbounds' = LatestInbounds
           /\ ContinuesLast' => ContinuesLast
           /\ \A i \in LatestInbounds :
                 /\ Heard(i) => Heard(i)'
                 /\ line.kind \in {"ai", "notice", "busy", "reply", "assigned"} => Heard(i)'
<1>1. LatestInbounds' = LatestInbounds
  BY OneMoreLine
<1>2. \A j \in DOMAIN log : j \in DOMAIN log' /\ log'[j] = log[j]
  BY OneMoreLine
<1>3. \A j \in InboundIds : j \in DOMAIN log
  BY DEF InboundIds
<1>4. InboundIds \subseteq InboundIds'
  BY <1>2, <1>3, Zenon DEF InboundIds
<1>5. \A j \in InboundIds : Superseded(j) => Superseded(j)'
  BY <1>4, Zenon DEF Superseded
<1>6. ContinuesLast' => ContinuesLast
  BY <1>2, <1>3, <1>4, <1>5, Zenon DEF ContinuesLast
<1>7. ASSUME NEW i \in LatestInbounds
      PROVE  /\ Heard(i) => Heard(i)'
             /\ line.kind \in {"ai", "notice", "busy", "reply", "assigned"} => Heard(i)'
  <2>1. i \in 0..Len(log) /\ i \in Nat /\ Len(log) \in Nat
    BY DEF LatestInbounds, InboundIds, TypeOK
  <2>2. AiAnsweredAfter(i) => AiAnsweredAfter(i)'
    BY <1>2 DEF AiAnsweredAfter
  <2>3. Heard(i) => Heard(i)'
    BY <2>1, <2>2, OneMoreLine DEF Heard
  <2>4. Len(log) + 1 \in DOMAIN log' /\ log'[Len(log) + 1] = line /\ Len(log) + 1 > i
    BY <2>1, OneMoreLine
  <2>5. line.kind \in {"ai", "notice", "busy"} => AiAnsweredAfter(i)'
    BY <2>4 DEF AiAnsweredAfter
  <2>6. line.kind \in {"reply", "assigned"} => RepliedSince(i)' \/ Reassigned(i)'
    BY <2>1, OneMoreLine
  <2>7. QED
    BY <2>3, <2>5, <2>6 DEF Heard
<1>8. QED
  BY <1>1, <1>6, <1>7

\* A line after which nobody is in silence.
LEMMA Spoken ==
    ASSUME TypeOK, NEW line \in Lines, log' = Append(log, line),
           line.kind \in {"ai", "notice", "busy", "reply", "assigned"}
    PROVE  NeverInSilence'
<1>1. line.kind \notin InboundKinds
  BY DEF InboundKinds
<1>2. \A i \in LatestInbounds' : Heard(i)'
  BY <1>1, HeardGrows
<1>3. QED
  BY <1>2 DEF NeverInSilence

\* The bot led already, and what was under way still is.
LEMMA StillUnderway ==
    ASSUME TypeOK, NeverInSilence, UNCHANGED lost, Remarked,
           Eligible(conv)' => Eligible(conv),
           \A i \in LatestInbounds : Eligible(conv) /\ Underway(i) => Underway(i)'
    PROVE  NeverInSilence'
<1>1. SUFFICES ASSUME lost' = 0, Operations \cap {"return", "email"} = {},
                      Eligible(conv)', ContinuesLast'
               PROVE  \A i \in LatestInbounds' : Heard(i)' \/ Underway(i)'
  BY DEF NeverInSilence
<1>2. /\ LatestInbounds' = LatestInbounds
      /\ ContinuesLast' => ContinuesLast
      /\ \A i \in LatestInbounds : Heard(i) => Heard(i)'
  <2>1. CASE log' = log
    BY <2>1 DEF LatestInbounds, Superseded, InboundIds, ContinuesLast, Heard,
       AiAnsweredAfter, RepliedSince, Reassigned
  <2>2. QED
    BY <2>1, HeardGrows DEF Remarked
<1>3. \A i \in LatestInbounds : Heard(i) \/ Underway(i)
  BY <1>1, <1>2 DEF NeverInSilence
<1>4. QED
  BY <1>1, <1>2, <1>3

\* Nothing that is under way stops.
LEMMA WorkKept ==
    ASSUME TypeOK, NeverInSilence, UNCHANGED <<lost, worker>>, Remarked,
           Eligible(conv)' => Eligible(conv),
           \A t \in queue : t.job = "reply" => t \in queue'
    PROVE  NeverInSilence'
<1>1. \A i \in LatestInbounds : Underway(i) => Underway(i)'
  BY DEF Underway
<1>2. QED
  BY <1>1, StillUnderway

\* Worker w moves; the others and the queue's replies to anything else stay.
LEMMA OtherWork ==
    ASSUME TypeOK, NEW w \in Workers, NEW s, worker' = [worker EXCEPT ![w] = s],
           queue \subseteq queue', NEW i, Underway(i)
    PROVE  \/ Underway(i)'
           \/ /\ worker[w].task.inbound = i
              /\ \/ worker[w].pc = "loaded" /\ worker[w].eligible
                 \/ worker[w].pc = "generating"
           \/ worker[w].pc \in {"resumed", "tookOver"}
<1>1. worker \in [Workers -> Slots]
  BY DEF TypeOK
<1>2. \A v \in Workers : v # w => worker'[v] = worker[v]
  BY <1>1
<1>3. QED
  BY <1>2, Zenon DEF Underway

LEMMA ClientHeard ==
    ASSUME TypeOK, NeverInSilence, Client
    PROVE  NeverInSilence'
<1>1. ASSUME NEW kind \in InboundKinds, ClientWrites(kind) PROVE NeverInSilence'
  <2>1. PICK n : n = Len(log) + 1 /\ log' = Append(log, Line(kind))
    BY <1>1 DEF ClientWrites
  <2>2. Line(kind) \in Lines /\ Line(kind).kind \in InboundKinds
    BY LineType DEF Line, Kinds
  <2>3. LatestInbounds' = {n}
    BY <2>1, <2>2, OneMoreLine
  <2>4. ReplyTask("inbound", n) \in queue'
    BY <1>1, <2>1 DEF ClientWrites, TasksOfInbound
  <2>5. Underway(n)'
    BY <2>4 DEF Underway, ReplyTask, Task
  <2>6. QED
    BY <2>3, <2>5 DEF NeverInSilence
<1>2. CASE ClientReturns
  BY <1>2 DEF ClientReturns, NeverInSilence
<1>3. CASE ClientGivesEmail
  BY <1>3 DEF ClientGivesEmail, NeverInSilence
<1>4. QED
  BY <1>1, <1>2, <1>3 DEF Client

LEMMA StaffHeard ==
    ASSUME TypeOK, NeverInSilence, Staff
    PROVE  NeverInSilence'
<1>1. conv \in Rows
  BY DEF TypeOK
<1>2. ASSUME NEW m \in Managers, StaffReply(m) PROVE NeverInSilence'
  BY <1>2, Spoken, LineType DEF StaffReply, Post, Kinds, Line
<1>3. ASSUME NEW a \in Assignees, Assign(a) PROVE NeverInSilence'
  BY <1>3, Spoken, LineType DEF Assign, Post, Kinds, Line
<1>4. ASSUME NEW m \in Managers, TakeInApp(m) PROVE NeverInSilence'
  <2>1. conv'.assignee = m
    BY <1>1, <1>4, Zenon DEF TakeInApp, Rows
  <2>2. QED
    BY <2>1, NobodyAssumption DEF NeverInSilence, Eligible
<1>5. CASE StaffCloses \/ StaffNote \/ MarkRead \/ AdminOpens \/ AdminMarksRead
  <2>1. Eligible(conv)' => Eligible(conv)
    BY <1>1, <1>5, Zenon DEF StaffCloses, StaffNote, MarkRead, AdminOpens,
       AdminMarksRead, Rows, Eligible
  <2>2. Remarked
    BY <1>5, PostRemarks, SimpleLines DEF StaffCloses, StaffNote, MarkRead, AdminOpens,
       AdminMarksRead, Kinds, InboundKinds, Remarked
  <2>3. UNCHANGED <<lost, worker, queue>>
    BY <1>5 DEF StaffCloses, StaffNote, MarkRead, AdminOpens, AdminMarksRead
  <2>4. QED
    BY <2>1, <2>2, <2>3, WorkKept
<1>6. QED
  BY <1>2, <1>3, <1>4, <1>5 DEF Staff

LEMMA StartHeard ==
    ASSUME TypeOK, Anchored, NeverInSilence, NEW w \in Workers, NEW t \in queue,
           \/ ReplyLoads(w, t) \/ ReplyContinues(w, t) \/ ReplyDeclinesContinue(w, t)
           \/ BusyFollowup(w, t) \/ WatchdogTakesOver(w, t) \/ WatchdogStandsDown(w, t)
    PROVE  NeverInSilence'
<1>1. /\ worker \in [Workers -> Slots] /\ worker[w].pc = "idle"
      /\ queue' = queue \ {t} /\ UNCHANGED lost
  BY DEF TypeOK, Starts, ReplyLoads, ReplyContinues, ReplyDeclinesContinue,
     BusyFollowup, WatchdogTakesOver, WatchdogStandsDown
<1>2. ASSUME NEW c, Loads(w, t, c), Eligible(c), t.job = "reply",
             NEW i, i = t.inbound \/ Underway(i)
      PROVE  Underway(i)'
  <2>1. /\ worker'[w].pc = "loaded" /\ worker'[w].eligible
        /\ worker'[w].task.inbound = t.inbound
        /\ \A v \in Workers : v # w => worker'[v] = worker[v]
    BY <1>1, <1>2 DEF Loads
  <2>2. CASE i = t.inbound
    BY <2>1, <2>2 DEF Underway
  <2>3. CASE i # t.inbound
    BY <1>1, <1>2, <2>1, <2>3, Zenon DEF Underway
  <2>4. QED
    BY <2>2, <2>3
<1>3. CASE ReplyLoads(w, t)
  <2>1. UNCHANGED <<conv, log>> /\ Loads(w, t, conv) /\ t.job = "reply"
    BY <1>3 DEF ReplyLoads, Starts
  <2>2. \A i \in LatestInbounds : Eligible(conv) /\ Underway(i) => Underway(i)'
    BY <1>2, <2>1
  <2>3. QED
    BY <1>1, <2>1, <2>2, StillUnderway DEF Remarked, Eligible
<1>4. CASE ReplyContinues(w, t)
  <2>1. PICK c : conv' = c /\ Loads(w, t, c)
    BY <1>4 DEF ReplyContinues
  <2>2. /\ log' = log /\ t.job = "reply" /\ t.inbound \in InboundIds
        /\ log[t.inbound].kind = "continue"
    BY <1>4 DEF ReplyContinues, Starts, Anchored
  <2>3. SUFFICES ASSUME Eligible(conv)', ContinuesLast',
                        NEW i \in LatestInbounds'
                 PROVE  Underway(i)'
    BY DEF NeverInSilence
  <2>4. ContinuesLast /\ i \in LatestInbounds
    BY <2>2, <2>3 DEF ContinuesLast, LatestInbounds, Superseded, InboundIds
  <2>5. i = t.inbound
    BY <2>2, <2>4, OneLatest DEF ContinuesLast
  <2>6. Eligible(c)
    BY <2>1, <2>3
  <2>7. QED
    BY <1>2, <2>1, <2>2, <2>5, <2>6
<1>5. CASE ReplyDeclinesContinue(w, t)
  BY <1>5, Spoken, LineType DEF ReplyDeclinesContinue, Post, Kinds, Line
<1>6. CASE BusyFollowup(w, t)
  <2>1. CASE NeedsBusyFollowup
    BY <1>6, <2>1, Spoken, LineType DEF BusyFollowup, Post, Kinds, Line
  <2>2. CASE ~NeedsBusyFollowup
    <3>1. UNCHANGED <<conv, worker, log>> /\ t.job # "reply"
      BY <1>6, <2>2 DEF BusyFollowup, Starts
    <3>2. QED
      BY <1>1, <3>1, WorkKept DEF Remarked, Eligible
  <2>3. QED
    BY <2>1, <2>2
<1>7. CASE WatchdogTakesOver(w, t)
  <2>1. worker'[w].pc = "tookOver"
    BY <1>1, <1>7 DEF WatchdogTakesOver, Idle
  <2>2. \A i \in LatestInbounds' : Underway(i)'
    BY <2>1, Zenon DEF Underway
  <2>3. QED
    BY <2>2 DEF NeverInSilence
<1>8. CASE WatchdogStandsDown(w, t)
  <2>1. UNCHANGED <<conv, worker, log>> /\ t.job # "reply"
    BY <1>8 DEF WatchdogStandsDown, Starts
  <2>2. QED
    BY <1>1, <2>1, WorkKept DEF Remarked, Eligible
<1>9. QED
  BY <1>3, <1>4, <1>5, <1>6, <1>7, <1>8

LEMMA ContinueHeard ==
    ASSUME TypeOK, Anchored, Replying, NeverInSilence, NEW w \in Workers,
           ContinuesTask(w)
    PROVE  NeverInSilence'
<1>1. /\ worker \in [Workers -> Slots] /\ worker[w] \in Slots
      /\ worker[w].task \in Tasks /\ conv \in Rows
  BY DEF TypeOK, Slots
<1>2. ASSUME NEW kind \in {"notice"}, Post(Line(kind)) PROVE NeverInSilence'
  BY <1>2, Spoken, LineType DEF Post, Kinds, Line
<1>3. ASSUME worker' = [worker EXCEPT ![w] = Idle], UNCHANGED <<conv, lost>>,
             queue \subseteq queue', Remarked,
             worker[w].pc \notin {"resumed", "tookOver"},
             ASSUME NEW i \in LatestInbounds, worker[w].task.inbound = i,
                    \/ worker[w].pc = "loaded" /\ worker[w].eligible
                    \/ worker[w].pc = "generating",
                    Eligible(conv)
             PROVE  Underway(i)'
      PROVE  NeverInSilence'
  <2>1. \A i \in LatestInbounds : Eligible(conv) /\ Underway(i) => Underway(i)'
    BY <1>3, OtherWork
  <2>2. QED
    BY <1>3, <2>1, StillUnderway DEF Eligible
<1>4. CASE ReplySuperseded(w)
  BY <1>3, <1>4 DEF ReplySuperseded, Finish, Remarked, LatestInbounds
<1>5. CASE ReplyCalls(w)
  <2>1. /\ worker'[w].pc = "generating" /\ worker'[w].task = worker[w].task
        /\ worker' = [worker EXCEPT ![w] = worker'[w]]
    BY <1>1, <1>5, Zenon DEF ReplyCalls, Moves, Slots
  <2>2. ASSUME NEW i, Underway(i) PROVE Underway(i)'
    <3>1. \/ Underway(i)'
          \/ worker[w].task.inbound = i
      BY <1>5, <2>1, <2>2, OtherWork DEF ReplyCalls
    <3>2. worker[w].task.inbound = i => Underway(i)'
      BY <2>1, Zenon DEF Underway
    <3>3. QED
      BY <3>1, <3>2
  <2>3. QED
    BY <1>5, <2>2, StillUnderway DEF ReplyCalls, Remarked, Eligible
<1>6. CASE ReplyAsksResume(w)
  <2>1. PICK s : worker' = [worker EXCEPT ![w] = s]
    BY <1>6 DEF ReplyAsksResume
  <2>2. ASSUME NEW i, Underway(i) PROVE Underway(i)'
    BY <1>6, <2>1, <2>2, OtherWork DEF ReplyAsksResume
  <2>3. QED
    BY <1>6, <2>2, StillUnderway DEF ReplyAsksResume, Remarked, Eligible
<1>7. CASE ReplyResumes(w)
  <2>1. worker'[w].pc = "resumed"
    BY <1>1, <1>7, Zenon DEF ReplyResumes, Moves, Slots
  <2>2. \A i \in LatestInbounds' : Underway(i)'
    BY <2>1, Zenon DEF Underway
  <2>3. QED
    BY <2>2 DEF NeverInSilence
<1>8. CASE ReplyLeavesToStaff(w)
  <2>1. CASE log[worker[w].task.inbound].kind = "continue"
    BY <1>2, <1>8, <2>1 DEF ReplyLeavesToStaff
  <2>2. CASE log[worker[w].task.inbound].kind # "continue"
    BY <1>3, <1>8, <2>2 DEF ReplyLeavesToStaff, Finish, Remarked
  <2>3. QED
    BY <2>1, <2>2
<1>9. CASE ReplyAnnouncesResume(w) \/ ReplyGivesUp(w) \/ WatchdogAnnounces(w)
  BY <1>2, <1>9 DEF ReplyAnnouncesResume, ReplyGivesUp, WatchdogAnnounces
<1>10. ASSUME NEW handoff \in BOOLEAN, ReplyAnswers(w, handoff) PROVE NeverInSilence'
  <2> DEFINE line == [kind |-> "ai", ref |-> worker[w].task.inbound]
  <2>1. line \in Lines /\ line.kind = "ai"
    BY <1>1 DEF Tasks, Lines, Kinds
  <2>2. log' = Append(log, line)
    BY <1>10 DEF ReplyAnswers, Post
  <2>3. QED
    BY <2>1, <2>2, Spoken
<1>11. CASE ReplyDropped(w)
  <2>1. ASSUME NEW i \in LatestInbounds, worker[w].task.inbound = i, Eligible(conv)
        PROVE  FALSE
    BY <1>11, <2>1 DEF ReplyDropped, MayAnswer, LatestInbounds
  <2>2. QED
    BY <1>3, <1>11, <2>1 DEF ReplyDropped, Finish, Remarked
<1>12. CASE ReplyRetries(w)
  <2>1. PICK t : t = [worker[w].task EXCEPT !.retries = @ + 1] /\ t \in queue'
    BY <1>12 DEF ReplyRetries, Retry
  <2>2. t.job = "reply" /\ t.inbound = worker[w].task.inbound
    BY <1>1, <1>12, <2>1 DEF ReplyRetries, Replying, Tasks
  <2>3. ASSUME NEW i, worker[w].task.inbound = i PROVE Underway(i)'
    BY <2>1, <2>2, <2>3 DEF Underway
  <2>4. QED
    BY <1>3, <1>12, <2>3 DEF ReplyRetries, Finish, Remarked
<1>13. CASE Escalate(w)
  <2>1. conv'.aiActive = FALSE
    BY <1>1, <1>13, Zenon DEF Escalate, Rows
  <2>2. QED
    BY <2>1 DEF NeverInSilence, Eligible
<1>14. CASE AlreadyEscalated(w)
  BY <1>3, <1>14 DEF AlreadyEscalated, Finish, Remarked
<1>15. QED
  BY <1>4, <1>5, <1>6, <1>7, <1>8, <1>9, <1>10, <1>11, <1>12, <1>13, <1>14
     DEF ContinuesTask

LEMMA SystemHeard ==
    ASSUME TypeOK, NeverInSilence, Housekeeping \/ Failure \/ Tick
    PROVE  NeverInSilence'
<1>1. conv \in Rows
  BY DEF TypeOK
<1>2. CASE HousekeepingRescues \/ HousekeepingSelects
  BY <1>2, WorkKept DEF HousekeepingRescues, HousekeepingSelects, Remarked, Eligible
<1>3. CASE HousekeepingCloses
  <2>1. Eligible(conv)' => Eligible(conv)
    BY <1>1, <1>3, Zenon DEF HousekeepingCloses, Rows, Eligible
  <2>2. Remarked
    BY <1>3, PostRemarks, SimpleLines DEF HousekeepingCloses, Kinds, InboundKinds
  <2>3. QED
    BY <1>3, <2>1, <2>2, WorkKept DEF HousekeepingCloses
<1>4. CASE Failure
  <2>1. lost' = lost + 1 /\ lost \in Nat
    BY <1>4, BoundAssumption DEF Failure, WorkerCrashes, TaskLost, TypeOK
  <2>2. QED
    BY <2>1 DEF NeverInSilence
<1>5. CASE Tick
  <2>1. ASSUME NEW t \in queue
        PROVE  \E u \in queue' : u.job = t.job /\ u.inbound = t.inbound
    <3>1. PICK u \in queue' : u = [t EXCEPT !.wait = IF @ = 0 THEN 0 ELSE @ - 1]
      BY <1>5 DEF Tick
    <3>2. t \in Tasks
      BY DEF TypeOK
    <3>3. QED
      BY <3>1, <3>2, Zenon DEF Tasks
  <2>2. worker' = worker
    BY <1>5 DEF Tick
  <2>3. \A i \in LatestInbounds : Underway(i) => Underway(i)'
    BY <2>1, <2>2, Zenon DEF Underway
  <2>4. QED
    BY <1>5, <2>3, StillUnderway DEF Tick, Remarked, Eligible
<1>6. QED
  BY <1>2, <1>3, <1>4, <1>5 DEF Housekeeping

LEMMA HeardStep ==
    ASSUME TypeOK, Anchored, Replying, NeverInSilence, [Next]_vars
    PROVE  NeverInSilence'
<1>1. CASE UNCHANGED vars
  BY <1>1, WorkKept DEF vars, Remarked, Eligible
<1>2. ASSUME NEW w \in Workers,
             StartsReply(w) \/ StartsBusyFollowup(w) \/ StartsWatchdog(w)
      PROVE  NeverInSilence'
  BY <1>2, StartHeard DEF StartsReply, StartsBusyFollowup, StartsWatchdog
<1>3. QED
  BY <1>1, <1>2, ClientHeard, StaffHeard, ContinueHeard, SystemHeard DEF Next

\* While the bot leads and no task has been lost, the client's last message has been
\* answered by somebody or the bot is on its way to it: no order of workers, retries,
\* takeovers and resumptions leaves it without both (gigachat_reply,
\* support_manager_silence_watchdog).
THEOREM SilenceIsBroken == Spec => []NeverInSilence
<1>1. Init => Anchored /\ Replying /\ NeverInSilence
  BY DEF Init, Anchored, Replying, Idle, NeverInSilence, LatestInbounds, InboundIds
<1>2. TypeOK /\ Anchored /\ Replying /\ NeverInSilence /\ [Next]_vars
        => (Anchored /\ Replying /\ NeverInSilence)'
  BY AnchoredStep, ReplyingStep, HeardStep
<1>3. QED
  BY <1>1, <1>2, TypeCorrect, PTL DEF Spec
=============================================================================
