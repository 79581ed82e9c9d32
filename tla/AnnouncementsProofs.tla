------------------------- MODULE AnnouncementsProofs -------------------------
(***************************************************************************)
(* Theorems about Announcements, for any number of channels, calls,        *)
(* editors, retries, forced calls and mishaps.                             *)
(***************************************************************************)
EXTENDS Announcements, FiniteSetTheorems, TLAPS

-----------------------------------------------------------------------------
(* Types                                                                   *)

\* A POST is sent once or more often
LEMMA AttemptsType ==
    ASSUME NEW ch
    PROVE  Attempts(ch) \in Nat /\ Attempts(ch) >= 1
  BY ChannelsAssumption DEF Attempts

LEMMA CallTypes ==
    /\ Idle \in CallType
    /\ \A kind \in Kinds : Begin(kind) \in CallType
  BY ChannelsAssumption, BoundAssumption DEF Idle, Begin, CallType, Channels, Kinds

\* Going on to the next channel, or to a new point of this one.
LEMMA OnwardType ==
    ASSUME TypeOK, NEW c \in Callers
    PROVE  Onward(c) \in CallType
  <1>1. call[c] \in CallType
    BY DEF TypeOK
  <1>2. call[c].at # NumChannels => call[c].at + 1 \in Channels
    BY <1>1, ChannelsAssumption DEF CallType, Channels
  <1>3. call[c].at # NumChannels =>
          [call[c] EXCEPT !.pc = "next", !.at = @ + 1] \in CallType
    BY <1>1, <1>2 DEF CallType
  <1> QED
    BY <1>3, CallTypes DEF Onward

LEMMA MovesType ==
    ASSUME TypeOK, NEW c \in Callers,
           NEW pc \in {"idle", "selected", "next", "claimed", "ok", "error"}
    PROVE  [call EXCEPT ![c].pc = pc] \in [Callers -> CallType]
  <1>1. [call[c] EXCEPT !.pc = pc] \in CallType
    BY DEF TypeOK, CallType
  <1> QED
    BY <1>1 DEF TypeOK

LEMMA CountsType ==
    ASSUME TypeOK, NEW field \in {"saves", "forced", "doubts", "cut"}, Counts(field)
    PROVE  tally' \in TallyType
  BY DEF TypeOK, Counts, TallyType

LEMMA ExceedsType ==
    ASSUME TypeOK, NEW field \in {"overlapped", "untold"}, NEW ch \in Channels,
           Exceeds(field, ch)
    PROVE  excess' \in [Channels -> [overlapped : Nat, untold : Nat]]
  <1>1. [excess[ch] EXCEPT ![field] = @ + 1] \in [overlapped : Nat, untold : Nat]
    BY DEF TypeOK
  <1> QED
    BY <1>1 DEF TypeOK, Exceeds

LEMMA InitTyped == Init => TypeOK
  <1> SUFFICES ASSUME Init PROVE TypeOK
    OBVIOUS
  <1>1. call \in [Callers -> CallType]
    BY CallTypes DEF Init
  <1>2. tally \in TallyType
    BY DEF Init, TallyType
  <1> QED
    BY <1>1, <1>2 DEF Init, TypeOK

\* The calls of announce_content keep the types.
LEMMA ProgressTyped ==
    ASSUME TypeOK, NEW c \in Callers, Progress(c) \/ Dies(c)
    PROVE  TypeOK'
  <1>0. call[c] \in CallType /\ call[c].at \in Channels
    BY DEF TypeOK, CallType
  <1>1. CASE Skips(c)
    BY <1>1, OnwardType DEF Skips, TypeOK
  <1>2. CASE Claims(c)
    <2>1. excess' \in [Channels -> [overlapped : Nat, untold : Nat]]
      BY <1>0, <1>2, ExceedsType DEF Claims, TypeOK
    <2> QED
      BY <1>2, <2>1, MovesType DEF Claims, TypeOK
  <1>3. CASE Accepts(c)
    <2>0. PICK shown \in 1..Attempts(call[c].at) :
              copies' = [copies EXCEPT ![call[c].at] = @ + shown]
      BY <1>3 DEF Accepts
    <2>1. copies' \in [Channels -> Nat]
      BY <1>0, <2>0, AttemptsType DEF TypeOK
    <2> QED
      BY <1>3, <2>1, MovesType DEF Accepts, TypeOK
  <1>4. CASE Rejects(c)
    BY <1>4, MovesType DEF Rejects, TypeOK
  <1>5. CASE Doubts(c)
    <2>0. PICK shown \in 1..Attempts(call[c].at) :
              copies' = [copies EXCEPT ![call[c].at] = @ + shown]
      BY <1>5 DEF Doubts
    <2>1. copies' \in [Channels -> Nat]
      BY <1>0, <2>0, AttemptsType DEF TypeOK
    <2>2. tally' \in TallyType /\ excess' \in [Channels -> [overlapped : Nat, untold : Nat]]
      BY <1>0, <1>5, CountsType, ExceedsType DEF Doubts
    <2> QED
      BY <1>5, <2>1, <2>2, MovesType DEF Doubts, TypeOK
  <1>6. CASE Marks(c)
    <2>1. sent' \in [Channels -> Nat] /\ failed' \subseteq Channels
      BY <1>0, <1>6 DEF Marks, Saves, TypeOK
    <2> QED
      BY <1>6, <2>1, OnwardType DEF Marks, TypeOK
  <1>7. CASE Retries(c)
    <2>1. [Begin("task") EXCEPT !.tries = call[c].tries + 1] \in CallType
      BY <1>0, <1>7, ChannelsAssumption, BoundAssumption
         DEF Retries, RetriesLeft, Begin, CallType, Channels, Kinds
    <2> QED
      BY <1>7, <2>1 DEF Retries, TypeOK
  <1>8. CASE Raises(c)
    BY <1>8, CallTypes, CountsType DEF Raises, TypeOK
  <1>9. CASE GoLiveEnsures(c)
    <2>1. call' \in [Callers -> CallType]
      BY <1>9, CallTypes DEF GoLiveEnsures, TypeOK, Kinds
    <2> QED
      BY <1>9, <2>1 DEF GoLiveEnsures, TypeOK
  <1>10. CASE GoLiveCollides(c)
    BY <1>10, CallTypes DEF GoLiveCollides, TypeOK
  <1>11. CASE Dies(c)
    <2>1. excess' \in [Channels -> [overlapped : Nat, untold : Nat]]
      BY <1>0, <1>11, ExceedsType DEF Dies, TypeOK
    <2> QED
      BY <1>11, <2>1, CallTypes, CountsType DEF Dies, TypeOK
  <1> QED
    BY <1>1, <1>2, <1>3, <1>4, <1>5, <1>6, <1>7, <1>8, <1>9, <1>10, <1>11 DEF Progress

LEMMA TypedStep == TypeOK /\ [Next]_vars => TypeOK'
  <1> SUFFICES ASSUME TypeOK, [Next]_vars PROVE TypeOK'
    OBVIOUS
  <1>1. ASSUME NEW e \in Editors, FormReads(e) PROVE TypeOK'
    BY <1>1, CountsType DEF FormReads, TypeOK
  <1>2. ASSUME NEW e \in Editors, FormSaves(e) \/ FormCollides(e) PROVE TypeOK'
    <2>1. CASE FormSaves(e)
      BY <2>1 DEF FormSaves, TypeOK
    <2>2. CASE FormCollides(e)
      BY <2>2 DEF FormCollides, TypeOK
    <2> QED
      BY <1>2, <2>1, <2>2
  <1>3. ASSUME NEW c \in Callers, GoLiveSelects(c) PROVE TypeOK'
    <2>1. [Begin("beat") EXCEPT !.pc = "selected"] \in CallType
      BY CallTypes DEF CallType, Kinds
    <2> QED
      BY <1>3, <2>1 DEF GoLiveSelects, TypeOK
  <1>4. ASSUME NEW c \in Callers, TaskStarts(c) PROVE TypeOK'
    <2>1. queue' \in Nat
      BY <1>4 DEF TaskStarts, TypeOK
    <2> QED
      BY <1>4, <2>1, CallTypes DEF TaskStarts, TypeOK, Kinds
  <1>5. ASSUME NEW c \in Callers, StaffForces(c) PROVE TypeOK'
    BY <1>5, CallTypes, CountsType DEF StaffForces, TypeOK, Kinds
  <1>6. CASE TaskLost
    <2>1. queue' \in Nat
      BY <1>6 DEF TaskLost, TypeOK
    <2> QED
      BY <1>6, <2>1, CountsType DEF TaskLost, TypeOK
  <1>7. CASE UNCHANGED vars
    BY <1>7 DEF vars, TypeOK
  <1> QED
    BY <1>1, <1>2, <1>3, <1>4, <1>5, <1>6, <1>7, ProgressTyped DEF Next

\* The item, the forms, the calls of announce_content, the SocialPost rows and the
\* histories keep their types in every reachable state.
THEOREM AnnouncementsTypeCorrect == Spec => []TypeOK
  BY InitTyped, TypedStep, PTL DEF Spec
-----------------------------------------------------------------------------
(* Counting calls                                                          *)

LEMMA CallersFinite ==
    ASSUME NEW S \in SUBSET Callers
    PROVE  IsFiniteSet(S) /\ Cardinality(S) \in Nat
  BY CallersAssumption, FS_Subset, FS_CardinalityType

LEMMA OneJoins ==
    ASSUME NEW S \in SUBSET Callers, NEW T \in SUBSET Callers, NEW c \in Callers,
           c \notin S, T = S \cup {c}
    PROVE  Cardinality(T) = Cardinality(S) + 1
  BY CallersFinite, FS_AddElement

LEMMA OneLeaves ==
    ASSUME NEW S \in SUBSET Callers, NEW T \in SUBSET Callers, NEW c \in Callers,
           c \in S, T = S \ {c}
    PROVE  Cardinality(S) = Cardinality(T) + 1
  <1>1. S = T \cup {c} /\ c \notin T
    OBVIOUS
  <1> QED
    BY <1>1, OneJoins

\* What the POSTs may show grows with the number of dispatches.
LEMMA OneMoreTime ==
    ASSUME NEW a \in Nat, NEW x \in Nat
    PROVE  a * x \in Nat /\ a * (x + 1) = a * x + a
  OBVIOUS

LEMMA TimesMonotone ==
    ASSUME NEW a \in Nat, NEW x \in Nat, NEW y \in Nat, x <= y
    PROVE  a * x <= a * y
  OBVIOUS

LEMMA NoMore ==
    ASSUME NEW S \in SUBSET Callers, NEW T \in SUBSET Callers, T \subseteq S
    PROVE  Cardinality(T) <= Cardinality(S)
  BY CallersFinite, FS_Subset

-----------------------------------------------------------------------------
(* What the rows tell                                                      *)

\* What a step of one call does to copies, SENT rows and Ok: nothing at all, or
\* one of the three balanced moves, on the channel the call is at. A dispatch
\* shows its post as often as its POST was kept.
Balanced(ch) ==
    \/ /\ copies'[ch] = copies[ch] /\ sent'[ch] = sent[ch]
       /\ excess'[ch].untold = excess[ch].untold /\ Ok(ch)' = Ok(ch)
    \/ \E c \in Callers :
         \/ /\ \E shown \in 1..Attempts(ch) : copies'[ch] = copies[ch] + shown
            /\ sent'[ch] = sent[ch] /\ excess'[ch].untold = excess[ch].untold
            /\ c \notin Ok(ch) /\ Ok(ch)' = Ok(ch) \cup {c}
         \/ /\ \E shown \in 1..Attempts(ch) : copies'[ch] = copies[ch] + shown
            /\ sent'[ch] = sent[ch]
            /\ excess'[ch].untold = excess[ch].untold + 1 /\ Ok(ch)' = Ok(ch)
         \/ /\ copies'[ch] = copies[ch] /\ c \in Ok(ch) /\ Ok(ch)' = Ok(ch) \ {c}
            /\ \/ sent'[ch] = sent[ch] + 1 /\ excess'[ch].untold = excess[ch].untold
               \/ sent'[ch] = sent[ch] /\ excess'[ch].untold = excess[ch].untold + 1

\* A call that is not "ok" before or after leaves Ok alone.
LEMMA OkStays ==
    ASSUME TypeOK, NEW c \in Callers, NEW r, call' = [call EXCEPT ![c] = r],
           call[c].pc # "ok", r.pc # "ok", NEW ch
    PROVE  Ok(ch)' = Ok(ch)
  BY DEF TypeOK, Ok

LEMMA OnwardIsNotOk ==
    ASSUME TypeOK, NEW c \in Callers
    PROVE  Onward(c).pc \in {"idle", "next"}
  <1>1. call[c] \in CallType
    BY DEF TypeOK
  <1>2. Idle.pc = "idle" /\ [call[c] EXCEPT !.pc = "next", !.at = @ + 1].pc = "next"
    BY <1>1 DEF Idle, CallType
  <1> QED
    BY <1>2 DEF Onward

LEMMA ProgressBalanced ==
    ASSUME TypeOK, NEW c \in Callers, Progress(c) \/ Dies(c), NEW ch \in Channels
    PROVE  Balanced(ch)
  <1>0. call[c] \in CallType /\ call[c].at \in Channels
    BY DEF TypeOK, CallType
  <1>1. CASE Skips(c)
    <2>1. Ok(ch)' = Ok(ch)
      BY <1>1, OnwardIsNotOk, OkStays DEF Skips
    <2> QED
      BY <1>1, <2>1 DEF Skips, Balanced
  <1>2. CASE Claims(c)
    <2>1. Ok(ch)' = Ok(ch)
      BY <1>0, <1>2 DEF Claims, Ok, TypeOK, CallType
    <2>2. excess'[ch].untold = excess[ch].untold
      BY <1>0, <1>2 DEF Claims, Exceeds, TypeOK
    <2> QED
      BY <1>2, <2>1, <2>2 DEF Claims, Balanced
  <1>3. CASE Accepts(c)
    <2>1. CASE call[c].at = ch
      <3>1. c \notin Ok(ch) /\ Ok(ch)' = Ok(ch) \cup {c}
        BY <1>0, <1>3, <2>1 DEF Accepts, Ok, TypeOK, CallType
      <3>2. \E shown \in 1..Attempts(ch) : copies'[ch] = copies[ch] + shown
        BY <1>3, <2>1 DEF Accepts, TypeOK
      <3> QED
        BY <1>3, <3>1, <3>2 DEF Accepts, Balanced
    <2>2. CASE call[c].at # ch
      <3>1. Ok(ch)' = Ok(ch) /\ copies'[ch] = copies[ch]
        BY <1>0, <1>3, <2>2 DEF Accepts, Ok, TypeOK, CallType
      <3> QED
        BY <1>3, <3>1 DEF Accepts, Balanced
    <2> QED
      BY <2>1, <2>2
  <1>4. CASE Rejects(c)
    <2>1. Ok(ch)' = Ok(ch)
      BY <1>0, <1>4 DEF Rejects, Ok, TypeOK, CallType
    <2> QED
      BY <1>4, <2>1 DEF Rejects, Balanced
  <1>5. CASE Doubts(c)
    <2>1. Ok(ch)' = Ok(ch)
      BY <1>0, <1>5 DEF Doubts, Ok, TypeOK, CallType
    <2>2. CASE call[c].at = ch
      <3>1. \E shown \in 1..Attempts(ch) : copies'[ch] = copies[ch] + shown
        BY <1>5, <2>2 DEF Doubts, TypeOK
      <3>2. excess'[ch].untold = excess[ch].untold + 1
        BY <1>5, <2>2 DEF Doubts, Exceeds, TypeOK
      <3> QED
        BY <1>5, <2>1, <3>1, <3>2 DEF Doubts, Balanced
    <2>3. CASE call[c].at # ch
      <3>1. copies'[ch] = copies[ch] /\ excess'[ch] = excess[ch]
        BY <1>5, <2>3 DEF Doubts, Exceeds, TypeOK
      <3> QED
        BY <1>5, <2>1, <3>1 DEF Doubts, Balanced
    <2> QED
      BY <2>2, <2>3
  <1>6. CASE Marks(c)
    <2>0. Onward(c).pc # "ok"
      BY OnwardIsNotOk
    <2>1. CASE call[c].pc = "ok" /\ call[c].at = ch
      <3>1. c \in Ok(ch) /\ Ok(ch)' = Ok(ch) \ {c}
        BY <1>6, <2>0, <2>1 DEF Marks, Ok, TypeOK
      <3>2. sent'[ch] = sent[ch] + 1
        BY <1>6, <2>1 DEF Marks, Saves, TypeOK
      <3> QED
        BY <1>6, <3>1, <3>2 DEF Marks, Balanced
    <2>2. CASE ~(call[c].pc = "ok" /\ call[c].at = ch)
      <3>1. Ok(ch)' = Ok(ch)
        BY <1>6, <2>0, <2>2 DEF Marks, Ok, TypeOK
      <3>2. sent'[ch] = sent[ch]
        BY <1>6, <2>2 DEF Marks, Saves, TypeOK
      <3> QED
        BY <1>6, <3>1, <3>2 DEF Marks, Balanced
    <2> QED
      BY <2>1, <2>2
  <1>7. CASE Retries(c)
    <2>1. [Begin("task") EXCEPT !.tries = call[c].tries + 1].pc # "ok"
      BY DEF Begin
    <2>2. Ok(ch)' = Ok(ch)
      BY <1>7, <2>1, OkStays DEF Retries
    <2> QED
      BY <1>7, <2>2 DEF Retries, Balanced
  <1>8. CASE Raises(c)
    <2>1. Idle.pc # "ok"
      BY DEF Idle
    <2>2. Ok(ch)' = Ok(ch)
      BY <1>8, <2>1, OkStays DEF Raises
    <2> QED
      BY <1>8, <2>2 DEF Raises, Balanced
  <1>9. CASE GoLiveEnsures(c) \/ GoLiveCollides(c)
    <2>1. Begin("beat").pc # "ok" /\ Idle.pc # "ok"
      BY DEF Begin, Idle
    <2>2. Ok(ch)' = Ok(ch)
      BY <1>9, <2>1, OkStays DEF GoLiveEnsures, GoLiveCollides
    <2> QED
      BY <1>9, <2>2 DEF GoLiveEnsures, GoLiveCollides, Balanced
  <1>10. CASE Dies(c)
    <2>0. Idle.pc # "ok"
      BY DEF Idle
    <2>1. CASE call[c].pc = "ok" /\ call[c].at = ch
      <3>1. c \in Ok(ch) /\ Ok(ch)' = Ok(ch) \ {c}
        BY <1>10, <2>0, <2>1 DEF Dies, Ok, TypeOK
      <3>2. excess'[ch].untold = excess[ch].untold + 1
        BY <1>10, <2>1 DEF Dies, Exceeds, TypeOK
      <3> QED
        BY <1>10, <3>1, <3>2 DEF Dies, Balanced
    <2>2. CASE ~(call[c].pc = "ok" /\ call[c].at = ch)
      <3>1. Ok(ch)' = Ok(ch)
        BY <1>10, <2>0, <2>2 DEF Dies, Ok, TypeOK
      <3>2. excess'[ch] = excess[ch]
        BY <1>10, <2>2 DEF Dies, Exceeds, TypeOK
      <3> QED
        BY <1>10, <3>1, <3>2 DEF Dies, Balanced
    <2> QED
      BY <2>1, <2>2
  <1> QED
    BY <1>1, <1>2, <1>3, <1>4, <1>5, <1>6, <1>7, <1>8, <1>9, <1>10 DEF Progress
LEMMA StepBalanced ==
    ASSUME TypeOK, [Next]_vars, NEW ch \in Channels
    PROVE  Balanced(ch)
  <1>1. CASE UNCHANGED <<call, sent, copies, excess>>
    BY <1>1 DEF Balanced, Ok
  <1>2. ASSUME NEW c \in Callers, GoLiveSelects(c) \/ TaskStarts(c) \/ StaffForces(c)
        PROVE  Balanced(ch)
    <2>1. /\ [Begin("beat") EXCEPT !.pc = "selected"].pc # "ok"
          /\ Begin("task").pc # "ok" /\ Begin("staff").pc # "ok"
      BY DEF Begin
    <2>2. call[c].pc # "ok" /\ UNCHANGED <<sent, copies, excess>>
      BY <1>2 DEF GoLiveSelects, TaskStarts, StaffForces
    <2>3. Ok(ch)' = Ok(ch)
      BY <1>2, <2>1, <2>2, OkStays DEF GoLiveSelects, TaskStarts, StaffForces
    <2> QED
      BY <2>2, <2>3 DEF Balanced
  <1>3. \/ UNCHANGED <<call, sent, copies, excess>>
        \/ \E c \in Callers : GoLiveSelects(c) \/ TaskStarts(c) \/ StaffForces(c)
        \/ \E c \in Callers : Progress(c) \/ Dies(c)
    BY DEF Next, vars, FormReads, FormSaves, FormCollides, TaskLost
  <1> QED
    BY <1>1, <1>2, <1>3, ProgressBalanced

\* What Posts, copies and their parts are.
LEMMA PostsType ==
    ASSUME TypeOK, NEW ch \in Channels
    PROVE  /\ copies[ch] \in Nat /\ sent[ch] \in Nat /\ excess[ch].untold \in Nat
           /\ Ok(ch) \in SUBSET Callers /\ Cardinality(Ok(ch)) \in Nat
           /\ Posts(ch) \in Nat
  <1>1. copies[ch] \in Nat /\ sent[ch] \in Nat /\ excess[ch].untold \in Nat
    BY DEF TypeOK
  <1>2. Ok(ch) \in SUBSET Callers /\ Cardinality(Ok(ch)) \in Nat
    BY CallersFinite DEF Ok
  <1> QED
    BY <1>1, <1>2 DEF Posts

\* One more dispatch shows between one and Attempts copies more.
LEMMA OneMorePost ==
    ASSUME NEW a \in Nat, NEW posts \in Nat, NEW shown \in 1..a, NEW n \in Nat,
           posts <= n, n <= a * posts
    PROVE  posts + 1 <= n + shown /\ n + shown <= a * (posts + 1)
  <1>1. a * posts \in Nat /\ a * (posts + 1) = a * posts + a
    BY OneMoreTime
  <1>2. shown \in Nat /\ 1 <= shown /\ shown <= a
    OBVIOUS
  <1> QED
    BY <1>1, <1>2

LEMMA SentToldStep == TypeOK /\ SentTold /\ [Next]_vars => SentTold'
  <1> SUFFICES ASSUME TypeOK, SentTold, [Next]_vars, NEW ch \in Channels
               PROVE  Posts(ch)' <= copies'[ch] /\ copies'[ch] <= Attempts(ch) * Posts(ch)'
    BY DEF SentTold, Attempts
  <1>1. Posts(ch) <= copies[ch] /\ copies[ch] <= Attempts(ch) * Posts(ch)
    BY DEF SentTold
  <1>2. /\ copies[ch] \in Nat /\ sent[ch] \in Nat /\ excess[ch].untold \in Nat
        /\ Ok(ch) \in SUBSET Callers /\ Cardinality(Ok(ch)) \in Nat
        /\ Posts(ch) \in Nat
    BY PostsType
  <1>3. Ok(ch)' \in SUBSET Callers /\ Cardinality(Ok(ch)') \in Nat
    <2>1. Ok(ch)' \in SUBSET Callers
      BY DEF Ok
    <2> QED
      BY <2>1, CallersFinite
  <1>4. Attempts(ch) \in Nat
    BY AttemptsType
  <1>5. Balanced(ch)
    BY StepBalanced
  <1>6. CASE Posts(ch)' = Posts(ch) /\ copies'[ch] = copies[ch]
    BY <1>1, <1>6
  <1>7. CASE /\ Posts(ch)' = Posts(ch) + 1
             /\ \E shown \in 1..Attempts(ch) : copies'[ch] = copies[ch] + shown
    BY <1>1, <1>2, <1>4, <1>7, OneMorePost
  <1>8. CASE /\ copies'[ch] = copies[ch] /\ sent'[ch] = sent[ch]
             /\ excess'[ch].untold = excess[ch].untold /\ Ok(ch)' = Ok(ch)
    <2>1. Posts(ch)' = Posts(ch)
      BY <1>8 DEF Posts
    <2> QED
      BY <1>6, <1>8, <2>1
  <1>9. ASSUME NEW c \in Callers,
               \E shown \in 1..Attempts(ch) : copies'[ch] = copies[ch] + shown,
               sent'[ch] = sent[ch], excess'[ch].untold = excess[ch].untold,
               c \notin Ok(ch), Ok(ch)' = Ok(ch) \cup {c}
        PROVE  Posts(ch)' = Posts(ch) + 1
    <2>1. Cardinality(Ok(ch)') = Cardinality(Ok(ch)) + 1
      BY <1>2, <1>3, <1>9, OneJoins
    <2> QED
      BY <1>2, <1>9, <2>1 DEF Posts
  <1>10. ASSUME sent'[ch] = sent[ch], excess'[ch].untold = excess[ch].untold + 1,
                Ok(ch)' = Ok(ch)
         PROVE  Posts(ch)' = Posts(ch) + 1
    BY <1>2, <1>10 DEF Posts
  <1>11. ASSUME NEW c \in Callers, c \in Ok(ch), Ok(ch)' = Ok(ch) \ {c},
                \/ sent'[ch] = sent[ch] + 1 /\ excess'[ch].untold = excess[ch].untold
                \/ sent'[ch] = sent[ch] /\ excess'[ch].untold = excess[ch].untold + 1
         PROVE  Posts(ch)' = Posts(ch)
    <2>1. Cardinality(Ok(ch)) = Cardinality(Ok(ch)') + 1
      BY <1>2, <1>3, <1>11, OneLeaves
    <2> QED
      BY <1>2, <1>3, <1>11, <2>1 DEF Posts
  <1> QED
    BY <1>5, <1>6, <1>7, <1>8, <1>9, <1>10, <1>11 DEF Balanced

LEMMA InitSentTold == Init => SentTold
  <1> SUFFICES ASSUME Init, NEW ch \in Channels
               PROVE  Posts(ch) <= copies[ch] /\ copies[ch] <= Attempts(ch) * Posts(ch)
    BY DEF SentTold
  <1>1. Ok(ch) = {}
    BY DEF Init, Idle, Ok
  <1>2. Cardinality(Ok(ch)) = 0
    BY <1>1, FS_EmptySet
  <1>3. Posts(ch) = 0 /\ copies[ch] = 0
    BY <1>2 DEF Init, Posts
  <1> QED
    BY <1>3, AttemptsType

\* The posts a network has taken and the rows that tell of them belong together:
\* each dispatch that posted has a SENT row, is about to be marked, or ended in an
\* error or with the process (SocialPost.mark_sent), and showed its post between
\* once and as often as _telegram_urlopen sends it.
THEOREM EverySentTold == Spec => []SentTold
  <1>1. Init => TypeOK /\ SentTold
    BY InitTyped, InitSentTold
  <1>2. TypeOK /\ SentTold /\ [Next]_vars => TypeOK' /\ SentTold'
    BY TypedStep, SentToldStep
  <1> QED
    BY <1>1, <1>2, PTL DEF Spec

-----------------------------------------------------------------------------
(* How many posts                                                          *)

\* Calls of staff, and those of them that have channel ch still before them.
Forcing == {c \in Callers : call[c].kind = "staff"}

Ahead(ch) ==
    {c \in Forcing : \/ call[c].pc # "idle" /\ call[c].at < ch
                     \/ call[c].pc = "next" /\ call[c].at = ch}

\* The SENT rows, the claims that may add one, and the forced calls that will
\* claim without looking are covered by one announcement, the forced calls so far
\* and the claims granted beside another.
Budget ==
    /\ Cardinality(Forcing) <= tally.forced
    /\ \A ch \in Channels :
         sent[ch] + Cardinality(Dispatching(ch)) + Cardinality(Ahead(ch))
            <= 1 + tally.forced + excess[ch].overlapped
\* What a step does to the terms of Budget on one channel: none grows, or one
\* grows and another pays for it.
Spends(ch) ==
    \/ /\ sent'[ch] = sent[ch] /\ Dispatching(ch)' \subseteq Dispatching(ch)
       /\ Ahead(ch)' \subseteq Ahead(ch)
       /\ tally'.forced = tally.forced
       /\ excess'[ch].overlapped = excess[ch].overlapped
    \/ \E c \in Callers :
         \/ /\ sent'[ch] = sent[ch] + 1
            /\ c \in Dispatching(ch) /\ Dispatching(ch)' = Dispatching(ch) \ {c}
            /\ Ahead(ch)' \subseteq Ahead(ch)
            /\ tally'.forced = tally.forced
            /\ excess'[ch].overlapped = excess[ch].overlapped
         \/ /\ sent'[ch] = sent[ch]
            /\ c \notin Dispatching(ch) /\ Dispatching(ch)' = Dispatching(ch) \cup {c}
            /\ tally'.forced = tally.forced
            /\ \/ /\ c \in Ahead(ch) /\ Ahead(ch)' = Ahead(ch) \ {c}
                  /\ excess'[ch].overlapped = excess[ch].overlapped
               \/ /\ Ahead(ch)' \subseteq Ahead(ch)
                  /\ excess'[ch].overlapped = excess[ch].overlapped + 1
               \/ /\ Ahead(ch)' \subseteq Ahead(ch)
                  /\ sent[ch] = 0 /\ Dispatching(ch) = {}
                  /\ excess'[ch].overlapped = excess[ch].overlapped
         \/ /\ sent'[ch] = sent[ch] /\ Dispatching(ch)' \subseteq Dispatching(ch)
            /\ c \notin Ahead(ch) /\ Ahead(ch)' = Ahead(ch) \cup {c}
            /\ tally'.forced = tally.forced + 1
            /\ excess'[ch].overlapped = excess[ch].overlapped

\* A call that goes on, or ends, claims nothing and forces nothing new.
LEMMA MovesOn ==
    ASSUME TypeOK, NEW c \in Callers, NEW r \in CallType, call' = [call EXCEPT ![c] = r],
           \/ r = Onward(c) \/ r.kind # "staff",
           r.pc \notin {"claimed", "ok"}, NEW ch \in Channels
    PROVE  /\ Dispatching(ch)' = Dispatching(ch) \ {c}
           /\ Ahead(ch)' \subseteq Ahead(ch) \cup {c} /\ Forcing' \subseteq Forcing
           /\ call[c].pc # "idle" => Ahead(ch)' \subseteq Ahead(ch)
  <1>0. call[c] \in CallType /\ NumChannels \in Nat /\ ch \in 1..NumChannels
    BY ChannelsAssumption DEF TypeOK, Channels
  <1>1. Dispatching(ch)' = Dispatching(ch) \ {c}
    BY DEF TypeOK, Dispatching
  <1>2. r.kind = "staff" => /\ r = [call[c] EXCEPT !.pc = "next", !.at = @ + 1]
                            /\ call[c].at # NumChannels
    BY DEF Onward, Idle
  <1>3. r.kind = "staff" => /\ call[c].kind = "staff" /\ r.pc = "next"
                            /\ r.at = call[c].at + 1
    BY <1>0, <1>2 DEF CallType
  <1>4. Forcing' \subseteq Forcing
    BY <1>3 DEF TypeOK, Forcing
  <1>5. Ahead(ch)' \subseteq Ahead(ch) \cup {c}
    BY <1>4 DEF TypeOK, Ahead, Forcing
  <1>6. ASSUME c \in Ahead(ch)', call[c].pc # "idle" PROVE c \in Ahead(ch)
    <2>1. call'[c] = r
      BY DEF TypeOK
    <2>2. r.kind = "staff" /\ r.at <= ch
      BY <1>0, <1>6, <2>1 DEF Ahead, Forcing, CallType, Channels
    <2>3. call[c].at < ch
      BY <1>0, <1>3, <2>2 DEF CallType, Channels
    <2> QED
      BY <1>3, <1>6, <2>2, <2>3 DEF Ahead, Forcing
  <1> QED
    BY <1>1, <1>4, <1>5, <1>6

\* A call that moves to another point of the same channel.
LEMMA StaysAt ==
    ASSUME TypeOK, NEW c \in Callers,
           NEW pc \in {"claimed", "ok", "error"}, call' = [call EXCEPT ![c].pc = pc],
           NEW ch \in Channels
    PROVE  /\ Dispatching(ch)' = IF pc # "error" /\ call[c].at = ch
                                 THEN Dispatching(ch) \cup {c} ELSE Dispatching(ch) \ {c}
           /\ call[c].pc \notin {"idle", "next"} => Ahead(ch)' = Ahead(ch)
           /\ call[c].pc = "next" /\ call[c].at = ch => Ahead(ch)' = Ahead(ch) \ {c}
           /\ call[c].pc = "next" /\ call[c].at # ch => Ahead(ch)' = Ahead(ch)
           /\ Forcing' = Forcing
  <1>0. /\ call[c] \in CallType /\ call'[c] = [call[c] EXCEPT !.pc = pc]
        /\ \A d \in Callers \ {c} : call'[d] = call[d]
        /\ NumChannels \in Nat /\ ch \in 1..NumChannels
    BY ChannelsAssumption DEF TypeOK, Channels
  <1>1. call'[c].pc = pc /\ call'[c].at = call[c].at /\ call'[c].kind = call[c].kind
    BY <1>0 DEF CallType
  <1>2. call[c].at \in Nat
    BY <1>0, ChannelsAssumption DEF CallType, Channels
  <1>3. Forcing' = Forcing
    BY <1>0, <1>1 DEF Forcing
  <1>4. Dispatching(ch)' = IF pc # "error" /\ call[c].at = ch
                           THEN Dispatching(ch) \cup {c} ELSE Dispatching(ch) \ {c}
    BY <1>0, <1>1 DEF Dispatching
  <1>5. \A d \in Callers \ {c} : d \in Ahead(ch)' <=> d \in Ahead(ch)
    BY <1>0, <1>3 DEF Ahead
  <1>6. Ahead(ch)' \subseteq Callers /\ Ahead(ch) \subseteq Callers
    BY DEF Ahead, Forcing
  <1>7. call[c].pc \notin {"idle", "next"} => (c \in Ahead(ch)' <=> c \in Ahead(ch))
    BY <1>1, <1>2, <1>3 DEF Ahead
  <1>8. call[c].pc = "next" /\ call[c].at = ch => c \notin Ahead(ch)'
    BY <1>0, <1>1, <1>2, <1>3 DEF Ahead
  <1>9. call[c].pc = "next" /\ call[c].at # ch => (c \in Ahead(ch)' <=> c \in Ahead(ch))
    BY <1>1, <1>2, <1>3 DEF Ahead
  <1> QED
    BY <1>3, <1>4, <1>5, <1>6, <1>7, <1>8, <1>9

LEMMA ProgressSpends ==
    ASSUME TypeOK, NEW c \in Callers, Progress(c) \/ Dies(c), NEW ch \in Channels
    PROVE  Spends(ch) /\ Forcing' \subseteq Forcing /\ tally'.forced = tally.forced
  <1>0. call[c] \in CallType /\ call[c].at \in Channels
    BY DEF TypeOK, CallType
  <1>a. tally'.forced = tally.forced
    BY DEF Progress, Skips, Claims, Accepts, Rejects, Doubts, Marks, Retries, Raises,
           GoLiveEnsures, GoLiveCollides, Dies, Counts, TypeOK, TallyType
  <1>1. CASE Claims(c)
    <2>0. call[c].pc = "next" /\ call' = [call EXCEPT ![c].pc = "claimed"]
      BY <1>1 DEF Claims
    <2>1. CASE call[c].at # ch
      <3>1. excess'[ch].overlapped = excess[ch].overlapped
        BY <1>1, <2>1 DEF Claims, Exceeds, TypeOK
      <3>2. Dispatching(ch)' = Dispatching(ch) \ {c} /\ Ahead(ch)' = Ahead(ch)
            /\ Forcing' = Forcing
        BY <2>0, <2>1, StaysAt
      <3> QED
        BY <1>1, <1>a, <3>1, <3>2 DEF Spends, Claims
    <2>2. CASE call[c].at = ch
      <3>1. /\ Dispatching(ch)' = Dispatching(ch) \cup {c}
            /\ Ahead(ch)' = Ahead(ch) \ {c} /\ Forcing' = Forcing
        BY <2>0, <2>2, StaysAt
      <3>2. c \notin Dispatching(ch)
        BY <2>0 DEF Dispatching
      <3>3. CASE Forced(c)
        <4>1. c \in Ahead(ch)
          BY <2>0, <2>2, <3>3 DEF Ahead, Forcing, Forced
        <4>2. excess' = excess
          BY <1>1, <3>3 DEF Claims
        <4> QED
          BY <1>1, <1>a, <3>1, <3>2, <4>1, <4>2 DEF Spends, Claims
      <3>4. CASE ~Forced(c) /\ Dispatching(ch) # {}
        <4>1. excess'[ch].overlapped = excess[ch].overlapped + 1
          BY <1>1, <2>2, <3>4 DEF Claims, Exceeds, TypeOK
        <4> QED
          BY <1>1, <1>a, <3>1, <3>2, <4>1 DEF Spends, Claims
      <3>5. CASE ~Forced(c) /\ Dispatching(ch) = {}
        <4>1. excess' = excess /\ sent[ch] = 0
          BY <1>1, <2>2, <3>5 DEF Claims, Refuses, TypeOK
        <4> QED
          BY <1>1, <1>a, <3>1, <3>2, <3>5, <4>1 DEF Spends, Claims
      <3> QED
        BY <3>1, <3>3, <3>4, <3>5
    <2> QED
      BY <2>1, <2>2
  <1>2. CASE Accepts(c)
    <2>1. call[c].pc = "claimed" /\ call' = [call EXCEPT ![c].pc = "ok"]
      BY <1>2 DEF Accepts
    <2>2. Ahead(ch)' = Ahead(ch) /\ Forcing' = Forcing
      BY <2>1, StaysAt
    <2>3. Dispatching(ch)' = IF call[c].at = ch
                             THEN Dispatching(ch) \cup {c} ELSE Dispatching(ch) \ {c}
      BY <2>1, StaysAt
    <2>4. Dispatching(ch)' \subseteq Dispatching(ch)
      BY <2>1, <2>3 DEF Dispatching
    <2> QED
      BY <1>2, <1>a, <2>2, <2>4 DEF Spends, Accepts
  <1>3. CASE Rejects(c) \/ Doubts(c)
    <2>1. call[c].pc = "claimed" /\ call' = [call EXCEPT ![c].pc = "error"]
      BY <1>3 DEF Rejects, Doubts
    <2>2. /\ Ahead(ch)' = Ahead(ch) /\ Forcing' = Forcing
          /\ Dispatching(ch)' = Dispatching(ch) \ {c}
      BY <2>1, StaysAt
    <2>3. excess'[ch].overlapped = excess[ch].overlapped /\ sent' = sent
      BY <1>3 DEF Rejects, Doubts, Exceeds, TypeOK
    <2> QED
      BY <1>a, <2>2, <2>3 DEF Spends
  <1>4. CASE Skips(c) \/ Marks(c)
    <2>1. /\ call[c].pc # "idle" /\ call' = [call EXCEPT ![c] = Onward(c)]
          /\ excess' = excess
      BY <1>4 DEF Skips, Marks
    <2>2. Onward(c) \in CallType /\ Onward(c).pc \notin {"claimed", "ok"}
      BY OnwardType, OnwardIsNotOk
    <2>3. /\ Dispatching(ch)' = Dispatching(ch) \ {c} /\ Ahead(ch)' \subseteq Ahead(ch)
          /\ Forcing' \subseteq Forcing
      BY <2>1, <2>2, MovesOn
    <2>4. CASE sent'[ch] = sent[ch]
      BY <1>a, <2>1, <2>3, <2>4 DEF Spends
    <2>5. CASE sent'[ch] # sent[ch]
      <3>1. call[c].pc = "ok" /\ call[c].at = ch /\ sent'[ch] = sent[ch] + 1
        BY <1>4, <2>5 DEF Skips, Marks, Saves, TypeOK
      <3>2. c \in Dispatching(ch)
        BY <3>1 DEF Dispatching
      <3> QED
        BY <1>a, <2>1, <2>3, <3>1, <3>2 DEF Spends
    <2> QED
      BY <2>3, <2>4, <2>5
  <1>5. CASE Retries(c) \/ Raises(c) \/ GoLiveEnsures(c) \/ GoLiveCollides(c) \/ Dies(c)
    <2> DEFINE again == [Begin("task") EXCEPT !.tries = call[c].tries + 1]
    <2>1. PICK r \in {again, Idle, Begin("beat")} : call' = [call EXCEPT ![c] = r]
      BY <1>5 DEF Retries, Raises, GoLiveEnsures, GoLiveCollides, Dies
    <2>2. r = again => Retries(c)
      <3>1. again.tries = call[c].tries + 1 /\ again.kind = "task" /\ again.pc = "next"
        BY DEF Begin
      <3>2. again # Idle /\ again # Begin("beat")
        BY <3>1 DEF Idle, Begin
      <3>3. call'[c] = r
        BY <2>1 DEF TypeOK
      <3> QED
        BY <1>5, <3>2, <3>3 DEF Raises, GoLiveEnsures, GoLiveCollides, Dies, TypeOK
    <2>3. r \in CallType /\ r.kind # "staff" /\ r.pc \notin {"claimed", "ok"}
      <3>1. CASE r = again
        <4>1. call[c].tries + 1 \in 0..MaxRetries
          BY <1>0, <2>2, <3>1, BoundAssumption DEF Retries, RetriesLeft, CallType
        <4> QED
          BY <3>1, <4>1, ChannelsAssumption DEF Begin, CallType, Channels, Kinds
      <3>2. CASE r \in {Idle, Begin("beat")}
        BY <3>2, CallTypes DEF Idle, Begin, Kinds
      <3> QED
        BY <3>1, <3>2
    <2>4. call[c].pc # "idle"
      BY <1>5 DEF Retries, Raises, GoLiveEnsures, GoLiveCollides, Dies
    <2>5. /\ Dispatching(ch)' = Dispatching(ch) \ {c} /\ Ahead(ch)' \subseteq Ahead(ch)
          /\ Forcing' \subseteq Forcing
      BY <2>1, <2>3, <2>4, MovesOn
    <2>6. excess'[ch].overlapped = excess[ch].overlapped /\ sent' = sent
      BY <1>5 DEF Retries, Raises, GoLiveEnsures, GoLiveCollides, Dies, Exceeds, TypeOK
    <2> QED
      BY <1>a, <2>5, <2>6 DEF Spends
  <1> QED
    BY <1>a, <1>1, <1>2, <1>3, <1>4, <1>5 DEF Progress
LEMMA StepSpends ==
    ASSUME TypeOK, [Next]_vars, NEW ch \in Channels
    PROVE  /\ Spends(ch)
           /\ \/ Forcing' \subseteq Forcing /\ tally'.forced = tally.forced
              \/ \E c \in Callers : /\ Forcing' \subseteq Forcing \cup {c}
                                   /\ tally'.forced = tally.forced + 1
  <1>1. CASE UNCHANGED <<call, sent, excess>> /\ tally'.forced = tally.forced
    BY <1>1 DEF Spends, Dispatching, Ahead, Forcing
  <1>2. ASSUME NEW c \in Callers, GoLiveSelects(c) \/ TaskStarts(c)
        PROVE  Spends(ch) /\ Forcing' \subseteq Forcing /\ tally'.forced = tally.forced
    <2>1. PICK r \in {[Begin("beat") EXCEPT !.pc = "selected"], Begin("task")} :
            call' = [call EXCEPT ![c] = r]
      BY <1>2 DEF GoLiveSelects, TaskStarts
    <2>2. r \in CallType /\ r.kind # "staff" /\ r.pc \notin {"claimed", "ok"}
      BY CallTypes DEF Begin, CallType, Kinds
    <2>3. call'[c] = r /\ call[c].pc = "idle"
      BY <1>2, <2>1 DEF GoLiveSelects, TaskStarts, TypeOK
    <2>4. Dispatching(ch)' = Dispatching(ch) \ {c} /\ Forcing' \subseteq Forcing
      BY <2>1, <2>2, MovesOn
    <2>5. Ahead(ch)' \subseteq Ahead(ch)
      BY <2>1, <2>2, <2>3 DEF Ahead, Forcing, TypeOK
    <2> QED
      BY <1>2, <2>4, <2>5 DEF GoLiveSelects, TaskStarts, Spends
  <1>3. ASSUME NEW c \in Callers, StaffForces(c)
        PROVE  /\ Spends(ch) /\ Forcing' \subseteq Forcing \cup {c}
               /\ tally'.forced = tally.forced + 1
    <2>1. tally'.forced = tally.forced + 1 /\ UNCHANGED <<sent, excess>>
      BY <1>3 DEF StaffForces, Counts, TypeOK, TallyType
    <2>2. call' = [call EXCEPT ![c] = Begin("staff")] /\ call[c].pc = "idle"
      BY <1>3 DEF StaffForces
    <2>3. /\ Begin("staff").pc = "next" /\ Begin("staff").at = 1
          /\ Begin("staff").kind = "staff"
      BY DEF Begin
    <2>4. 1 < ch \/ 1 = ch
      BY ChannelsAssumption DEF Channels
    <2>5. /\ Dispatching(ch)' \subseteq Dispatching(ch)
          /\ Forcing' \subseteq Forcing \cup {c}
      BY <2>2, <2>3 DEF Dispatching, Forcing, TypeOK
    <2>6. call'[c] = Begin("staff") /\ \A d \in Callers \ {c} : call'[d] = call[d]
      BY <2>2 DEF TypeOK
    <2>7. c \notin Ahead(ch)
      BY <2>2 DEF Ahead
    <2>8. c \in Ahead(ch)'
      BY <2>3, <2>4, <2>6 DEF Ahead, Forcing
    <2>9. \A d \in Callers \ {c} : d \in Ahead(ch)' <=> d \in Ahead(ch)
      BY <2>6 DEF Ahead, Forcing
    <2>10. Ahead(ch)' = Ahead(ch) \cup {c}
      BY <2>8, <2>9 DEF Ahead, Forcing
    <2> QED
      BY <2>1, <2>5, <2>7, <2>10 DEF Spends
  <1>4. \/ UNCHANGED <<call, sent, excess>> /\ tally'.forced = tally.forced
        \/ \E c \in Callers : GoLiveSelects(c) \/ TaskStarts(c) \/ StaffForces(c)
        \/ \E c \in Callers : Progress(c) \/ Dies(c)
    BY DEF Next, vars, FormReads, FormSaves, FormCollides, TaskLost, Counts, TypeOK, TallyType
  <1> QED
    BY <1>1, <1>2, <1>3, <1>4, ProgressSpends

LEMMA BudgetStep == TypeOK /\ Budget /\ [Next]_vars => Budget'
  <1> SUFFICES ASSUME TypeOK, Budget, [Next]_vars PROVE Budget'
    OBVIOUS
  <1>0. /\ tally.forced \in Nat /\ Forcing \in SUBSET Callers /\ Forcing' \in SUBSET Callers
        /\ Cardinality(Forcing) \in Nat /\ Cardinality(Forcing') \in Nat
    BY CallersFinite DEF TypeOK, TallyType, Forcing
  <1>1. Cardinality(Forcing') <= tally'.forced
    <2>1. 1 \in Channels
      BY ChannelsAssumption DEF Channels
    <2>2. CASE Forcing' \subseteq Forcing /\ tally'.forced = tally.forced
      BY <1>0, <2>2, NoMore DEF Budget
    <2>3. ASSUME NEW c \in Callers, Forcing' \subseteq Forcing \cup {c},
                 tally'.forced = tally.forced + 1
          PROVE  Cardinality(Forcing') <= tally'.forced
      <3>1. Forcing \cup {c} \in SUBSET Callers
        BY <1>0
      <3>2. Cardinality(Forcing') <= Cardinality(Forcing \cup {c})
        BY <1>0, <2>3, <3>1, NoMore
      <3>3. Cardinality(Forcing \cup {c}) <= Cardinality(Forcing) + 1
        BY <1>0, <3>1, OneJoins, CallersFinite, FS_AddElement
      <3> QED
        BY <1>0, <2>3, <3>1, <3>2, <3>3, CallersFinite DEF Budget
    <2> QED
      BY <2>1, <2>2, <2>3, StepSpends
  <1>2. ASSUME NEW ch \in Channels
        PROVE  sent'[ch] + Cardinality(Dispatching(ch)') + Cardinality(Ahead(ch)')
                 <= 1 + tally'.forced + excess'[ch].overlapped
    <2>0. /\ sent[ch] \in Nat /\ excess[ch].overlapped \in Nat
          /\ Dispatching(ch) \in SUBSET Callers /\ Dispatching(ch)' \in SUBSET Callers
          /\ Ahead(ch) \in SUBSET Callers /\ Ahead(ch)' \in SUBSET Callers
          /\ Ahead(ch) \subseteq Forcing
      BY DEF TypeOK, Dispatching, Ahead, Forcing
    <2>1. /\ Cardinality(Dispatching(ch)) \in Nat /\ Cardinality(Dispatching(ch)') \in Nat
          /\ Cardinality(Ahead(ch)) \in Nat /\ Cardinality(Ahead(ch)') \in Nat
      BY <2>0, CallersFinite
    <2>2. sent[ch] + Cardinality(Dispatching(ch)) + Cardinality(Ahead(ch))
            <= 1 + tally.forced + excess[ch].overlapped
      BY DEF Budget
    <2>3. /\ Ahead(ch)' \subseteq Ahead(ch) => Cardinality(Ahead(ch)') <= Cardinality(Ahead(ch))
          /\ Dispatching(ch)' \subseteq Dispatching(ch)
               => Cardinality(Dispatching(ch)') <= Cardinality(Dispatching(ch))
      BY <2>0, NoMore
    <2>4. \A c \in Callers :
            /\ c \in Dispatching(ch) /\ Dispatching(ch)' = Dispatching(ch) \ {c}
                 => Cardinality(Dispatching(ch)) = Cardinality(Dispatching(ch)') + 1
            /\ c \notin Dispatching(ch) /\ Dispatching(ch)' = Dispatching(ch) \cup {c}
                 => Cardinality(Dispatching(ch)') = Cardinality(Dispatching(ch)) + 1
            /\ c \in Ahead(ch) /\ Ahead(ch)' = Ahead(ch) \ {c}
                 => Cardinality(Ahead(ch)) = Cardinality(Ahead(ch)') + 1
            /\ c \notin Ahead(ch) /\ Ahead(ch)' = Ahead(ch) \cup {c}
                 => Cardinality(Ahead(ch)') = Cardinality(Ahead(ch)) + 1
      BY <2>0, OneJoins, OneLeaves
    <2>5. Cardinality(Ahead(ch)) <= tally.forced
      <3>1. Cardinality(Ahead(ch)) <= Cardinality(Forcing)
        BY <1>0, <2>0, NoMore
      <3> QED
        BY <1>0, <2>1, <3>1 DEF Budget
    <2>6. Dispatching(ch) = {} => Cardinality(Dispatching(ch)) = 0
      BY FS_EmptySet
    <2>7. Spends(ch)
      BY StepSpends
    <2> DEFINE Covered ==
          sent'[ch] + Cardinality(Dispatching(ch)') + Cardinality(Ahead(ch)')
            <= 1 + tally'.forced + excess'[ch].overlapped
    <2>8. CASE /\ sent'[ch] = sent[ch] /\ Dispatching(ch)' \subseteq Dispatching(ch)
               /\ Ahead(ch)' \subseteq Ahead(ch)
               /\ tally'.forced = tally.forced
               /\ excess'[ch].overlapped = excess[ch].overlapped
      BY <1>0, <2>0, <2>1, <2>2, <2>3, <2>8
    <2>9. ASSUME NEW c \in Callers,
                 sent'[ch] = sent[ch] + 1,
                 c \in Dispatching(ch), Dispatching(ch)' = Dispatching(ch) \ {c},
                 Ahead(ch)' \subseteq Ahead(ch), tally'.forced = tally.forced,
                 excess'[ch].overlapped = excess[ch].overlapped
          PROVE  Covered
      <3>1. Cardinality(Dispatching(ch)) = Cardinality(Dispatching(ch)') + 1
        BY <2>4, <2>9
      <3> QED
        BY <1>0, <2>0, <2>1, <2>2, <2>3, <2>9, <3>1
    <2>10. ASSUME NEW c \in Callers,
                  sent'[ch] = sent[ch], tally'.forced = tally.forced,
                  c \notin Dispatching(ch), Dispatching(ch)' = Dispatching(ch) \cup {c},
                  \/ /\ c \in Ahead(ch) /\ Ahead(ch)' = Ahead(ch) \ {c}
                     /\ excess'[ch].overlapped = excess[ch].overlapped
                  \/ /\ Ahead(ch)' \subseteq Ahead(ch)
                     /\ excess'[ch].overlapped = excess[ch].overlapped + 1
                  \/ /\ Ahead(ch)' \subseteq Ahead(ch)
                     /\ sent[ch] = 0 /\ Dispatching(ch) = {}
                     /\ excess'[ch].overlapped = excess[ch].overlapped
           PROVE  Covered
      <3>1. Cardinality(Dispatching(ch)') = Cardinality(Dispatching(ch)) + 1
        BY <2>4, <2>10
      <3>2. CASE /\ c \in Ahead(ch) /\ Ahead(ch)' = Ahead(ch) \ {c}
                 /\ excess'[ch].overlapped = excess[ch].overlapped
        <4>1. Cardinality(Ahead(ch)) = Cardinality(Ahead(ch)') + 1
          BY <2>4, <3>2
        <4> QED
          BY <1>0, <2>0, <2>1, <2>2, <2>10, <3>1, <3>2, <4>1
      <3>3. CASE /\ Ahead(ch)' \subseteq Ahead(ch)
                 /\ excess'[ch].overlapped = excess[ch].overlapped + 1
        BY <1>0, <2>0, <2>1, <2>2, <2>3, <2>10, <3>1, <3>3
      <3>4. CASE /\ Ahead(ch)' \subseteq Ahead(ch)
                 /\ sent[ch] = 0 /\ Dispatching(ch) = {}
                 /\ excess'[ch].overlapped = excess[ch].overlapped
        BY <1>0, <2>0, <2>1, <2>3, <2>5, <2>6, <2>10, <3>1, <3>4
      <3> QED
        BY <2>10, <3>2, <3>3, <3>4
    <2>11. ASSUME NEW c \in Callers,
                  sent'[ch] = sent[ch], Dispatching(ch)' \subseteq Dispatching(ch),
                  c \notin Ahead(ch), Ahead(ch)' = Ahead(ch) \cup {c},
                  tally'.forced = tally.forced + 1,
                  excess'[ch].overlapped = excess[ch].overlapped
           PROVE  Covered
      <3>1. Cardinality(Ahead(ch)') = Cardinality(Ahead(ch)) + 1
        BY <2>4, <2>11
      <3> QED
        BY <1>0, <2>0, <2>1, <2>2, <2>3, <2>11, <3>1
    <2> QED
      BY <2>7, <2>8, <2>9, <2>10, <2>11 DEF Spends
  <1> QED
    BY <1>1, <1>2 DEF Budget

LEMMA InitBudget == Init => Budget
  <1> SUFFICES ASSUME Init PROVE Budget
    OBVIOUS
  <1>1. Forcing = {} /\ \A ch \in Channels : Dispatching(ch) = {} /\ Ahead(ch) = {}
    BY DEF Init, Idle, Forcing, Dispatching, Ahead
  <1>2. Cardinality({}) = 0
    BY FS_EmptySet
  <1>3. tally.forced = 0 /\ \A ch \in Channels : sent[ch] = 0 /\ excess[ch].overlapped = 0
    BY DEF Init
  <1> QED
    BY <1>1, <1>2, <1>3 DEF Budget

LEMMA OneAnnouncementFollows == TypeOK /\ SentTold /\ Budget => OneAnnouncement
  <1> DEFINE dispatches(ch) ==
               1 + tally.forced + excess[ch].overlapped + excess[ch].untold
  <1> SUFFICES ASSUME TypeOK, SentTold, Budget, NEW ch \in Channels
               PROVE  copies[ch] <= Attempts(ch) * dispatches(ch)
    BY DEF OneAnnouncement
  <1>1. /\ tally.forced \in Nat /\ excess[ch].overlapped \in Nat
        /\ Dispatching(ch) \in SUBSET Callers /\ Ahead(ch) \in SUBSET Callers
    BY DEF TypeOK, TallyType, Dispatching, Ahead, Forcing
  <1>2. Cardinality(Dispatching(ch)) \in Nat /\ Cardinality(Ahead(ch)) \in Nat
    BY <1>1, CallersFinite
  <1>3. Cardinality(Ok(ch)) <= Cardinality(Dispatching(ch))
    <2>1. Ok(ch) \subseteq Dispatching(ch)
      BY DEF Ok, Dispatching
    <2> QED
      BY <1>1, <2>1, NoMore
  <1>4. sent[ch] + Cardinality(Dispatching(ch)) + Cardinality(Ahead(ch))
          <= 1 + tally.forced + excess[ch].overlapped
    BY DEF Budget
  <1>5. Posts(ch) <= dispatches(ch) /\ Posts(ch) \in Nat /\ dispatches(ch) \in Nat
    BY <1>1, <1>2, <1>3, <1>4, PostsType DEF Posts
  <1>6. Attempts(ch) * Posts(ch) <= Attempts(ch) * dispatches(ch)
    <2> HIDE DEF dispatches
    <2> QED
      BY <1>5, AttemptsType, TimesMonotone
  <1>7. /\ copies[ch] \in Nat /\ Attempts(ch) * Posts(ch) \in Nat
        /\ Attempts(ch) * dispatches(ch) \in Nat
        /\ copies[ch] <= Attempts(ch) * Posts(ch)
    <2> HIDE DEF dispatches
    <2> QED
      BY <1>5, AttemptsType, OneMoreTime, PostsType DEF SentTold
  <1> HIDE DEF dispatches
  <1> QED
    BY <1>6, <1>7

\* Followers of a channel see the item once, but for the calls staff force, the
\* claims granted beside a PENDING row, the posts nobody could know of, and the
\* repetitions of _telegram_urlopen within each dispatch.
THEOREM AnnouncedOnce == Spec => []OneAnnouncement
  <1>1. Init => TypeOK /\ SentTold /\ Budget
    BY InitTyped, InitSentTold, InitBudget
  <1>2. TypeOK /\ SentTold /\ Budget /\ [Next]_vars => TypeOK' /\ SentTold' /\ Budget'
    BY TypedStep, SentToldStep, BudgetStep
  <1> QED
    BY <1>1, <1>2, OneAnnouncementFollows, PTL DEF Spec

-----------------------------------------------------------------------------
(* What a call leaves behind                                               *)

\* Every channel a call has been through has a row that says what happened there.
BehindSettled ==
    \A c \in Callers : \A ch \in Channels : ch < call[c].at => Settled(ch)

\* Rows of SocialPost never lose what they say: nothing undoes SENT, FAILED or SKIPPED.
LEMMA SettledStays ==
    ASSUME TypeOK, [Next]_vars, NEW ch \in Channels, Settled(ch)
    PROVE  Settled(ch)'
  <1>1. CASE UNCHANGED <<sent, failed>>
    BY <1>1 DEF Settled
  <1>2. ASSUME NEW c \in Callers, Marks(c) PROVE Settled(ch)'
    <2>1. call[c].at \in Channels /\ sent[ch] \in Nat
      BY DEF TypeOK, CallType
    <2>2. CASE call[c].pc = "ok"
      <3>1. failed' = failed /\ sent' = [sent EXCEPT ![call[c].at] = @ + 1]
        BY <1>2, <2>2 DEF Marks, Saves
      <3>2. sent'[ch] = sent[ch] \/ sent'[ch] = sent[ch] + 1
        BY <3>1 DEF TypeOK
      <3> QED
        BY <2>1, <3>1, <3>2 DEF Settled
    <2>3. CASE call[c].pc # "ok"
      BY <1>2, <2>3 DEF Marks, Saves, Settled
    <2> QED
      BY <2>2, <2>3
  <1>3. UNCHANGED <<sent, failed>> \/ \E c \in Callers : Marks(c)
    BY DEF Next, vars, Progress, FormReads, FormSaves, FormCollides, GoLiveSelects,
           GoLiveEnsures, GoLiveCollides, TaskStarts, StaffForces, Skips, Claims,
           Accepts, Rejects, Doubts, Retries, Raises, Dies, TaskLost
  <1> QED
    BY <1>1, <1>2, <1>3

\* A call that goes on from a settled channel has settled channels behind it, and all
\* of them when it returns.
LEMMA OnwardSettles ==
    ASSUME TypeOK, BehindSettled, [Next]_vars, NEW c \in Callers,
           NEW at \in Channels, at = call[c].at, Settled(at)',
           call' = [call EXCEPT ![c] = Onward(c)]
    PROVE  /\ BehindSettled'
           /\ call'[c].pc = "idle" => \A ch \in Channels : Settled(ch)'
  <1>0. /\ call[c] \in CallType /\ call[c].at \in Nat /\ call[c].at <= NumChannels
        /\ NumChannels \in Nat /\ Channels \subseteq Nat
    BY ChannelsAssumption DEF TypeOK, CallType, Channels
  <1>1. call'[c] = Onward(c) /\ \A d \in Callers \ {c} : call'[d] = call[d]
    BY DEF TypeOK
  <1>2. \A ch \in Channels : ch <= call[c].at => Settled(ch)'
    <2> SUFFICES ASSUME NEW ch \in Channels, ch <= call[c].at PROVE Settled(ch)'
      OBVIOUS
    <2>1. CASE ch = at
      BY <2>1
    <2>2. CASE ch < call[c].at
      BY <2>2, SettledStays DEF BehindSettled
    <2> QED
      BY <1>0, <2>1, <2>2
  <1>3. CASE call[c].at = NumChannels
    <2>1. \A ch \in Channels : Settled(ch)'
      BY <1>0, <1>2, <1>3 DEF Channels
    <2> QED
      BY <2>1 DEF BehindSettled
  <1>4. CASE call[c].at # NumChannels
    <2> DEFINE r == [call[c] EXCEPT !.pc = "next", !.at = @ + 1]
    <2>0. call'[c] = r
      BY <1>1, <1>4 DEF Onward
    <2>a. r.at = call[c].at + 1 /\ r.pc = "next"
      BY <1>0 DEF CallType
    <2>1. call'[c].at = call[c].at + 1 /\ call'[c].pc = "next"
      BY <2>0, <2>a
    <2>2. ASSUME NEW d \in Callers, NEW ch \in Channels, ch < call'[d].at
          PROVE  Settled(ch)'
      <3>1. CASE d = c
        BY <1>0, <1>2, <2>1, <2>2, <3>1
      <3>2. CASE d # c
        BY <1>1, <2>2, <3>2, SettledStays DEF BehindSettled
      <3> QED
        BY <3>1, <3>2
    <2> QED
      BY <2>1, <2>2 DEF BehindSettled
  <1> QED
    BY <1>3, <1>4

\* A call that stays at its channel, or starts at the first one, leaves nothing open.
LEMMA StartsOrStays ==
    ASSUME TypeOK, BehindSettled, [Next]_vars,
           \A c \in Callers : call'[c].at \in {1, call[c].at}
    PROVE  BehindSettled'
  <1> SUFFICES ASSUME NEW c \in Callers, NEW ch \in Channels, ch < call'[c].at
               PROVE  Settled(ch)'
    BY DEF BehindSettled
  <1>1. ~(ch < 1)
    BY DEF Channels
  <1>2. ch < call[c].at
    BY <1>1
  <1> QED
    BY <1>2, SettledStays DEF BehindSettled

\* Whatever a call does, what is behind it stays settled, and so is everything when it
\* returns without being cut short.
LEMMA ProgressSettles ==
    ASSUME TypeOK, BehindSettled, [Next]_vars, NEW c \in Callers, Progress(c) \/ Dies(c)
    PROVE  /\ BehindSettled'
           /\ Returns(c) => (\A ch \in Channels : Settled(ch)') \/ tally'.cut > tally.cut
           /\ \A d \in Callers \ {c} : ~Returns(d)
  <1>0. call[c] \in CallType /\ call[c].at \in Channels
    BY DEF TypeOK, CallType
  <1> PICK at \in Channels : at = call[c].at
    BY <1>0
  <1>a. \A d \in Callers \ {c} : call'[d] = call[d]
    BY DEF TypeOK, Progress, Skips, Claims, Accepts, Rejects, Doubts, Marks, Retries,
           Raises, GoLiveEnsures, GoLiveCollides, Dies
  <1>b. \A d \in Callers \ {c} : ~Returns(d)
    BY <1>a DEF Returns
  <1>1. CASE Skips(c)
    <2>1. Settled(at)
      BY <1>1 DEF Skips, Refuses, Settled
    <2>2. Settled(at)'
      BY <1>1, <2>1 DEF Skips, Settled
    <2> QED
      BY <1>1, <1>b, <2>2, OnwardSettles DEF Skips, Returns
  <1>2. CASE Marks(c)
    <2>1. sent[at] \in Nat
      BY <1>0 DEF TypeOK
    <2>2. sent'[at] = sent[at] + 1 \/ at \in failed'
      BY <1>0, <1>2 DEF Marks, Saves, TypeOK
    <2>3. sent'[at] > 0 \/ at \in failed'
      BY <2>1, <2>2
    <2>4. call' = [call EXCEPT ![c] = Onward(c)]
      BY <1>2 DEF Marks
    <2>5. sent'[at] > 0 \/ at \in failed' => Settled(at)'
      BY DEF Settled
    <2> QED
      BY <1>b, <2>3, <2>4, <2>5, OnwardSettles DEF Returns
  <1>3. CASE Claims(c) \/ Accepts(c) \/ Rejects(c) \/ Doubts(c)
    <2>1. call'[c].at = call[c].at /\ call'[c].pc # "idle"
      BY <1>0, <1>3 DEF Claims, Accepts, Rejects, Doubts, TypeOK, CallType
    <2>2. \A d \in Callers : call'[d].at \in {1, call[d].at}
      BY <1>a, <2>1
    <2> QED
      BY <1>b, <2>1, <2>2, StartsOrStays DEF Returns
  <1>4. CASE Retries(c) \/ GoLiveEnsures(c) \/ GoLiveCollides(c)
    <2>1. call'[c].at = 1 /\ (call[c].pc # "selected" => call'[c].pc # "idle")
      BY <1>0, <1>4 DEF Retries, GoLiveEnsures, GoLiveCollides, Begin, Idle, TypeOK
    <2>2. \A d \in Callers : call'[d].at \in {1, call[d].at}
      BY <1>a, <2>1
    <2> QED
      BY <1>b, <2>1, <2>2, StartsOrStays DEF Returns
  <1>5. CASE Raises(c) \/ Dies(c)
    <2>1. call'[c].at = 1
      BY <1>0, <1>5 DEF Raises, Dies, Idle, TypeOK
    <2>2. \A d \in Callers : call'[d].at \in {1, call[d].at}
      BY <1>a, <2>1
    <2>3. tally.cut \in Nat /\ tally'.cut = tally.cut + 1
      BY <1>5 DEF Raises, Dies, Counts, TypeOK, TallyType
    <2>4. tally'.cut > tally.cut
      BY <2>3
    <2> QED
      BY <1>b, <2>2, <2>4, StartsOrStays
  <1> QED
    BY <1>1, <1>2, <1>3, <1>4, <1>5 DEF Progress

\* The same for every step of the specification.
LEMMA SettlesStep ==
    ASSUME TypeOK, BehindSettled, [Next]_vars
    PROVE  /\ BehindSettled'
           /\ \A c \in Callers :
                Returns(c) => (\A ch \in Channels : Settled(ch)') \/ tally'.cut > tally.cut
  <1>1. CASE UNCHANGED call
    <2>1. \A c \in Callers : call'[c].at \in {1, call[c].at} /\ ~Returns(c)
      BY <1>1 DEF Returns
    <2> QED
      BY <2>1, StartsOrStays
  <1>2. ASSUME NEW c \in Callers, GoLiveSelects(c) \/ TaskStarts(c) \/ StaffForces(c)
        PROVE  BehindSettled' /\ \A d \in Callers : ~Returns(d)
    <2>1. /\ call[c].pc = "idle" /\ call'[c].at = 1
          /\ \A d \in Callers \ {c} : call'[d] = call[d]
      BY <1>2 DEF GoLiveSelects, TaskStarts, StaffForces, Begin, TypeOK
    <2>2. \A d \in Callers : call'[d].at \in {1, call[d].at} /\ ~Returns(d)
      BY <2>1 DEF Returns
    <2> QED
      BY <2>2, StartsOrStays
  <1>3. ASSUME NEW c \in Callers, Progress(c) \/ Dies(c)
        PROVE  /\ BehindSettled'
               /\ \A d \in Callers :
                    Returns(d) => (\A ch \in Channels : Settled(ch)') \/ tally'.cut > tally.cut
    BY <1>3, ProgressSettles
  <1>4. \/ UNCHANGED call
        \/ \E c \in Callers : GoLiveSelects(c) \/ TaskStarts(c) \/ StaffForces(c)
        \/ \E c \in Callers : Progress(c) \/ Dies(c)
    BY DEF Next, vars, FormReads, FormSaves, FormCollides, TaskLost
  <1> QED
    BY <1>1, <1>2, <1>3, <1>4

LEMMA InitSettled == Init => BehindSettled
  BY DEF Init, BehindSettled, Idle, Channels

\* A call of announce_content that returns leaves no enabled channel without a row
\* that says what happened there, unless it was cut short in that step.
THEOREM CallsReturnSettled == Spec => ReturnsSettled
  <1>1. Init => TypeOK /\ BehindSettled
    BY InitTyped, InitSettled
  <1>2. TypeOK /\ BehindSettled /\ [Next]_vars => TypeOK' /\ BehindSettled'
    BY TypedStep, SettlesStep
  <1>3. TypeOK /\ BehindSettled /\ [Next]_vars
          => [\A c \in Callers : Returns(c) =>
                (\A ch \in Channels : Settled(ch)') \/ tally'.cut > tally.cut]_vars
    BY SettlesStep
  <1> QED
    BY <1>1, <1>2, <1>3, PTL DEF Spec, ReturnsSettled
=============================================================================
