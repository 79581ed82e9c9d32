-------------------------- MODULE MailImportProofs --------------------------
(***************************************************************************)
(* Theorems about MailImport, for any number of mailboxes, letters,        *)
(* senders, runs, tries and mishaps.                                       *)
(***************************************************************************)
EXTENDS MailImport, SequenceTheorems, FiniteSetTheorems, TLAPS

TallyType == [deaths : Nat, lost : Nat, unreached : Nat, unsaved : Nat, late : Nat]

-----------------------------------------------------------------------------
(* Types                                                                   *)

\* A run is at a letter that its mailbox holds.
PlacedAt(x) ==
    /\ \A b \in Boxes : x.from[b] <= Len(inbox[b])
    /\ x.at <= Len(inbox[x.box]) /\ x.upto <= Len(inbox[x.box])
    /\ x.pc = "store" => x.at < x.upto

\* Cursors and counters of failures belong to letters that are there.
Placed ==
    /\ \A b \in Boxes : Len(budget[b]) = Len(inbox[b]) /\ cursor[b] <= Len(inbox[b])
    /\ \A r \in Runs : PlacedAt(run[r])

TypeInv == TypeOK /\ Placed

LEMMA IdleTyped == Idle \in RunType /\ (TypeOK => PlacedAt(Idle))
  <1>1. Idle \in RunType
    BY NumberAssumption DEF Idle, RunType, Boxes
  <1>2. ASSUME TypeOK PROVE PlacedAt(Idle)
    <2>1. \A b \in Boxes : Len(inbox[b]) \in Nat
      BY <1>2 DEF TypeOK
    <2> QED
      BY <2>1, NumberAssumption DEF Idle, PlacedAt, Boxes
  <1> QED
    BY <1>1, <1>2

LEMMA InitTyped == Init => TypeInv
  <1> SUFFICES ASSUME Init PROVE TypeInv
    OBVIOUS
  <1>1. /\ inbox \in [Boxes -> Seq(Letters)] /\ cursor \in [Boxes -> Nat]
        /\ budget \in [Boxes -> Seq(0..Tries)] /\ rows \in [Letters -> Nat]
        /\ run \in [Runs -> RunType]
    BY IdleTyped DEF Init
  <1>2. TypeOK
    BY <1>1 DEF Init, TypeOK, crm
  <1>3. Placed
    BY <1>1, <1>2, IdleTyped DEF Init, Placed
  <1> QED
    BY <1>2, <1>3 DEF TypeInv

\* What a letter in hand is.
LEMMA InHand ==
    ASSUME TypeInv, NEW r \in Runs, AtLetter(r)
    PROVE  /\ run[r] \in RunType /\ run[r].box \in Boxes /\ run[r].at \in Nat
           /\ run[r].at + 1 \in 1..Len(inbox[run[r].box])
           /\ Current(r) \in Letters /\ Sender[Current(r)] \in Senders
           /\ run[r].at < run[r].upto
  <1>1. run[r] \in RunType /\ PlacedAt(run[r])
    BY DEF TypeInv, TypeOK, Placed
  <1>2. run[r].box \in Boxes /\ run[r].at \in Nat /\ run[r].upto \in Nat
    BY <1>1 DEF RunType
  <1>3. inbox[run[r].box] \in Seq(Letters) /\ Len(inbox[run[r].box]) \in Nat
    BY <1>2 DEF TypeInv, TypeOK
  <1>4. run[r].at < run[r].upto /\ run[r].upto <= Len(inbox[run[r].box])
    BY <1>1 DEF AtLetter, HasLetter, PlacedAt
  <1>5. run[r].at + 1 \in 1..Len(inbox[run[r].box])
    BY <1>2, <1>3, <1>4
  <1>6. Current(r) \in Letters
    BY <1>3, <1>5, ElementOfSeq DEF Current
  <1> QED
    BY <1>1, <1>2, <1>4, <1>5, <1>6, LettersAssumption

\* Where a run may go.
LEMMA NextBoxTyped ==
    ASSUME TypeInv, NEW r \in Runs
    PROVE  NextBox(r) \in RunType /\ PlacedAt(NextBox(r))
  <1>1. run[r] \in RunType /\ PlacedAt(run[r]) /\ run[r].box \in Boxes
    BY DEF TypeInv, TypeOK, Placed, RunType
  <1>2. \A b \in Boxes : Len(inbox[b]) \in Nat
    BY DEF TypeInv, TypeOK
  <1>3. run[r].box # NumBoxes => run[r].box + 1 \in Boxes
    BY <1>1, NumberAssumption DEF Boxes
  <1>4. CASE run[r].box = NumBoxes
    BY <1>1, <1>4 DEF NextBox, RunType, PlacedAt
  <1>5. CASE run[r].box # NumBoxes
    <2>1. /\ NextBox(r) \in RunType /\ NextBox(r).from = run[r].from
          /\ NextBox(r).pc = "box" /\ NextBox(r).box = run[r].box + 1
          /\ NextBox(r).at = 0 /\ NextBox(r).upto = 0
      BY <1>1, <1>3, <1>5 DEF NextBox, RunType
    <2> QED
      BY <1>1, <1>2, <1>3, <2>1 DEF PlacedAt
  <1> QED
    BY <1>4, <1>5

LEMMA PassesTyped ==
    ASSUME TypeInv, NEW r \in Runs, AtLetter(r)
    PROVE  Passes(r) \in RunType /\ PlacedAt(Passes(r))
  <1>1. PlacedAt(run[r])
    BY DEF TypeInv, Placed
  <1>2. Len(inbox[run[r].box]) \in Nat
    BY InHand DEF TypeInv, TypeOK
  <1>3. /\ run[r] \in RunType /\ run[r].at \in Nat /\ run[r].box \in Boxes
        /\ run[r].at + 1 <= Len(inbox[run[r].box])
    BY <1>2, InHand
  <1>4. /\ Passes(r) \in RunType /\ Passes(r).from = run[r].from
        /\ Passes(r).pc = "letter" /\ Passes(r).box = run[r].box
        /\ Passes(r).at = run[r].at + 1 /\ Passes(r).upto = run[r].upto
    <2>1. PICK n \in Nat : n = run[r].at + 1
      BY <1>3
    <2>2. Passes(r) = [run[r] EXCEPT !.pc = "letter", !.at = n, !.new = FALSE]
      BY <2>1 DEF Passes
    <2> QED
      BY <1>3, <2>1, <2>2 DEF RunType
  <1> QED
    BY <1>1, <1>2, <1>3, <1>4 DEF PlacedAt

\* A step of one run that leaves the mail and the cursors where they are.
LEMMA RunMoves ==
    ASSUME TypeInv, NEW r \in Runs, NEW x \in RunType, PlacedAt(x),
           run' = [run EXCEPT ![r] = x], UNCHANGED <<inbox, cursor>>,
           budget' \in [Boxes -> Seq(0..Tries)],
           \A b \in Boxes : Len(budget'[b]) = Len(budget[b])
    PROVE  run' \in [Runs -> RunType] /\ Placed'
  <1>1. run' \in [Runs -> RunType] /\ \A q \in Runs : run'[q] = IF q = r THEN x ELSE run[q]
    BY DEF TypeInv, TypeOK
  <1>2. \A q \in Runs : PlacedAt(run[q])
    BY DEF TypeInv, Placed
  <1>3. ASSUME NEW q \in Runs PROVE PlacedAt(run[q])'
    <2>1. run'[q] = x \/ run'[q] = run[q]
      BY <1>1
    <2> QED
      BY <1>2, <2>1 DEF PlacedAt
  <1> QED
    BY <1>1, <1>3 DEF TypeInv, Placed

\* The same for a step that counts no failure.
LEMMA RunMovesOnly ==
    ASSUME TypeInv, NEW r \in Runs, NEW x \in RunType, PlacedAt(x),
           run' = [run EXCEPT ![r] = x], UNCHANGED <<inbox, cursor, budget>>
    PROVE  run' \in [Runs -> RunType] /\ Placed'
  <1>1. budget' \in [Boxes -> Seq(0..Tries)] /\ \A b \in Boxes : Len(budget'[b]) = Len(budget[b])
    BY DEF TypeInv, TypeOK
  <1> QED
    BY <1>1, RunMoves

LEMMA MishapTyped ==
    ASSUME TypeInv, NEW kind \in {"deaths", "lost", "unreached", "unsaved", "late"}, Mishap(kind)
    PROVE  tally' \in TallyType
  <1>1. tally \in TallyType /\ tally[kind] \in Nat
    BY DEF TypeInv, TypeOK, TallyType
  <1>2. PICK n \in Nat : n = tally[kind] + 1
    BY <1>1
  <1>3. tally' = [tally EXCEPT ![kind] = n]
    BY <1>2 DEF Mishap
  <1> QED
    BY <1>1, <1>3 DEF TallyType

LEMMA PassesOverTyped ==
    ASSUME TypeInv, NEW r \in Runs, AtLetter(r), NEW why \in {"raced", "gaveUp", "late"},
           PassesOver(r, why)
    PROVE  passed' \subseteq Boxes \X Nat \X {"raced", "gaveUp", "late"}
  <1>1. <<run[r].box, run[r].at + 1, why>> \in Boxes \X Nat \X {"raced", "gaveUp", "late"}
    BY InHand
  <1> QED
    BY <1>1 DEF PassesOver, TypeInv, TypeOK

LEMMA CountedTyped ==
    ASSUME TypeInv, NEW r \in Runs, AtLetter(r),
           budget' = Counted(run[r].box, run[r].at + 1)
    PROVE  /\ budget' \in [Boxes -> Seq(0..Tries)]
           /\ \A b \in Boxes : Len(budget'[b]) = Len(budget[b])
  <1> DEFINE b == run[r].box
             uid == run[r].at + 1
             n == Least(budget[b][uid] + 1, Tries)
  <1>1. b \in Boxes /\ uid \in 1..Len(inbox[b])
    BY InHand
  <1>2. budget[b] \in Seq(0..Tries) /\ uid \in 1..Len(budget[b])
    BY <1>1 DEF TypeInv, TypeOK, Placed
  <1>3. budget[b][uid] \in 0..Tries
    BY <1>2, ElementOfSeq
  <1>4. n \in 0..Tries
    BY <1>3, NumberAssumption DEF Least
  <1>5. [budget[b] EXCEPT ![uid] = n] \in Seq(0..Tries) /\ Len([budget[b] EXCEPT ![uid] = n]) = Len(budget[b])
    <2> HIDE DEF b, uid, n
    <2> QED
      BY <1>2, <1>4, ExceptSeq
  <1>6. budget' = [budget EXCEPT ![b] = [budget[b] EXCEPT ![uid] = n]]
    BY DEF Counted
  <1> HIDE DEF b, uid, n
  <1> QED
    BY <1>1, <1>5, <1>6 DEF TypeInv, TypeOK

LEMMA ProgressTyped ==
    ASSUME TypeInv, NEW r \in Runs, Progress(r) \/ Dies(r) \/ Starts(r)
    PROVE  TypeInv'
  <1>0. /\ run[r] \in RunType /\ PlacedAt(run[r])
        /\ Idle \in RunType /\ PlacedAt(Idle)
        /\ \A b \in Boxes : Len(inbox[b]) \in Nat /\ cursor[b] \in Nat /\ cursor[b] <= Len(inbox[b])
    BY IdleTyped DEF TypeInv, TypeOK, Placed
  <1>1. CASE Opens(r)
    <2> DEFINE b == run[r].box
               from == run[r].from[b]
               upto == Least(Len(inbox[b]), from + FetchLimit)
               x == [run[r] EXCEPT !.pc = "letter", !.at = from, !.upto = upto]
    <2>1. b \in Boxes /\ from \in Nat /\ from <= Len(inbox[b])
      BY <1>0 DEF RunType, PlacedAt
    <2>2. upto \in Nat /\ upto <= Len(inbox[b])
      BY <1>0, <2>1, NumberAssumption DEF Least
    <2> HIDE DEF from, upto
    <2>3. /\ x \in RunType /\ x.pc = "letter" /\ x.from = run[r].from /\ x.box = b
          /\ x.at = from /\ x.upto = upto
      BY <1>0, <2>1, <2>2 DEF RunType
    <2>4. PlacedAt(x)
      BY <1>0, <2>1, <2>2, <2>3 DEF PlacedAt
    <2>5. run' = [run EXCEPT ![r] = x]
      BY <1>0, <1>1 DEF Opens, from, upto, TypeInv, TypeOK
    <2> HIDE DEF x
    <2>6. run' \in [Runs -> RunType] /\ Placed'
      BY <1>1, <2>3, <2>4, <2>5, RunMovesOnly DEF Opens
    <2> QED
      BY <1>1, <2>6 DEF Opens, TypeInv, TypeOK, crm
  <1>2. CASE BoxFails(r)
    <2>1. run' \in [Runs -> RunType] /\ Placed'
      BY <1>2, NextBoxTyped, RunMovesOnly DEF BoxFails
    <2>2. tally' \in TallyType
      BY <1>2, MishapTyped DEF BoxFails
    <2> QED
      BY <1>2, <2>1, <2>2 DEF BoxFails, TypeInv, TypeOK, TallyType, crm
  <1>3. CASE FindsDuplicate(r) \/ FindsBroken(r)
    <2>1. AtLetter(r) /\ run' = [run EXCEPT ![r] = Passes(r)]
      BY <1>3 DEF FindsDuplicate, FindsBroken, AtLetter
    <2>2. run' \in [Runs -> RunType] /\ Placed'
      BY <1>3, <2>1, PassesTyped, RunMovesOnly DEF FindsDuplicate, FindsBroken
    <2> QED
      BY <1>3, <2>2 DEF FindsDuplicate, FindsBroken, TypeInv, TypeOK, crm
  <1>4. CASE LooksUpSender(r)
    <2> DEFINE x == [run[r] EXCEPT !.pc = "store", !.new = Sender[Current(r)] \notin clients]
    <2>1. PICK o \in BOOLEAN : x = [run[r] EXCEPT !.pc = "store", !.new = o]
      OBVIOUS
    <2>2. /\ x \in RunType /\ x.pc = "store" /\ x.from = run[r].from /\ x.box = run[r].box
          /\ x.at = run[r].at /\ x.upto = run[r].upto
      BY <1>0, <2>1 DEF RunType
    <2>3. run[r].at < run[r].upto
      BY <1>4 DEF LooksUpSender, HasLetter
    <2>4. PlacedAt(x)
      BY <1>0, <2>2, <2>3 DEF PlacedAt
    <2>5. run' = [run EXCEPT ![r] = x]
      BY <1>0, <1>4 DEF LooksUpSender, TypeInv, TypeOK
    <2> HIDE DEF x
    <2>6. run' \in [Runs -> RunType] /\ Placed'
      BY <1>4, <2>2, <2>4, <2>5, RunMovesOnly DEF LooksUpSender
    <2> QED
      BY <1>4, <2>6 DEF LooksUpSender, TypeInv, TypeOK, crm
  <1>5. CASE Stores(r)
    <2>1. AtLetter(r)
      BY <1>5 DEF Stores, AtLetter
    <2>2. run' \in [Runs -> RunType] /\ Placed'
      BY <1>5, <2>1, PassesTyped, RunMovesOnly DEF Stores
    <2>3. Current(r) \in Letters /\ Sender[Current(r)] \in Senders
      BY <2>1, InHand
    <2>4. rows' \in [Letters -> Nat]
      BY <1>5, <2>3 DEF Stores, TypeInv, TypeOK
    <2>5. clients' \subseteq Senders /\ leads' \subseteq Senders
      BY <1>5, <2>3 DEF Stores, TypeInv, TypeOK
    <2> QED
      BY <1>5, <2>2, <2>4, <2>5 DEF Stores, TypeInv, TypeOK
  <1>6. CASE Collides(r)
    <2>1. AtLetter(r)
      BY <1>6 DEF Collides, AtLetter
    <2>2. run' \in [Runs -> RunType] /\ Placed'
      BY <1>6, <2>1, PassesTyped, RunMovesOnly DEF Collides
    <2>3. passed' \subseteq Boxes \X Nat \X {"raced", "gaveUp", "late"}
      BY <1>6, <2>1, PassesOverTyped DEF Collides
    <2> QED
      BY <1>6, <2>2, <2>3 DEF Collides, TypeInv, TypeOK, crm
  <1>7. CASE Defers(r)
    <2> DEFINE x == [run[r] EXCEPT !.pc = "save", !.new = FALSE]
    <2>1. /\ x \in RunType /\ x.pc = "save" /\ x.from = run[r].from /\ x.box = run[r].box
          /\ x.at = run[r].at /\ x.upto = run[r].upto
      BY <1>0 DEF RunType
    <2>2. PlacedAt(x)
      BY <1>0, <2>1 DEF PlacedAt
    <2>3. run' = [run EXCEPT ![r] = x]
      BY <1>0, <1>7 DEF Defers, TypeInv, TypeOK
    <2> HIDE DEF x
    <2>4. /\ budget' \in [Boxes -> Seq(0..Tries)]
          /\ \A b \in Boxes : Len(budget'[b]) = Len(budget[b])
      BY <1>7, CountedTyped DEF Defers
    <2>5. run' \in [Runs -> RunType] /\ Placed'
      BY <1>7, <2>1, <2>2, <2>3, <2>4, RunMoves DEF Defers
    <2> QED
      BY <1>7, <2>4, <2>5 DEF Defers, TypeInv, TypeOK, crm
  <1>8. CASE GivesUp(r)
    <2>1. AtLetter(r)
      BY <1>8 DEF GivesUp
    <2>2. /\ budget' \in [Boxes -> Seq(0..Tries)]
          /\ \A b \in Boxes : Len(budget'[b]) = Len(budget[b])
      BY <1>8, CountedTyped DEF GivesUp
    <2>3. run' \in [Runs -> RunType] /\ Placed'
      BY <1>8, <2>1, <2>2, PassesTyped, RunMoves DEF GivesUp
    <2>4. passed' \subseteq Boxes \X Nat \X {"raced", "gaveUp", "late"}
      BY <1>8, <2>1, PassesOverTyped DEF GivesUp
    <2> QED
      BY <1>8, <2>2, <2>3, <2>4 DEF GivesUp, TypeInv, TypeOK, crm
  <1>9. CASE TimesOut(r)
    <2>1. AtLetter(r)
      BY <1>9 DEF TimesOut
    <2>2. run' \in [Runs -> RunType] /\ Placed'
      BY <1>9, <2>1, PassesTyped, RunMovesOnly DEF TimesOut
    <2>3. passed' \subseteq Boxes \X Nat \X {"raced", "gaveUp", "late"}
      BY <1>9, <2>1, PassesOverTyped DEF TimesOut
    <2>4. tally' \in TallyType
      BY <1>9, MishapTyped DEF TimesOut
    <2> QED
      BY <1>9, <2>2, <2>3, <2>4 DEF TimesOut, TypeInv, TypeOK, TallyType, crm
  <1>10. CASE TimesOutBetween(r)
    <2>1. run' \in [Runs -> RunType] /\ Placed'
      BY <1>10, NextBoxTyped, RunMovesOnly DEF TimesOutBetween
    <2>2. tally' \in TallyType
      BY <1>10, MishapTyped DEF TimesOutBetween
    <2> QED
      BY <1>10, <2>1, <2>2 DEF TimesOutBetween, TypeInv, TypeOK, TallyType, crm
  <1>11. CASE SavesCursor(r)
    <2>1. run[r].box \in Boxes /\ run[r].at \in Nat /\ run[r].at <= Len(inbox[run[r].box])
      BY <1>0 DEF RunType, PlacedAt
    <2>2. /\ cursor' \in [Boxes -> Nat]
          /\ \A b \in Boxes : cursor'[b] <= Len(inbox[b])
      BY <1>0, <1>11, <2>1 DEF SavesCursor, Reached, TypeInv, TypeOK
    <2>3. NextBox(r) \in RunType /\ PlacedAt(NextBox(r))
      BY NextBoxTyped
    <2>4. run' = [run EXCEPT ![r] = NextBox(r)]
      BY <1>11 DEF SavesCursor
    <2>5. run' \in [Runs -> RunType] /\ \A q \in Runs : PlacedAt(run'[q])
      BY <2>3, <2>4 DEF TypeInv, TypeOK, Placed
    <2>6. Placed'
      BY <1>11, <2>2, <2>5 DEF SavesCursor, TypeInv, Placed, PlacedAt
    <2> QED
      BY <1>11, <2>2, <2>5, <2>6 DEF SavesCursor, TypeInv, TypeOK, crm
  <1>12. CASE Ends(r)
    <2>1. run' \in [Runs -> RunType] /\ Placed'
      BY <1>0, <1>12, RunMovesOnly DEF Ends
    <2> QED
      BY <1>12, <2>1 DEF Ends, TypeInv, TypeOK, crm
  <1>13. CASE Dies(r)
    <2>1. run' \in [Runs -> RunType] /\ Placed'
      BY <1>0, <1>13, RunMovesOnly DEF Dies
    <2>2. tally' \in TallyType
      BY <1>13, MishapTyped DEF Dies
    <2> QED
      BY <1>13, <2>1, <2>2 DEF Dies, TypeInv, TypeOK, TallyType, crm
  <1>14. CASE Starts(r)
    <2> DEFINE x == [Idle EXCEPT !.pc = "box", !.from = cursor]
    <2>1. /\ x.pc = "box" /\ x.from = cursor /\ x.box = Idle.box
          /\ x.at = Idle.at /\ x.upto = Idle.upto
      BY DEF Idle
    <2>2. x \in RunType
      BY <1>0 DEF RunType, TypeInv, TypeOK
    <2>3. PlacedAt(x)
      BY <1>0, <2>1 DEF PlacedAt
    <2>4. run' = [run EXCEPT ![r] = x]
      BY <1>14 DEF Starts
    <2> HIDE DEF x
    <2>5. run' \in [Runs -> RunType] /\ Placed'
      BY <1>14, <2>2, <2>3, <2>4, RunMovesOnly DEF Starts
    <2> QED
      BY <1>14, <2>5 DEF Starts, TypeInv, TypeOK, crm
  <1> QED
    BY <1>1, <1>2, <1>3, <1>4, <1>5, <1>6, <1>7, <1>8, <1>9, <1>10, <1>11, <1>12, <1>13, <1>14
       DEF Progress

\* A letter that arrives disturbs none that is there.
LEMMA ArrivesGrows ==
    ASSUME TypeInv, NEW b \in Boxes, Arrives(b)
    PROVE  /\ inbox' \in [Boxes -> Seq(Letters)] /\ budget' \in [Boxes -> Seq(0..Tries)]
           /\ Len(inbox'[b]) = Len(inbox[b]) + 1 /\ Len(budget'[b]) = Len(budget[b]) + 1
           /\ \A c \in Boxes \ {b} : inbox'[c] = inbox[c] /\ budget'[c] = budget[c]
           /\ \A c \in Boxes : \A i \in 1..Len(inbox[c]) : inbox'[c][i] = inbox[c][i]
  <1> DEFINE l == post[b][Len(inbox[b]) + 1]
  <1>1. inbox[b] \in Seq(Letters) /\ Len(inbox[b]) \in Nat /\ budget[b] \in Seq(0..Tries)
    BY DEF TypeInv, TypeOK
  <1>2. post[b] \in Seq(Letters) /\ Len(inbox[b]) + 1 \in 1..Len(post[b])
    <2>1. post \in [Boxes -> Seq(Letters)]
      BY LettersAssumption DEF TypeInv, TypeOK, Boxes
    <2>2. post[b] \in Seq(Letters) /\ Len(post[b]) \in Nat
      BY <2>1
    <2>3. Len(inbox[b]) < Len(post[b])
      BY DEF Arrives
    <2> QED
      BY <1>1, <2>2, <2>3
  <1>3. l \in Letters
    BY <1>2, ElementOfSeq
  <1>4. 0 \in 0..Tries
    BY NumberAssumption
  <1>5. /\ inbox' = [inbox EXCEPT ![b] = Append(inbox[b], l)]
        /\ budget' = [budget EXCEPT ![b] = Append(budget[b], 0)]
    BY DEF Arrives
  <1> HIDE DEF l
  <1>6. /\ Append(inbox[b], l) \in Seq(Letters)
        /\ Len(Append(inbox[b], l)) = Len(inbox[b]) + 1
        /\ \A i \in 1..Len(inbox[b]) : Append(inbox[b], l)[i] = inbox[b][i]
    BY <1>1, <1>3, AppendProperties
  <1>7. /\ Append(budget[b], 0) \in Seq(0..Tries)
        /\ Len(Append(budget[b], 0)) = Len(budget[b]) + 1
    BY <1>1, <1>4, AppendProperties
  <1> QED
    BY <1>5, <1>6, <1>7 DEF TypeInv, TypeOK

LEMMA TypedStep == TypeInv /\ [Next]_vars => TypeInv'
  <1> SUFFICES ASSUME TypeInv, [Next]_vars PROVE TypeInv'
    OBVIOUS
  <1>1. ASSUME NEW b \in Boxes, Arrives(b) PROVE TypeInv'
    <2>1. \A c \in Boxes : /\ Len(inbox[c]) \in Nat /\ Len(inbox'[c]) \in Nat
                           /\ Len(inbox[c]) <= Len(inbox'[c])
                           /\ Len(budget'[c]) = Len(inbox'[c])
      <3>1. \A c \in Boxes : /\ Len(inbox[c]) \in Nat /\ Len(budget[c]) = Len(inbox[c])
        BY DEF TypeInv, TypeOK, Placed
      <3>2. inbox'[b] \in Seq(Letters) /\ Len(inbox'[b]) \in Nat
        BY <1>1, ArrivesGrows
      <3>3. /\ Len(inbox'[b]) = Len(inbox[b]) + 1 /\ Len(budget'[b]) = Len(budget[b]) + 1
            /\ \A c \in Boxes \ {b} : inbox'[c] = inbox[c] /\ budget'[c] = budget[c]
        BY <1>1, ArrivesGrows
      <3>4. ASSUME NEW c \in Boxes, c = b
            PROVE  Len(inbox[c]) <= Len(inbox'[c]) /\ Len(budget'[c]) = Len(inbox'[c])
        BY <3>1, <3>3, <3>4
      <3>5. ASSUME NEW c \in Boxes, c # b
            PROVE  inbox'[c] = inbox[c] /\ budget'[c] = budget[c]
        BY <3>3, <3>5
      <3> QED
        BY <3>1, <3>2, <3>4, <3>5
    <2>2. \A c \in Boxes : cursor'[c] <= Len(inbox'[c])
      BY <1>1, <2>1 DEF Arrives, TypeInv, TypeOK, Placed
    <2>3. ASSUME NEW r \in Runs PROVE PlacedAt(run[r])'
      <3>1. run[r] \in RunType /\ run'[r] = run[r] /\ PlacedAt(run[r])
        BY <1>1 DEF Arrives, TypeInv, TypeOK, Placed
      <3> QED
        BY <2>1, <3>1 DEF PlacedAt, RunType
    <2>4. Placed'
      BY <2>1, <2>2, <2>3 DEF Placed
    <2> QED
      BY <1>1, <2>4, ArrivesGrows DEF Arrives, TypeInv, TypeOK, crm
  <1>2. ASSUME NEW s \in Senders, CardCreated(s) PROVE TypeInv'
    BY <1>2 DEF CardCreated, TypeInv, TypeOK, Placed, PlacedAt
  <1>3. CASE CacheLoses
    <2>1. \A b \in Boxes : inbox[b] \in Seq(Letters) /\ Len(inbox[b]) \in Nat
      BY DEF TypeInv, TypeOK
    <2>2. \A n \in Nat : [i \in 1..n |-> 0] \in Seq(0..Tries) /\ Len([i \in 1..n |-> 0]) = n
      BY NumberAssumption
    <2>3. /\ budget' \in [Boxes -> Seq(0..Tries)]
          /\ \A b \in Boxes : Len(budget'[b]) = Len(inbox[b])
      BY <1>3, <2>1, <2>2 DEF CacheLoses
    <2>4. tally' \in TallyType
      BY <1>3, MishapTyped DEF CacheLoses
    <2>5. Placed'
      BY <1>3, <2>3 DEF CacheLoses, TypeInv, Placed, PlacedAt
    <2> QED
      BY <1>3, <2>3, <2>4, <2>5 DEF CacheLoses, TypeInv, TypeOK, TallyType, crm
  <1>4. CASE LockExpires
    BY <1>4 DEF LockExpires, TypeInv, TypeOK, Placed, PlacedAt, crm
  <1>5. CASE UNCHANGED vars
    BY <1>5 DEF vars, TypeInv, TypeOK, Placed, PlacedAt, crm
  <1> QED
    BY <1>1, <1>2, <1>3, <1>4, <1>5, ProgressTyped DEF Next

\* Mailboxes, runs, the CRM and the histories have their types: no run handles a
\* letter its mailbox does not hold (_new_uids, _process_uid).
THEOREM MailTypeCorrect == Spec => []TypeOK
  <1>1. TypeInv => TypeOK
    BY DEF TypeInv
  <1> QED
    BY <1>1, InitTyped, TypedStep, PTL DEF Spec

-----------------------------------------------------------------------------
(* Runs apart                                                              *)

\* While the cache has kept what was put into it, whoever runs has the lock.
Locked == tally.lost = 0 => \A r \in Runs : run[r].pc # "idle" => lock = r

LEMMA LockedStep == TypeInv /\ Locked /\ [Next]_vars => Locked'
  <1> SUFFICES ASSUME TypeInv, Locked, [Next]_vars PROVE Locked'
    OBVIOUS
  <1>0. Idle.pc = "idle" /\ run \in [Runs -> RunType] /\ tally \in TallyType
    BY DEF Idle, TypeInv, TypeOK, TallyType
  <1>1. ASSUME NEW r \in Runs, Starts(r) PROVE Locked'
    <2>1. tally.lost = 0 => \A q \in Runs : run[q].pc = "idle"
      BY <1>1, NumberAssumption DEF Starts, Locked, Runs, NoRun
    <2>2. \A q \in Runs \ {r} : run'[q] = run[q]
      BY <1>0, <1>1 DEF Starts
    <2> QED
      BY <1>1, <2>1, <2>2 DEF Starts, Locked
  <1>2. ASSUME NEW r \in Runs, Ends(r) PROVE Locked'
    <2>1. tally.lost = 0 => \A q \in Runs \ {r} : run[q].pc = "idle"
      BY <1>2 DEF Ends, Locked
    <2> QED
      BY <1>0, <1>2, <2>1 DEF Ends, Locked
  <1>3. CASE CacheLoses
    <2>1. tally'.lost # 0
      BY <1>0, <1>3 DEF CacheLoses, Mishap, TallyType
    <2> QED
      BY <2>1 DEF Locked
  <1>4. CASE LockExpires
    <2>1. tally.lost = 0 => \A q \in Runs : run[q].pc = "idle"
      BY <1>4 DEF LockExpires, RunIsOver, Locked
    <2> QED
      BY <1>4, <2>1 DEF LockExpires, Locked
  <1>5. ASSUME UNCHANGED lock, tally'.lost = tally.lost,
               \A q \in Runs : run[q].pc = "idle" => run'[q].pc = "idle"
        PROVE  Locked'
    BY <1>5 DEF Locked
  <1>6. ASSUME NEW r \in Runs, Progress(r) \/ Dies(r), ~Ends(r) PROVE Locked'
    <2>1. run[r].pc # "idle" /\ lock' = lock
      BY <1>6 DEF Progress, Dies, Ends, Opens, BoxFails, FindsDuplicate, FindsBroken,
                  LooksUpSender, Stores, Collides, Defers, GivesUp, TimesOut, TimesOutBetween,
                  SavesCursor, HasLetter, AtLetter
    <2>2. tally'.lost = tally.lost
      <3>1. CASE UNCHANGED tally
        BY <3>1
      <3>2. ASSUME NEW kind \in {"deaths", "unreached", "unsaved", "late"}, Mishap(kind)
            PROVE  tally'.lost = tally.lost
        BY <1>0, <3>2 DEF Mishap, TallyType
      <3> QED
        BY <1>6, <3>1, <3>2
           DEF Progress, Dies, Ends, Opens, BoxFails, FindsDuplicate, FindsBroken,
               LooksUpSender, Stores, Collides, Defers, GivesUp, TimesOut, TimesOutBetween,
               SavesCursor
    <2>3. \A q \in Runs \ {r} : run'[q] = run[q]
      BY <1>0, <1>6 
         DEF Progress, Dies, Ends, Opens, BoxFails, FindsDuplicate, FindsBroken,
             LooksUpSender, Stores, Collides, Defers, GivesUp, TimesOut, TimesOutBetween,
             SavesCursor
    <2> QED
      BY <1>5, <2>1, <2>2, <2>3
  <1>7. ASSUME NEW b \in Boxes, Arrives(b) PROVE Locked'
    BY <1>5, <1>7 DEF Arrives
  <1>8. ASSUME NEW s \in Senders, CardCreated(s) PROVE Locked'
    BY <1>5, <1>8 DEF CardCreated
  <1>9. CASE UNCHANGED vars
    BY <1>5, <1>9 DEF vars
  <1> QED
    BY <1>1, <1>2, <1>3, <1>4, <1>6, <1>7, <1>8, <1>9 DEF Next

\* A run does not overlap the next one for as long as the cache keeps the lock,
\* whatever dies and however long it takes (_IMAP_FETCH_LOCK_TTL).
THEOREM RunsStayApart == Spec => []RunsApart
  <1>1. Init => Locked
    BY DEF Init, Idle, Locked
  <1>2. Locked => RunsApart
    BY NumberAssumption DEF Locked, RunsApart, Runs, NoRun
  <1> QED
    BY <1>1, <1>2, InitTyped, TypedStep, LockedStep, PTL DEF Spec

-----------------------------------------------------------------------------
(* No letter is lost                                                       *)

Dealt(b, uid) ==
    \/ Handled(b, uid)
    \/ <<b, uid, "raced">> \in passed \/ <<b, uid, "late">> \in passed

\* Whatever a run or a cursor has behind it has been dealt with.
Behind ==
    /\ \A b \in Boxes : \A uid \in 1..cursor[b] : Dealt(b, uid)
    /\ \A r \in Runs : /\ \A b \in Boxes : \A uid \in 1..run[r].from[b] : Dealt(b, uid)
                       /\ \A uid \in 1..run[r].at : Dealt(run[r].box, uid)

\* What has been dealt with stays so.
LEMMA HistoryGrows ==
    ASSUME TypeInv, [Next]_vars
    PROVE  /\ \A b \in Boxes : \A i \in 1..Len(inbox[b]) : inbox'[b][i] = inbox[b][i]
           /\ passed \subseteq passed'
           /\ \A l \in Letters : rows[l] > 0 => rows'[l] > 0
  <1>1. ASSUME NEW b \in Boxes, Arrives(b)
        PROVE  /\ \A c \in Boxes : \A i \in 1..Len(inbox[c]) : inbox'[c][i] = inbox[c][i]
               /\ passed' = passed /\ rows' = rows
    BY <1>1, ArrivesGrows DEF Arrives, crm
  <1>2. ASSUME NEW r \in Runs, Progress(r)
        PROVE  /\ inbox' = inbox /\ passed \subseteq passed'
               /\ \A l \in Letters : rows[l] > 0 => rows'[l] > 0
    <2>1. CASE Stores(r)
      <3>1. \A l \in Letters : rows[l] \in Nat /\ rows'[l] \in {rows[l], rows[l] + 1}
        BY <2>1 DEF Stores, TypeInv, TypeOK
      <3> QED
        BY <2>1, <3>1 DEF Stores
    <2>2. CASE ~Stores(r)
      BY <1>2, <2>2 DEF Progress, Opens, BoxFails, FindsDuplicate, FindsBroken, LooksUpSender,
                        Collides, Defers, GivesUp, TimesOut, TimesOutBetween, SavesCursor, Ends,
                        PassesOver, crm
    <2> QED
      BY <2>1, <2>2
  <1>3. ASSUME \/ \E r \in Runs : Starts(r) \/ Dies(r)
               \/ \E s \in Senders : CardCreated(s)
               \/ CacheLoses \/ LockExpires \/ UNCHANGED vars
        PROVE  inbox' = inbox /\ passed' = passed /\ rows' = rows
    BY <1>3 DEF Starts, Dies, CardCreated, CacheLoses, LockExpires, vars, crm
  <1> QED
    BY <1>1, <1>2, <1>3 DEF Next

LEMMA DealtStays ==
    ASSUME TypeInv, [Next]_vars, NEW b \in Boxes, NEW uid \in 1..Len(inbox[b]), Dealt(b, uid)
    PROVE  Dealt(b, uid)'
  <1>1. inbox[b] \in Seq(Letters)
    BY DEF TypeInv, TypeOK
  <1>2. inbox[b][uid] \in Letters
    BY <1>1, ElementOfSeq
  <1> QED
    BY <1>2, HistoryGrows DEF Dealt, Handled

\* A letter that a run passes has been dealt with when the run is behind it.
PassedBy(r) ==
    /\ run' = [run EXCEPT ![r] = Passes(r)] /\ UNCHANGED <<inbox, cursor>>
    /\ AtLetter(r)
    /\ Dealt(run[r].box, run[r].at)'

LEMMA PassesDealt ==
    ASSUME TypeInv, NEW r \in Runs, 
           \/ FindsDuplicate(r) \/ FindsBroken(r) \/ Stores(r) \/ Collides(r)
           \/ GivesUp(r) \/ TimesOut(r)
    PROVE  PassedBy(r)
  <1>1. /\ AtLetter(r) /\ UNCHANGED <<inbox, cursor>>
        /\ run' = [run EXCEPT ![r] = Passes(r)]
    BY DEF FindsDuplicate, FindsBroken, Stores, Collides, GivesUp, TimesOut, AtLetter
  <1>2. /\ run[r].at + 1 \in 1..Len(inbox[run[r].box]) /\ Current(r) \in Letters
        /\ inbox[run[r].box][run[r].at + 1] = Current(r) /\ rows[Current(r)] \in Nat
        /\ inbox'[run[r].box][run[r].at + 1] = Current(r)
    BY <1>1, InHand DEF Current, TypeInv, TypeOK
  <1>3. run'[r].box = run[r].box /\ run'[r].at = run[r].at + 1
    <2>1. run[r] \in RunType /\ run'[r] = Passes(r)
      BY <1>1 DEF TypeInv, TypeOK
    <2> QED
      BY <2>1 DEF Passes, RunType
  <1>4. CASE FindsDuplicate(r) \/ FindsBroken(r)
    <2>1. rows' = rows /\ (rows[Current(r)] > 0 \/ Current(r) \in Broken)
      BY <1>4 DEF FindsDuplicate, FindsBroken, Stored, crm
    <2> QED
      BY <1>1, <1>2, <1>3, <2>1 DEF PassedBy, Dealt, Handled
  <1>5. CASE Stores(r)
    <2>1. rows'[Current(r)] > 0
      BY <1>2, <1>5 DEF Stores, TypeInv, TypeOK
    <2> QED
      BY <1>1, <1>2, <1>3, <2>1 DEF PassedBy, Dealt, Handled
  <1>6. CASE Collides(r) \/ GivesUp(r) \/ TimesOut(r)
    <2>1. rows' = rows
      BY <1>6 DEF Collides, GivesUp, TimesOut, crm
    <2>2. PICK why \in {"raced", "gaveUp", "late"} : PassesOver(r, why)
      BY <1>6 DEF Collides, GivesUp, TimesOut
    <2>3. rows[Current(r)] > 0 \/ <<run[r].box, run[r].at + 1, why>> \in passed'
      BY <2>2 DEF PassesOver
    <2> QED
      BY <1>1, <1>2, <1>3, <2>1, <2>2, <2>3 DEF PassedBy, Dealt, Handled
  <1> QED
    BY <1>4, <1>5, <1>6

\* How the run r may have moved.
Onward(r) ==
    /\ \/ run'[r].from = run[r].from
       \/ run'[r].from = cursor
       \/ \A b \in Boxes : run'[r].from[b] = 0
    /\ \/ run'[r].box = run[r].box /\ run'[r].at = run[r].at
       \/ run'[r].at = 0
       \/ run'[r].box = run[r].box /\ run'[r].at = run[r].from[run[r].box]
       \/ /\ run'[r].box = run[r].box /\ run'[r].at = run[r].at + 1
          /\ Dealt(run[r].box, run[r].at)'

LEMMA OnwardStep ==
    ASSUME TypeInv, [Next]_vars, NEW r \in Runs
    PROVE  Onward(r)
  <1>0. run \in [Runs -> RunType]
    BY DEF TypeInv, TypeOK
  <1>1. CASE run'[r] = run[r]
    BY <1>1 DEF Onward
  <1>2. CASE run' = [run EXCEPT ![r] = NextBox(r)]
    <2>1. run'[r] = NextBox(r) /\ run[r] \in RunType
      BY <1>0, <1>2
    <2>2. CASE run[r].box = NumBoxes
      BY <2>1, <2>2 DEF NextBox, Onward, RunType
    <2>3. CASE run[r].box # NumBoxes
      BY <2>1, <2>3 DEF NextBox, Onward, RunType
    <2> QED
      BY <2>2, <2>3
  <1>3. CASE run' = [run EXCEPT ![r] = Idle]
    <2>1. run'[r] = Idle
      BY <1>0, <1>3
    <2> QED
      BY <2>1 DEF Idle, Onward
  <1>4. CASE PassedBy(r)
    <2>1. run'[r] = Passes(r) /\ run[r] \in RunType
      BY <1>0, <1>4 DEF PassedBy
    <2>2. Passes(r).from = run[r].from /\ Passes(r).box = run[r].box /\ Passes(r).at = run[r].at + 1
      BY <2>1 DEF Passes, RunType
    <2> QED
      BY <1>4, <2>1, <2>2 DEF PassedBy, Onward
  <1>5. CASE Starts(r)
    BY <1>0, <1>5 DEF Starts, Idle, Onward
  <1>6. CASE Opens(r)
    BY <1>0, <1>6 DEF Opens, RunType, Onward
  <1>7. CASE LooksUpSender(r) \/ Defers(r)
    <2>1. run'[r].from = run[r].from /\ run'[r].box = run[r].box /\ run'[r].at = run[r].at
      BY <1>0, <1>7 DEF LooksUpSender, Defers, RunType
    <2> QED
      BY <2>1 DEF Onward
  <1>8. ASSUME NEW q \in Runs, Starts(q) \/ Progress(q) \/ Dies(q), q # r
        PROVE  run'[r] = run[r]
    BY <1>0, <1>8 DEF Progress, Starts, Dies, Opens, BoxFails, FindsDuplicate, FindsBroken,
                      LooksUpSender, Stores, Collides, Defers, GivesUp, TimesOut,
                      TimesOutBetween, SavesCursor, Ends
  <1>9. CASE Progress(r) \/ Dies(r)
    <2>1. CASE BoxFails(r) \/ TimesOutBetween(r) \/ SavesCursor(r)
      BY <1>2, <2>1 DEF BoxFails, TimesOutBetween, SavesCursor
    <2>2. CASE Ends(r) \/ Dies(r)
      BY <1>3, <2>2 DEF Ends, Dies
    <2> QED
      BY <1>4, <1>6, <1>7, <1>9, <2>1, <2>2, PassesDealt DEF Progress
  <1>10. CASE \/ \E b \in Boxes : Arrives(b)
              \/ \E s \in Senders : CardCreated(s)
              \/ CacheLoses \/ LockExpires \/ UNCHANGED vars
    BY <1>1, <1>10 DEF Arrives, CardCreated, CacheLoses, LockExpires, vars
  <1> QED
    BY <1>1, <1>5, <1>8, <1>9, <1>10 DEF Next

LEMMA CursorStep ==
    ASSUME TypeInv, [Next]_vars, NEW b \in Boxes
    PROVE  \/ cursor'[b] = cursor[b]
           \/ \E r \in Runs : run[r].box = b /\ cursor'[b] = run[r].at
  <1>1. ASSUME NEW r \in Runs, SavesCursor(r)
        PROVE  cursor'[b] = cursor[b] \/ (run[r].box = b /\ cursor'[b] = run[r].at)
    BY <1>1 DEF SavesCursor, Reached, TypeInv, TypeOK
  <1>2. ASSUME NEW r \in Runs, Starts(r) \/ Progress(r) \/ Dies(r), ~SavesCursor(r)
        PROVE  cursor' = cursor
    BY <1>2 DEF Progress, Starts, Dies, Opens, BoxFails, FindsDuplicate, FindsBroken,
                LooksUpSender, Stores, Collides, Defers, GivesUp, TimesOut, TimesOutBetween, Ends
  <1>3. CASE \/ \E c \in Boxes : Arrives(c)
             \/ \E s \in Senders : CardCreated(s)
             \/ CacheLoses \/ LockExpires \/ UNCHANGED vars
    BY <1>3 DEF Arrives, CardCreated, CacheLoses, LockExpires, vars
  <1> QED
    BY <1>1, <1>2, <1>3 DEF Next

LEMMA BehindStep == TypeInv /\ Behind /\ [Next]_vars => Behind'
  <1> SUFFICES ASSUME TypeInv, Behind, [Next]_vars PROVE Behind'
    OBVIOUS
  <1>0. /\ \A r \in Runs : /\ run[r].box \in Boxes /\ run[r].at \in Nat
                           /\ run[r].at <= Len(inbox[run[r].box])
                           /\ \A b \in Boxes : run[r].from[b] \in Nat /\ run[r].from[b] <= Len(inbox[b])
        /\ \A b \in Boxes : cursor[b] \in Nat /\ cursor[b] <= Len(inbox[b]) /\ Len(inbox[b]) \in Nat
    BY DEF TypeInv, TypeOK, Placed, PlacedAt, RunType
  <1>1. ASSUME NEW b \in Boxes, NEW n \in Nat, n <= Len(inbox[b]),
               \A uid \in 1..n : Dealt(b, uid)
        PROVE  \A uid \in 1..n : Dealt(b, uid)'
    BY <1>0, <1>1, DealtStays
  <1>2. ASSUME NEW b \in Boxes PROVE \A uid \in 1..cursor'[b] : Dealt(b, uid)'
    <2>1. CASE cursor'[b] = cursor[b]
      BY <1>0, <1>1, <2>1 DEF Behind
    <2>2. ASSUME NEW r \in Runs, run[r].box = b, cursor'[b] = run[r].at
          PROVE  \A uid \in 1..cursor'[b] : Dealt(b, uid)'
      BY <1>0, <1>1, <2>2 DEF Behind
    <2> QED
      BY <2>1, <2>2, CursorStep
  <1>3. ASSUME NEW r \in Runs, NEW b \in Boxes
        PROVE  \A uid \in 1..run'[r].from[b] : Dealt(b, uid)'
    <2>1. run'[r].from[b] \in {run[r].from[b], cursor[b], 0}
      BY OnwardStep DEF Onward
    <2>2. \A uid \in 1..run[r].from[b] : Dealt(b, uid)'
      BY <1>0, <1>1 DEF Behind
    <2>3. \A uid \in 1..cursor[b] : Dealt(b, uid)'
      BY <1>0, <1>1 DEF Behind
    <2> QED
      BY <2>1, <2>2, <2>3
  <1>4. ASSUME NEW r \in Runs, NEW b \in Boxes, b = run'[r].box
        PROVE  \A uid \in 1..run'[r].at : Dealt(b, uid)'
    <2>1. run[r].box = b => \A uid \in 1..run[r].at : Dealt(b, uid)'
      BY <1>0, <1>1 DEF Behind
    <2>2. \A uid \in 1..run[r].from[b] : Dealt(b, uid)'
      BY <1>0, <1>1 DEF Behind
    <2>3. CASE run'[r].at = 0
      BY <2>3
    <2>4. CASE run'[r].box = run[r].box /\ run'[r].at \in {run[r].at, run[r].from[run[r].box]}
      BY <1>4, <2>1, <2>2, <2>4
    <2>5. CASE /\ run'[r].box = run[r].box /\ run'[r].at = run[r].at + 1
               /\ Dealt(run[r].box, run[r].at)'
      <3>1. \A uid \in 1..run[r].at : Dealt(b, uid)'
        BY <1>4, <2>1, <2>5
      <3>2. PICK n \in Nat : n = run[r].at + 1
        BY <1>0
      <3>3. Dealt(b, n)'
        BY <1>4, <2>5, <3>2
      <3> QED
        BY <1>0, <2>5, <3>1, <3>2, <3>3
    <2> QED
      BY <2>3, <2>4, <2>5, OnwardStep DEF Onward
  <1>5. \A r \in Runs : run'[r].box \in Boxes
    BY TypedStep DEF TypeInv, TypeOK, RunType
  <1> QED
    BY <1>2, <1>3, <1>4, <1>5 DEF Behind

\* The cursor of a mailbox passes no letter that is neither stored nor broken nor
\* given up, except where a unique key or the soft time limit is caught, however
\* runs overlap, die or stop half way (_fetch_box, _process_uid).
THEOREM NoneLost == Spec => []NoLetterLost
  <1>1. Init => Behind
    BY DEF Init, Idle, Behind
  <1>2. Behind => NoLetterLost
    BY DEF Behind, Dealt, NoLetterLost
  <1> QED
    BY <1>1, <1>2, InitTyped, TypedStep, BehindStep, PTL DEF Spec

-----------------------------------------------------------------------------
(* A lead for a new sender                                                 *)

\* The letter of an open transaction has a From, and a sender whom the transaction
\* has found has a card.
Found ==
    \A r \in Runs : run[r].pc = "store" =>
        /\ Current(r) \notin Broken
        /\ ~run[r].new => Sender[Current(r)] \in clients

LEMMA FoundStep == TypeInv /\ Found /\ [Next]_vars => Found'
  <1> SUFFICES ASSUME TypeInv, Found, [Next]_vars, NEW r \in Runs,
                      run'[r].pc = "store"
               PROVE  /\ Current(r)' \notin Broken
                      /\ ~run'[r].new => Sender[Current(r)'] \in clients'
    BY DEF Found
  <1>0. run \in [Runs -> RunType] /\ Idle.pc = "idle"
    BY DEF TypeInv, TypeOK, Idle
  <1>1. clients \subseteq clients'
    BY DEF Next, Arrives, CardCreated, Starts, Dies, CacheLoses, LockExpires, vars, crm,
           Progress, Opens, BoxFails, FindsDuplicate, FindsBroken, LooksUpSender, Stores,
           Collides, Defers, GivesUp, TimesOut, TimesOutBetween, SavesCursor, Ends
  <1>2. CASE run'[r] = run[r]
    <2>1. /\ AtLetter(r) /\ Current(r) \notin Broken
          /\ ~run[r].new => Sender[Current(r)] \in clients
      BY <1>2 DEF Found, AtLetter
    <2>2. run[r].at + 1 \in 1..Len(inbox[run[r].box]) /\ run[r].box \in Boxes
      BY <2>1, InHand
    <2>3. inbox'[run[r].box][run[r].at + 1] = inbox[run[r].box][run[r].at + 1]
      BY <2>2, HistoryGrows
    <2> QED
      BY <1>1, <1>2, <2>1, <2>3 DEF Current
  <1>3. CASE LooksUpSender(r)
    <2>1. /\ run'[r].box = run[r].box /\ run'[r].at = run[r].at /\ inbox' = inbox
          /\ run'[r].new = (Sender[Current(r)] \notin clients) /\ Current(r) \notin Broken
      BY <1>0, <1>3 DEF LooksUpSender, RunType
    <2> QED
      BY <1>1, <2>1 DEF Current
  <1>4. ASSUME NEW q \in Runs, Starts(q) \/ Progress(q) \/ Dies(q), q # r
        PROVE  run'[r] = run[r]
    BY <1>0, <1>4 DEF Progress, Starts, Dies, Opens, BoxFails, FindsDuplicate, FindsBroken,
                      LooksUpSender, Stores, Collides, Defers, GivesUp, TimesOut,
                      TimesOutBetween, SavesCursor, Ends
  <1>5. ASSUME Starts(r) \/ Dies(r) \/ (Progress(r) /\ ~LooksUpSender(r)) PROVE FALSE
    <2>1. Passes(r).pc = "letter" /\ NextBox(r).pc # "store"
      <3>1. run[r] \in RunType
        BY <1>0
      <3>2. Passes(r).pc = "letter"
        BY <3>1 DEF Passes, RunType
      <3>3. NextBox(r).pc \in {"ending", "box"}
        BY <3>1 DEF NextBox, RunType
      <3> QED
        BY <3>2, <3>3
    <2>2. CASE run' = [run EXCEPT ![r] = Passes(r)] \/ run' = [run EXCEPT ![r] = NextBox(r)]
               \/ run' = [run EXCEPT ![r] = Idle]
      <3>1. run'[r] \in {Passes(r), NextBox(r), Idle}
        BY <1>0, <2>2
      <3> QED
        BY <1>0, <2>1, <3>1
    <2>3. CASE Starts(r) \/ Opens(r) \/ Defers(r)
      <3>1. CASE Starts(r)
        BY <1>0, <3>1 DEF Starts, Idle, RunType
      <3>2. CASE Opens(r)
        BY <1>0, <3>2 DEF Opens, RunType
      <3>3. CASE Defers(r)
        BY <1>0, <3>3 DEF Defers, RunType
      <3> QED
        BY <2>3, <3>1, <3>2, <3>3
    <2> QED
      BY <1>5, <2>2, <2>3 DEF Dies, Progress, BoxFails, FindsDuplicate, FindsBroken, Stores,
                              Collides, GivesUp, TimesOut, TimesOutBetween, SavesCursor, Ends
  <1>6. CASE \/ \E b \in Boxes : Arrives(b)
             \/ \E s \in Senders : CardCreated(s)
             \/ CacheLoses \/ LockExpires \/ UNCHANGED vars
    BY <1>2, <1>6 DEF Arrives, CardCreated, CacheLoses, LockExpires, vars
  <1> QED
    BY <1>2, <1>3, <1>4, <1>5, <1>6 DEF Next

LEMMA LeadStep == TypeInv /\ Found /\ NewSenderHasLead /\ [Next]_vars => NewSenderHasLead'
  <1> SUFFICES ASSUME TypeInv, Found, NewSenderHasLead, [Next]_vars PROVE NewSenderHasLead'
    OBVIOUS
  <1>1. ASSUME NEW r \in Runs, Stores(r) PROVE NewSenderHasLead'
    <2>1. CASE run[r].new
      BY <1>1, <2>1 DEF Stores, NeedsLead, NewSenderHasLead
    <2>2. CASE ~run[r].new
      BY <1>1, <2>2 DEF Stores, NeedsLead, Found, NewSenderHasLead
    <2> QED
      BY <2>1, <2>2
  <1>2. ASSUME NEW s \in Senders, CardCreated(s) PROVE NewSenderHasLead'
    BY <1>2 DEF CardCreated, NewSenderHasLead
  <1>3. CASE UNCHANGED <<clients, leads, others>>
    BY <1>3 DEF NewSenderHasLead
  <1>4. ASSUME NEW r \in Runs, Starts(r) \/ Dies(r) \/ (Progress(r) /\ ~Stores(r))
        PROVE  UNCHANGED <<clients, leads, others>>
    BY <1>4 DEF Progress, Starts, Dies, Opens, BoxFails, FindsDuplicate, FindsBroken,
                LooksUpSender, Collides, Defers, GivesUp, TimesOut, TimesOutBetween,
                SavesCursor, Ends, crm
  <1>5. CASE \/ \E b \in Boxes : Arrives(b)
             \/ CacheLoses \/ LockExpires \/ UNCHANGED vars
    BY <1>3, <1>5 DEF Arrives, CacheLoses, LockExpires, vars, crm
  <1> QED
    BY <1>1, <1>2, <1>3, <1>4, <1>5 DEF Next

\* The letter of a sender whom the CRM did not know is never left in the mail
\* alone, whatever else creates the card meanwhile (_process_uid, _resolve_client, _find_lead).
THEOREM LeadForNewSender == Spec => []NewSenderHasLead
  <1>1. Init => Found /\ NewSenderHasLead
    BY DEF Init, Idle, Found, NewSenderHasLead
  <1> QED
    BY <1>1, InitTyped, TypedStep, FoundStep, LeadStep, PTL DEF Spec

-----------------------------------------------------------------------------
(* Stored once                                                             *)

\* The copies of a letter in mailboxes that hold what mail says; as CopiesOf, for
\* any contents.
CopiesIn(mail, l) ==
    UNION {{b} \X {uid \in 1..Len(mail[b]) : mail[b][uid] = l} : b \in Boxes}

LEMMA CopiesFinite ==
    ASSUME NEW mail \in [Boxes -> Seq(Letters)], NEW l \in Letters
    PROVE  /\ IsFiniteSet(CopiesIn(mail, l))
           /\ \A c : c \in CopiesIn(mail, l) <=>
                       \E b \in Boxes : \E uid \in 1..Len(mail[b]) :
                           mail[b][uid] = l /\ c = <<b, uid>>
  <1> DEFINE at(b) == {uid \in 1..Len(mail[b]) : mail[b][uid] = l}
             copies == [b \in Boxes |-> {b} \X at(b)]
             S == {{b} \X at(b) : b \in Boxes}
  <1>1. ASSUME NEW b \in Boxes PROVE IsFiniteSet({b} \X at(b))
    <2>1. Len(mail[b]) \in Nat
      OBVIOUS
    <2>2. IsFiniteSet(1..Len(mail[b]))
      BY <2>1, FS_Interval
    <2>3. IsFiniteSet(at(b))
      BY <2>2, FS_Subset
    <2>4. IsFiniteSet({b})
      BY FS_Singleton
    <2> QED
      BY <2>3, <2>4, FS_Product
  <1>2. IsFiniteSet(S)
    <2>1. copies \in Surjection(Boxes, S)
      BY DEF Surjection
    <2>2. IsFiniteSet(Boxes)
      BY FS_Interval, NumberAssumption DEF Boxes
    <2> QED
      BY <2>1, <2>2, FS_Surjection
  <1>3. IsFiniteSet(UNION S)
    BY <1>1, <1>2, FS_UNION
  <1>4. \A c : c \in UNION S <=> \E b \in Boxes : \E uid \in at(b) : c = <<b, uid>>
    OBVIOUS
  <1> QED
    BY <1>3, <1>4 DEF CopiesIn

\* A run is in the middle of its mailbox.
Midway(r) == run[r].pc \in {"letter", "store", "save"}

\* Nobody else moves the cursors that a run has read and not saved yet.
Fresh ==
    /\ \A r \in Runs : Midway(r) => run[r].from[run[r].box] <= run[r].at
    /\ tally.lost = 0 =>
         \A r \in Runs : run[r].pc = "box" \/ Midway(r) =>
             \A b \in Boxes : b >= run[r].box => run[r].from[b] = cursor[b]

\* A cursor, or a run on its way, is beyond the letter.
HasPassed(b, uid) ==
    \/ uid <= cursor[b]
    \/ \E r \in Runs : Midway(r) /\ run[r].box = b /\ uid <= run[r].at

PassedCopies(l) == {c \in CopiesOf(l) : HasPassed(c[1], c[2])}

\* So far every run has saved its cursors.
Undisturbed == tally.deaths + tally.lost + tally.unsaved = 0

\* A letter has no more rows than copies that have been passed.
StoredAsPassed ==
    Undisturbed => \A l \in Letters : rows[l] <= Cardinality(PassedCopies(l))

PassesLetter(r) ==
    \/ FindsDuplicate(r) \/ FindsBroken(r) \/ Stores(r) \/ Collides(r)
    \/ GivesUp(r) \/ TimesOut(r)

\* What the steps of a run do to it.
LEMMA RunSteps ==
    ASSUME TypeInv, NEW r \in Runs, Progress(r) \/ Starts(r) \/ Dies(r)
    PROVE  /\ \A q \in Runs \ {r} : run'[q] = run[q]
           /\ Starts(r) => run'[r].pc = "box" /\ run'[r].from = cursor
           /\ Opens(r) =>
                /\ run'[r].pc = "letter" /\ run'[r].from = run[r].from
                /\ run'[r].box = run[r].box /\ run'[r].at = run[r].from[run[r].box]
           /\ LooksUpSender(r) \/ Defers(r) =>
                /\ AtLetter(r) /\ run'[r].pc \in {"store", "save"} /\ run'[r].from = run[r].from
                /\ run'[r].box = run[r].box /\ run'[r].at = run[r].at
           /\ PassesLetter(r) =>
                /\ AtLetter(r) /\ run'[r].pc = "letter" /\ run'[r].from = run[r].from
                /\ run'[r].box = run[r].box /\ run'[r].at = run[r].at + 1
           /\ BoxFails(r) \/ TimesOutBetween(r) \/ SavesCursor(r) =>
                /\ run'[r].from = run[r].from
                /\ \/ run'[r].pc = "ending" /\ run'[r].box = run[r].box
                   \/ run'[r].pc = "box" /\ run'[r].box = run[r].box + 1
           /\ Ends(r) \/ Dies(r) => run'[r].pc = "idle"
  <1>0. run \in [Runs -> RunType] /\ run[r] \in RunType
    BY DEF TypeInv, TypeOK
  <1>1. \A q \in Runs \ {r} : run'[q] = run[q]
    BY <1>0 DEF Progress, Starts, Dies, Opens, BoxFails, FindsDuplicate, FindsBroken,
                LooksUpSender, Stores, Collides, Defers, GivesUp, TimesOut,
                TimesOutBetween, SavesCursor, Ends
  <1>2. ASSUME Starts(r) PROVE run'[r].pc = "box" /\ run'[r].from = cursor
    <2>1. run'[r] = [Idle EXCEPT !.pc = "box", !.from = cursor]
      BY <1>0, <1>2 DEF Starts
    <2> QED
      BY <2>1 DEF Idle
  <1>3. ASSUME Opens(r)
        PROVE  /\ run'[r].pc = "letter" /\ run'[r].from = run[r].from
               /\ run'[r].box = run[r].box /\ run'[r].at = run[r].from[run[r].box]
    BY <1>0, <1>3 DEF Opens, RunType
  <1>4. ASSUME LooksUpSender(r) \/ Defers(r)
        PROVE  /\ AtLetter(r) /\ run'[r].pc \in {"store", "save"} /\ run'[r].from = run[r].from
               /\ run'[r].box = run[r].box /\ run'[r].at = run[r].at
    BY <1>0, <1>4 DEF LooksUpSender, Defers, AtLetter, RunType
  <1>5. ASSUME PassesLetter(r)
        PROVE  /\ AtLetter(r) /\ run'[r].pc = "letter" /\ run'[r].from = run[r].from
               /\ run'[r].box = run[r].box /\ run'[r].at = run[r].at + 1
    <2>1. AtLetter(r) /\ run'[r] = Passes(r)
      BY <1>0, <1>5 DEF PassesLetter, FindsDuplicate, FindsBroken, Stores, Collides, GivesUp,
                        TimesOut, AtLetter
    <2>2. /\ Passes(r).pc = "letter" /\ Passes(r).from = run[r].from
          /\ Passes(r).box = run[r].box /\ Passes(r).at = run[r].at + 1
      BY <1>0 DEF Passes, RunType
    <2> QED
      BY <2>1, <2>2
  <1>6. ASSUME BoxFails(r) \/ TimesOutBetween(r) \/ SavesCursor(r)
        PROVE  /\ run'[r].from = run[r].from
               /\ \/ run'[r].pc = "ending" /\ run'[r].box = run[r].box
                  \/ run'[r].pc = "box" /\ run'[r].box = run[r].box + 1
    <2>1. run'[r] = NextBox(r)
      BY <1>0, <1>6 DEF BoxFails, TimesOutBetween, SavesCursor
    <2>2. CASE run[r].box = NumBoxes
      <3>1. NextBox(r) = [run[r] EXCEPT !.pc = "ending"]
        BY <2>2 DEF NextBox
      <3> QED
        BY <1>0, <2>1, <3>1 DEF RunType
    <2>3. CASE run[r].box # NumBoxes
      <3>1. NextBox(r) = [run[r] EXCEPT !.pc = "box", !.box = @ + 1, !.at = 0, !.upto = 0]
        BY <2>3 DEF NextBox
      <3>2. /\ NextBox(r).pc = "box" /\ NextBox(r).box = run[r].box + 1
            /\ NextBox(r).from = run[r].from
        BY <1>0, <3>1 DEF RunType
      <3> QED
        BY <2>1, <3>2
    <2> QED
      BY <2>2, <2>3
  <1>7. ASSUME Ends(r) \/ Dies(r) PROVE run'[r].pc = "idle"
    <2>1. run'[r] = Idle
      BY <1>0, <1>7 DEF Ends, Dies
    <2> QED
      BY <2>1 DEF Idle
  <1> QED
    BY <1>1, <1>2, <1>3, <1>4, <1>5, <1>6, <1>7

\* Nothing that is counted is uncounted.
LEMMA TallyGrows ==
    ASSUME TypeInv, [Next]_vars
    PROVE  /\ tally'.lost = 0 => tally.lost = 0
           /\ Undisturbed' => /\ Undisturbed
                              /\ \A r \in Runs : ~Dies(r) /\ ~TimesOutBetween(r)
           /\ Undisturbed => tally.lost = 0
  <1>0. tally \in TallyType /\ tally' \in TallyType
    BY TypedStep DEF TypeInv, TypeOK, TallyType
  <1>1. ASSUME NEW kind \in {"deaths", "lost", "unreached", "unsaved", "late"}, Mishap(kind)
        PROVE  /\ tally'[kind] = tally[kind] + 1
               /\ \A other \in {"deaths", "lost", "unreached", "unsaved", "late"} \ {kind} :
                      tally'[other] = tally[other]
    BY <1>0, <1>1 DEF Mishap, TallyType
  <1>2. \/ UNCHANGED tally
        \/ \E kind \in {"deaths", "lost", "unreached", "unsaved", "late"} : Mishap(kind)
    BY DEF Next, Arrives, CardCreated, Starts, Dies, CacheLoses, LockExpires, vars,
           Progress, Opens, BoxFails, FindsDuplicate, FindsBroken, LooksUpSender, Stores,
           Collides, Defers, GivesUp, TimesOut, TimesOutBetween, SavesCursor, Ends
  <1>3. /\ tally.deaths <= tally'.deaths /\ tally.lost <= tally'.lost
        /\ tally.unsaved <= tally'.unsaved
    <2>1. CASE UNCHANGED tally
      BY <1>0, <2>1 DEF TallyType
    <2>2. ASSUME NEW kind \in {"deaths", "lost", "unreached", "unsaved", "late"}, Mishap(kind)
          PROVE  \A other \in {"deaths", "lost", "unreached", "unsaved", "late"} :
                     tally[other] <= tally'[other]
      <3>1. \A other \in {"deaths", "lost", "unreached", "unsaved", "late"} : tally[other] \in Nat
        BY <1>0 DEF TallyType
      <3> QED
        BY <1>1, <2>2, <3>1
    <2> QED
      BY <1>2, <2>1, <2>2
  <1>4. ASSUME NEW r \in Runs, Dies(r) \/ TimesOutBetween(r)
        PROVE  tally'.deaths > 0 \/ tally'.unsaved > 0
    <2>1. CASE Dies(r)
      BY <1>0, <1>1, <2>1 DEF Dies, TallyType
    <2>2. CASE TimesOutBetween(r)
      BY <1>0, <1>1, <2>2 DEF TimesOutBetween, TallyType
    <2> QED
      BY <1>4, <2>1, <2>2
  <1>5. /\ tally.deaths \in Nat /\ tally.lost \in Nat /\ tally.unsaved \in Nat
        /\ tally'.deaths \in Nat /\ tally'.lost \in Nat /\ tally'.unsaved \in Nat
    BY <1>0 DEF TallyType
  <1>6. /\ Undisturbed => tally.deaths = 0 /\ tally.lost = 0 /\ tally.unsaved = 0
        /\ tally.deaths = 0 /\ tally.lost = 0 /\ tally.unsaved = 0 => Undisturbed
    BY <1>5 DEF Undisturbed
  <1>7. Undisturbed' => tally'.deaths = 0 /\ tally'.lost = 0 /\ tally'.unsaved = 0
    BY <1>5 DEF Undisturbed
  <1> QED
    BY <1>3, <1>4, <1>5, <1>6, <1>7

\* Whose step it is.
LEMMA WhoMoves ==
    ASSUME TypeInv, [Next]_vars
    PROVE  \/ UNCHANGED <<run, cursor>>
           \/ \E r \in Runs : /\ Starts(r) \/ Progress(r) \/ Dies(r)
                              /\ ~SavesCursor(r) => UNCHANGED cursor
  <1>1. ASSUME NEW r \in Runs, Starts(r) \/ Progress(r) \/ Dies(r), ~SavesCursor(r)
        PROVE  UNCHANGED cursor
    BY <1>1 DEF Starts, Dies,
           Progress, Opens, BoxFails, FindsDuplicate, FindsBroken, LooksUpSender, Stores,
           Collides, Defers, GivesUp, TimesOut, TimesOutBetween, SavesCursor, Ends
  <1> QED
    BY <1>1 DEF Next, Arrives, CardCreated, CacheLoses, LockExpires, vars

LEMMA InboxGrows ==
    ASSUME TypeInv, [Next]_vars, NEW b \in Boxes
    PROVE  Len(inbox[b]) <= Len(inbox'[b])
  <1>0. Len(inbox[b]) \in Nat
    BY DEF TypeInv, TypeOK
  <1>1. ASSUME NEW c \in Boxes, Arrives(c) PROVE Len(inbox[b]) <= Len(inbox'[b])
    <2>1. CASE b = c
      BY <1>0, <1>1, <2>1, ArrivesGrows
    <2>2. CASE b # c
      BY <1>0, <1>1, <2>2, ArrivesGrows
    <2> QED
      BY <2>1, <2>2
  <1>2. ASSUME inbox' = inbox PROVE Len(inbox[b]) <= Len(inbox'[b])
    BY <1>0, <1>2
  <1> QED
    BY <1>1, <1>2
       DEF Next, CardCreated, Starts, Dies, CacheLoses, LockExpires, vars,
           Progress, Opens, BoxFails, FindsDuplicate, FindsBroken, LooksUpSender, Stores,
           Collides, Defers, GivesUp, TimesOut, TimesOutBetween, SavesCursor, Ends

LEMMA FreshStep == TypeInv /\ Locked /\ Fresh /\ [Next]_vars => Fresh'
  <1> SUFFICES ASSUME TypeInv, Locked, Fresh, [Next]_vars PROVE Fresh'
    OBVIOUS
  <1>0. /\ \A q \in Runs : /\ run[q] \in RunType /\ run[q].box \in Boxes /\ run[q].at \in Nat
                           /\ \A b \in Boxes : run[q].from[b] \in Nat
        /\ \A b \in Boxes : cursor[b] \in Nat
        /\ \A b \in Boxes : b \in Nat
    <2>1. \A b \in Boxes : b \in Nat
      BY NumberAssumption DEF Boxes
    <2>2. cursor \in [Boxes -> Nat] /\ \A q \in Runs : run[q] \in RunType
      BY DEF TypeInv, TypeOK
    <2> QED
      BY <2>1, <2>2 DEF RunType
  <1>1. CASE UNCHANGED <<run, cursor>>
    BY <1>1, TallyGrows DEF Fresh, Midway
  <1>2. ASSUME NEW r \in Runs, Starts(r) \/ Progress(r) \/ Dies(r),
               ~SavesCursor(r) => UNCHANGED cursor
        PROVE  Fresh'
    <2>1. \A q \in Runs \ {r} : run'[q] = run[q]
      BY <1>2, RunSteps
    <2>2. ASSUME Midway(r)' PROVE run'[r].from[run'[r].box] <= run'[r].at
      <3>1. CASE Opens(r)
        BY <1>0, <3>1, RunSteps DEF Progress
      <3>2. CASE LooksUpSender(r) \/ Defers(r)
        <4>1. Midway(r)
          BY <1>2, <3>2, RunSteps DEF AtLetter, HasLetter, Midway
        <4> QED
          BY <1>2, <3>2, <4>1, RunSteps DEF Fresh
      <3>3. CASE PassesLetter(r)
        <4>1. Midway(r)
          BY <1>2, <3>3, RunSteps DEF AtLetter, HasLetter, Midway
        <4>2. run[r].from[run[r].box] <= run[r].at
          BY <4>1 DEF Fresh
        <4> QED
          BY <1>0, <1>2, <3>3, <4>2, RunSteps
      <3> QED
        BY <1>2, <2>2, <3>1, <3>2, <3>3, RunSteps DEF Midway, Progress, PassesLetter
    <2>3. ASSUME tally'.lost = 0, NEW q \in Runs, run'[q].pc = "box" \/ Midway(q)',
                 NEW b \in Boxes, b >= run'[q].box
          PROVE  run'[q].from[b] = cursor'[b]
      <3>0. tally.lost = 0
        BY <2>3, TallyGrows
      <3>1. CASE q # r
        <4>1. run'[q] = run[q] /\ run[q].pc # "idle"
          BY <2>1, <2>3, <3>1 DEF Midway
        <4>2. lock = q
          BY <3>0, <4>1 DEF Locked
        <4>3. run[r].pc = "idle"
          <5>1. q # NoRun
            BY DEF Runs, NoRun
          <5> QED
            BY <3>0, <3>1, <4>2 DEF Locked
        <4>4. Starts(r) \/ Dies(r) \/ Progress(r) => ~SavesCursor(r)
          BY <4>3 DEF SavesCursor
        <4>5. cursor' = cursor
          BY <1>2, <4>4
        <4> QED
          BY <2>3, <3>0, <4>1, <4>5 DEF Fresh, Midway
      <3>2. CASE q = r /\ Starts(r)
        <4>1. ~SavesCursor(r)
          BY <3>2 DEF Starts, SavesCursor
        <4>2. run'[r].from = cursor
          BY <3>2, RunSteps
        <4> QED
          BY <1>2, <3>2, <4>1, <4>2
      <3>3. CASE q = r /\ ~Starts(r)
        <4>1. /\ run'[r].from = run[r].from /\ (run[r].pc = "box" \/ Midway(r))
              /\ \/ run'[r].box = run[r].box /\ ~SavesCursor(r)
                 \/ run'[r].box = run[r].box + 1
          <5>1. ~Ends(r) /\ ~Dies(r)
            BY <1>2, <2>3, <3>3, RunSteps DEF Midway
          <5>2. CASE Opens(r)
            BY <1>2, <5>2, RunSteps DEF Opens, SavesCursor
          <5>3. CASE LooksUpSender(r) \/ Defers(r) \/ PassesLetter(r)
            BY <1>2, <5>3, RunSteps DEF AtLetter, HasLetter, SavesCursor, Midway
          <5>4. CASE BoxFails(r) \/ TimesOutBetween(r) \/ SavesCursor(r)
            BY <1>2, <2>3, <3>3, <5>4, RunSteps
               DEF BoxFails, TimesOutBetween, SavesCursor, HasLetter, Midway
          <5> QED
            BY <1>2, <3>3, <5>1, <5>2, <5>3, <5>4 DEF Progress, PassesLetter
        <4>2. b >= run[r].box /\ (b # run[r].box \/ ~SavesCursor(r))
          BY <1>0, <2>3, <3>3, <4>1
        <4>3. cursor'[b] = cursor[b]
          BY <1>2, <4>2 DEF SavesCursor, TypeInv, TypeOK
        <4> QED
          <5>1. run[r].from[b] = cursor[b]
            BY <3>0, <4>1, <4>2 DEF Fresh
          <5> QED
            BY <3>3, <4>1, <4>3, <5>1
      <3> QED
        BY <3>1, <3>2, <3>3
    <2>4. \A q \in Runs : Midway(q)' => run'[q].from[run'[q].box] <= run'[q].at
      BY <2>1, <2>2 DEF Fresh, Midway
    <2> QED
      BY <2>3, <2>4 DEF Fresh
  <1> QED
    BY <1>1, <1>2, WhoMoves


\* What has been passed stays so, until a run ends without having saved.
LEMMA PassedStays ==
    ASSUME TypeInv, Fresh, [Next]_vars, Undisturbed',
           NEW b \in Boxes, NEW uid \in Nat, HasPassed(b, uid)
    PROVE  HasPassed(b, uid)'
  <1>0. /\ run \in [Runs -> RunType] /\ cursor \in [Boxes -> Nat]
        /\ \A q \in Runs : /\ run[q].at \in Nat /\ run[q].box \in Boxes
                           /\ run[q].from[run[q].box] \in Nat
    BY DEF TypeInv, TypeOK, RunType
  <1>1. CASE UNCHANGED <<run, cursor>>
    BY <1>1 DEF HasPassed, Midway
  <1>2. ASSUME NEW r \in Runs, Starts(r) \/ Progress(r) \/ Dies(r),
               ~SavesCursor(r) => UNCHANGED cursor
        PROVE  HasPassed(b, uid)'
    <2>1. ~Dies(r) /\ ~TimesOutBetween(r)
      BY TallyGrows
    <2>2. CASE uid <= cursor[b]
      <3>1. CASE SavesCursor(r) /\ run[r].box = b
        <4>1. Midway(r)
          BY <3>1 DEF SavesCursor, Midway
        <4>2. cursor[b] <= run[r].at
          <5>1. run[r].box >= run[r].box
            BY <1>0, NumberAssumption DEF Boxes
          <5> QED
            BY <1>0, <3>1, <4>1, <5>1, TallyGrows DEF Fresh
        <4>3. cursor'[b] = run[r].at
          BY <1>0, <3>1 DEF SavesCursor, Reached
        <4> QED
          BY <1>0, <2>2, <4>2, <4>3 DEF HasPassed
      <3>2. CASE ~SavesCursor(r) \/ run[r].box # b
        BY <1>0, <1>2, <2>2, <3>2 DEF SavesCursor, HasPassed
      <3> QED
        BY <3>1, <3>2
    <2>3. ASSUME NEW q \in Runs, Midway(q), run[q].box = b, uid <= run[q].at
          PROVE  HasPassed(b, uid)'
      <3>1. CASE q # r
        <4>1. run'[q] = run[q]
          BY <1>2, <3>1, RunSteps
        <4> QED
          BY <2>3, <4>1 DEF HasPassed, Midway
      <3>2. CASE q = r /\ SavesCursor(r)
        <4>1. cursor'[b] = run[r].at
          BY <1>0, <2>3, <3>2 DEF SavesCursor, Reached
        <4> QED
          BY <2>3, <3>2, <4>1 DEF HasPassed
      <3>3. CASE q = r /\ (LooksUpSender(r) \/ Defers(r) \/ PassesLetter(r))
        <4>1. /\ run'[r].pc \in {"letter", "store", "save"} /\ run'[r].box = b
              /\ run'[r].at \in {run[r].at, run[r].at + 1}
          BY <1>2, <2>3, <3>3, RunSteps
        <4>2. uid <= run'[r].at
          BY <1>0, <2>3, <3>3, <4>1
        <4> QED
          BY <4>1, <4>2 DEF HasPassed, Midway
      <3>4. CASE q = r /\ (Starts(r) \/ Opens(r) \/ BoxFails(r) \/ Ends(r))
        BY <2>3, <3>4 DEF Midway, Starts, Opens, BoxFails, Ends
      <3> QED
        BY <1>2, <2>1, <3>1, <3>2, <3>3, <3>4 DEF Progress, PassesLetter
    <2> QED
      BY <2>2, <2>3 DEF HasPassed
  <1> QED
    BY <1>1, <1>2, WhoMoves

LEMMA PassedGrow ==
    ASSUME TypeInv, Fresh, [Next]_vars, Undisturbed', NEW l \in Letters
    PROVE  /\ IsFiniteSet(PassedCopies(l)) /\ IsFiniteSet(PassedCopies(l)')
           /\ PassedCopies(l) \subseteq PassedCopies(l)'
  <1>0. inbox \in [Boxes -> Seq(Letters)] /\ inbox' \in [Boxes -> Seq(Letters)]
    BY TypedStep DEF TypeInv, TypeOK
  <1>1. CopiesOf(l) = CopiesIn(inbox, l) /\ CopiesOf(l)' = CopiesIn(inbox', l)
    BY DEF CopiesOf, CopiesIn
  <1>2. IsFiniteSet(CopiesOf(l)) /\ IsFiniteSet(CopiesOf(l)')
    BY <1>0, <1>1, CopiesFinite
  <1>3. IsFiniteSet(PassedCopies(l)) /\ IsFiniteSet(PassedCopies(l)')
    BY <1>2, FS_Subset DEF PassedCopies
  <1>4. ASSUME NEW c \in PassedCopies(l) PROVE c \in PassedCopies(l)'
    <2>1. PICK b \in Boxes, uid \in Nat :
              uid \in 1..Len(inbox[b]) /\ inbox[b][uid] = l /\ c = <<b, uid>>
      <3>1. c \in CopiesIn(inbox, l)
        BY <1>1 DEF PassedCopies
      <3>2. PICK b \in Boxes : \E uid \in 1..Len(inbox[b]) : inbox[b][uid] = l /\ c = <<b, uid>>
        BY <1>0, <3>1, CopiesFinite
      <3>3. Len(inbox[b]) \in Nat
        BY <1>0
      <3> QED
        BY <3>2, <3>3
    <2>2. HasPassed(b, uid)'
      BY <2>1, PassedStays DEF PassedCopies
    <2>3. inbox'[b][uid] = l
      BY <2>1, HistoryGrows
    <2>4. uid \in 1..Len(inbox'[b])
      <3>1. Len(inbox[b]) \in Nat /\ Len(inbox'[b]) \in Nat /\ Len(inbox[b]) <= Len(inbox'[b])
        BY <1>0, InboxGrows
      <3> QED
        BY <2>1, <3>1
    <2>5. <<b, uid>> \in CopiesOf(l)'
      BY <1>0, <1>1, <2>3, <2>4, CopiesFinite
    <2> QED
      BY <2>1, <2>2, <2>5 DEF PassedCopies
  <1> QED
    BY <1>3, <1>4

LEMMA StoredStep ==
    TypeInv /\ Locked /\ Fresh /\ StoredAsPassed /\ [Next]_vars => StoredAsPassed'
  <1> SUFFICES ASSUME TypeInv, Locked, Fresh, StoredAsPassed, [Next]_vars,
                      Undisturbed', NEW l \in Letters
               PROVE  rows'[l] <= Cardinality(PassedCopies(l)')
    BY DEF StoredAsPassed
  <1>0. rows \in [Letters -> Nat] /\ rows' \in [Letters -> Nat]
    BY TypedStep DEF TypeInv, TypeOK
  <1>1. /\ Cardinality(PassedCopies(l)) \in Nat /\ Cardinality(PassedCopies(l)') \in Nat
        /\ rows[l] <= Cardinality(PassedCopies(l))
        /\ Cardinality(PassedCopies(l)) <= Cardinality(PassedCopies(l)')
    BY PassedGrow, TallyGrows, FS_CardinalityType, FS_Subset DEF StoredAsPassed
  <1>2. CASE rows'[l] = rows[l]
    BY <1>0, <1>1, <1>2
  <1>3. ASSUME NEW r \in Runs, Stores(r), l = Current(r)
        PROVE  rows'[l] <= Cardinality(PassedCopies(l)')
    <2>0. PICK b \in Boxes, uid \in Nat : b = run[r].box /\ uid = run[r].at + 1
      <3>1. AtLetter(r)
        BY <1>3 DEF Stores, AtLetter
      <3> QED
        BY <3>1, InHand
    <2>1. /\ AtLetter(r) /\ Midway(r) /\ inbox' = inbox /\ cursor' = cursor
          /\ rows' = [rows EXCEPT ![l] = @ + 1]
      BY <1>3 DEF Stores, AtLetter, Midway
    <2>2. /\ b \in Boxes /\ uid \in 1..Len(inbox[b]) /\ inbox[b][uid] = l /\ run[r].at \in Nat
          /\ cursor[b] \in Nat
      BY <1>3, <2>0, <2>1, InHand DEF Current, TypeInv, TypeOK
    <2>3. ~HasPassed(b, uid)
      <3>1. tally.lost = 0
        BY TallyGrows
      <3>2. run[r].from[b] = cursor[b] /\ run[r].from[b] <= run[r].at
        <4>1. b \in Nat
          BY <2>2, NumberAssumption DEF Boxes
        <4> QED
          BY <2>0, <2>1, <2>2, <3>1, <4>1 DEF Fresh
      <3>3. ~(uid <= cursor[b])
        BY <2>0, <2>2, <3>2
      <3>4. \A q \in Runs : Midway(q) => q = r
        BY <2>1, <3>1 DEF Locked, Midway
      <3>5. ~(uid <= run[r].at)
        BY <2>0, <2>2
      <3> QED
        BY <3>3, <3>4, <3>5 DEF HasPassed
    <2>4. HasPassed(b, uid)'
      <3>1. run'[r].pc = "letter" /\ run'[r].box = b /\ run'[r].at = uid
        BY <1>3, <2>0, RunSteps DEF PassesLetter, Progress
      <3>2. Midway(r)' /\ uid <= run'[r].at
        BY <2>2, <3>1 DEF Midway
      <3> QED
        BY <3>1, <3>2 DEF HasPassed
    <2>5. <<b, uid>> \in CopiesOf(l) /\ <<b, uid>> \in CopiesOf(l)'
      <3>1. CopiesOf(l) = CopiesIn(inbox, l) /\ CopiesOf(l)' = CopiesOf(l)
        BY <2>1 DEF CopiesOf, CopiesIn
      <3>2. inbox \in [Boxes -> Seq(Letters)]
        BY DEF TypeInv, TypeOK
      <3> QED
        BY <2>2, <3>1, <3>2, CopiesFinite
    <2>6. <<b, uid>> \in PassedCopies(l)' \ PassedCopies(l)
      BY <2>3, <2>4, <2>5 DEF PassedCopies
    <2>7. PassedCopies(l) \cup {<<b, uid>>} \subseteq PassedCopies(l)'
      BY <2>6, PassedGrow
    <2>8. Cardinality(PassedCopies(l) \cup {<<b, uid>>}) = Cardinality(PassedCopies(l)) + 1
      BY <2>6, PassedGrow, FS_AddElement
    <2>9. Cardinality(PassedCopies(l)) + 1 <= Cardinality(PassedCopies(l)')
      BY <2>7, <2>8, PassedGrow, FS_Subset
    <2>10. rows'[l] = rows[l] + 1
      BY <1>0, <2>1
    <2> QED
      BY <1>0, <1>1, <2>9, <2>10
  <1>4. rows'[l] = rows[l] \/ \E r \in Runs : Stores(r) /\ l = Current(r)
    <2>1. ASSUME NEW r \in Runs, Stores(r), l # Current(r) PROVE rows'[l] = rows[l]
      BY <1>0, <2>1 DEF Stores
    <2>2. CASE \A r \in Runs : ~Stores(r)
      BY <2>2
         DEF Next, Arrives, CardCreated, Starts, Dies, CacheLoses, LockExpires, vars, crm,
             Progress, Opens, BoxFails, FindsDuplicate, FindsBroken, LooksUpSender,
             Collides, Defers, GivesUp, TimesOut, TimesOutBetween, SavesCursor, Ends
    <2> QED
      BY <2>1, <2>2
  <1> QED
    BY <1>2, <1>3, <1>4

\* No copy of a letter is stored twice, with or without a Message-ID, as long as
\* runs save their cursors: the next run begins where this one got
\* (_fetch_box, InboundMailboxState).
THEOREM NamelessOnce == Spec => []NamelessStoredOnce
  <1>1. Init => Fresh /\ StoredAsPassed
    <2> SUFFICES ASSUME Init PROVE Fresh /\ StoredAsPassed
      OBVIOUS
    <2>1. \A r \in Runs : ~Midway(r) /\ run[r].pc # "box"
      BY DEF Init, Idle, Midway
    <2>2. ASSUME NEW l \in Letters PROVE rows[l] <= Cardinality(PassedCopies(l))
      <3>1. inbox \in [Boxes -> Seq(Letters)] /\ rows[l] = 0
        BY DEF Init
      <3>2. CopiesOf(l) = CopiesIn(inbox, l)
        BY DEF CopiesOf, CopiesIn
      <3>3. IsFiniteSet(PassedCopies(l))
        BY <3>1, <3>2, CopiesFinite, FS_Subset DEF PassedCopies
      <3> QED
        BY <3>1, <3>3, FS_CardinalityType
    <2> QED
      BY <2>1, <2>2 DEF Fresh, StoredAsPassed
  <1>2. TypeInv /\ StoredAsPassed => NamelessStoredOnce
    <2> SUFFICES ASSUME TypeInv, StoredAsPassed, Undisturbed, NEW l \in Letters
                 PROVE  rows[l] <= Cardinality(CopiesOf(l))
      BY DEF NamelessStoredOnce, Undisturbed
    <2>1. inbox \in [Boxes -> Seq(Letters)] /\ rows[l] \in Nat
      BY DEF TypeInv, TypeOK
    <2>2. IsFiniteSet(CopiesOf(l))
      BY <2>1, CopiesFinite DEF CopiesOf, CopiesIn
    <2>3. /\ IsFiniteSet(PassedCopies(l))
          /\ Cardinality(PassedCopies(l)) <= Cardinality(CopiesOf(l))
      BY <2>2, FS_Subset DEF PassedCopies
    <2>4. Cardinality(PassedCopies(l)) \in Nat /\ Cardinality(CopiesOf(l)) \in Nat
      BY <2>2, <2>3, FS_CardinalityType
    <2> QED
      BY <2>1, <2>3, <2>4 DEF StoredAsPassed
  <1>3. Init => Locked
    BY DEF Init, Idle, Locked
  <1> QED
    BY <1>1, <1>2, <1>3, InitTyped, TypedStep, LockedStep, FreshStep, StoredStep, PTL DEF Spec

-----------------------------------------------------------------------------
(* The ledger                                                              *)

\* The letters passed over, as the ledger keeps them.
Skipped == {<<p[1], p[2]>> : p \in passed}

\* What has been dealt with is settled in the ledger.
LEMMA SettledIfDealt ==
    ASSUME NEW b \in Boxes, NEW uid \in Nat, Dealt(b, uid)
    PROVE  MailLedger!Settled(b, uid)
  <1>1. ASSUME NEW why, <<b, uid, why>> \in passed PROVE <<b, uid>> \in Skipped
    BY <1>1 DEF Skipped
  <1> QED
    BY <1>1 DEF Dealt, Handled, Skipped, MailLedger!Settled

\* A step that the ledger does not see.
Silent == UNCHANGED <<inbox, cursor, clients, leads, rows, passed>>

LEMMA SilentPromise == Silent => UNCHANGED MailLedger!ledgerVars
  BY DEF Silent, MailLedger!ledgerVars

\* A letter that is passed over is marked, unless it has a row.
LEMMA SkipPromise ==
    ASSUME TypeInv, NEW r \in Runs, AtLetter(r), NEW why, PassesOver(r, why),
           UNCHANGED <<inbox, cursor, clients, leads, rows>>
    PROVE  [MailLedger!Next]_(MailLedger!ledgerVars)
  <1>1. PICK b \in Boxes, uid \in Nat : b = run[r].box /\ uid = run[r].at + 1
    BY InHand
  <1>2. uid \in 1..Len(inbox[b]) /\ Current(r) = inbox[b][uid] /\ rows[Current(r)] \in Nat
    BY <1>1, InHand DEF Current, TypeInv, TypeOK
  <1>3. CASE rows[Current(r)] > 0
    BY <1>3, SilentPromise DEF PassesOver, Silent
  <1>4. CASE rows[Current(r)] = 0
    <2>1. passed' = passed \cup {<<b, uid, why>>}
      BY <1>1, <1>4 DEF PassesOver
    <2>2. Skipped' = Skipped \cup {<<b, uid>>}
      <3>1. <<b, uid, why>>[1] = b /\ <<b, uid, why>>[2] = uid
        OBVIOUS
      <3>2. ASSUME NEW p, passed' = passed \cup {p} PROVE Skipped' = Skipped \cup {<<p[1], p[2]>>}
        BY <3>2 DEF Skipped
      <3>3. Skipped' = Skipped \cup {<<<<b, uid, why>>[1], <<b, uid, why>>[2]>>}
        BY <2>1, <3>2
      <3> QED
        BY <3>1, <3>3
    <2>3. MailLedger!LetterSkipped(b, uid)
      BY <1>2, <1>4, <2>2 DEF MailLedger!LetterSkipped, Skipped
    <2> QED
      BY <1>2, <2>3 DEF MailLedger!Next
  <1> QED
    BY <1>2, <1>3, <1>4

\* A transaction that commits puts the letter into the ledger, whole.
LEMMA StorePromise ==
    ASSUME TypeInv, Found, NEW r \in Runs, Stores(r)
    PROVE  MailLedger!Next
  <1>1. AtLetter(r) /\ run[r].pc = "store" /\ ~Conflicts(r)
    BY DEF Stores, AtLetter
  <1>2. PICK b \in Boxes, uid \in Nat : b = run[r].box /\ uid = run[r].at + 1
    BY <1>1, InHand
  <1>3. PICK l \in Letters : l = Current(r)
    BY <1>1, InHand
  <1>4. uid \in 1..Len(inbox[b]) /\ l = inbox[b][uid] /\ rows[l] \in Nat
    BY <1>1, <1>2, <1>3, InHand DEF Current, TypeInv, TypeOK
  <1>5. l \notin Broken /\ (l \in Named => rows[l] = 0)
    <2>1. l \notin Broken
      BY <1>1, <1>3 DEF Found
    <2>2. ~Stored(l)
      BY <1>1, <1>3 DEF Conflicts
    <2> QED
      BY <1>4, <2>1, <2>2 DEF Stored
  <1>6. leads' = IF Sender[l] \in clients THEN leads ELSE leads \cup {Sender[l]}
    <2>1. CASE Sender[l] \in clients
      BY <1>1, <1>3, <2>1 DEF Stores, NeedsLead, Conflicts
    <2>2. CASE Sender[l] \notin clients
      <3>1. run[r].new
        BY <1>1, <1>3, <2>2 DEF Found
      <3> QED
        BY <1>3, <2>2, <3>1 DEF Stores, NeedsLead
    <2> QED
      BY <2>1, <2>2
  <1>7. MailLedger!LetterGoesIn(b, uid)
    BY <1>3, <1>4, <1>5, <1>6 DEF Stores, MailLedger!LetterGoesIn
  <1> QED
    BY <1>4, <1>7 DEF MailLedger!Next

\* A cursor that is saved ticks off what the run has behind it.
LEMMA CursorPromise ==
    ASSUME TypeInv, Behind, NEW r \in Runs, SavesCursor(r)
    PROVE  MailLedger!Next
  <1>1. PICK b \in Boxes, n \in Nat : b = run[r].box /\ n = run[r].at
    BY DEF TypeInv, TypeOK, RunType
  <1>2. Len(inbox[b]) \in Nat /\ n <= Len(inbox[b])
    BY <1>1 DEF TypeInv, TypeOK, Placed, PlacedAt
  <1>3. \A uid \in 1..n : MailLedger!Settled(b, uid)
    BY <1>1, SettledIfDealt DEF Behind
  <1>4. MailLedger!TickedOff(b, n)
    BY <1>1, <1>3 DEF SavesCursor, Reached, crm, MailLedger!TickedOff
  <1>5. n \in 0..Len(inbox[b])
    BY <1>2
  <1> QED
    BY <1>4, <1>5 DEF MailLedger!Next

LEMMA ArrivesPromise ==
    ASSUME TypeInv, NEW b \in Boxes, Arrives(b)
    PROVE  MailLedger!Next
  <1>1. PICK l : l = post[b][Len(inbox[b]) + 1]
    OBVIOUS
  <1>2. l \in Letters
    <2>1. post \in [Boxes -> Seq(Letters)] /\ inbox \in [Boxes -> Seq(Letters)]
      BY LettersAssumption DEF TypeInv, TypeOK, Boxes
    <2>2. post[b] \in Seq(Letters) /\ Len(post[b]) \in Nat /\ Len(inbox[b]) \in Nat
      BY <2>1
    <2>3. Len(inbox[b]) + 1 \in 1..Len(post[b])
      BY <2>2 DEF Arrives
    <2> QED
      BY <1>1, <2>2, <2>3, ElementOfSeq
  <1>3. inbox' = [inbox EXCEPT ![b] = Append(@, l)]
    BY <1>1 DEF Arrives
  <1>4. MailLedger!LetterComes(b)
    BY <1>2, <1>3 DEF Arrives, crm, MailLedger!LetterComes
  <1> QED
    BY <1>4 DEF MailLedger!Next

LEMMA LedgerStep ==
    TypeInv /\ Behind /\ Found /\ [Next]_vars => [MailLedger!Next]_(MailLedger!ledgerVars)
  <1> SUFFICES ASSUME TypeInv, Behind, Found, [Next]_vars
               PROVE  [MailLedger!Next]_(MailLedger!ledgerVars)
    OBVIOUS
  <1>1. ASSUME NEW s \in Senders, CardCreated(s) PROVE MailLedger!Next
    <2>1. MailLedger!CardComes(s)
      BY <1>1 DEF CardCreated, MailLedger!CardComes
    <2> QED
      BY <2>1 DEF MailLedger!Next
  <1>2. ASSUME NEW r \in Runs, Collides(r) \/ GivesUp(r) \/ TimesOut(r)
        PROVE  [MailLedger!Next]_(MailLedger!ledgerVars)
    <2>1. /\ AtLetter(r) /\ UNCHANGED <<inbox, cursor, clients, leads, rows>>
          /\ \E why : PassesOver(r, why)
      BY <1>2 DEF Collides, GivesUp, TimesOut, AtLetter, crm
    <2> QED
      BY <2>1, SkipPromise
  <1>3. CASE \/ \E r \in Runs : \/ Starts(r) \/ Dies(r) \/ Opens(r) \/ BoxFails(r)
                                \/ FindsDuplicate(r) \/ FindsBroken(r) \/ LooksUpSender(r)
                                \/ Defers(r) \/ TimesOutBetween(r) \/ Ends(r)
             \/ CacheLoses \/ LockExpires \/ UNCHANGED vars
    <2>1. Silent
      BY <1>3 DEF Silent, Starts, Dies, Opens, BoxFails, FindsDuplicate, FindsBroken,
                  LooksUpSender, Defers, TimesOutBetween, Ends, CacheLoses, LockExpires, vars, crm
    <2> QED
      BY <2>1, SilentPromise
  <1> QED
    BY <1>1, <1>2, <1>3, ArrivesPromise, StorePromise, CursorPromise DEF Next, Progress

\* The import implements MailLedger, for any mailboxes, letters and runs: runs that
\* overlap, die and repeat, and time limits wherever they strike, do nothing to
\* the mailboxes and the CRM that the plain ledger would not (imap_fetch.py,
\* fetch_inbound_email).
THEOREM ImportRefines == Spec => ImplementsMailLedger
  <1>1. Init => MailLedger!Init
    BY DEF Init, crm, MailLedger!Init
  <1>2. Init => Behind /\ Found
    BY DEF Init, Idle, Behind, Found
  <1> QED
    BY <1>1, <1>2, InitTyped, TypedStep, BehindStep, FoundStep, LedgerStep, PTL
       DEF Spec, ImplementsMailLedger, MailLedger!Spec

-----------------------------------------------------------------------------
(* Runs end                                                                *)

\* A run handles no more letters of a mailbox than it may.
Within ==
    \A r \in Runs : Midway(r) => /\ run[r].at <= run[r].upto
                                 /\ run[r].upto <= run[r].at + FetchLimit

\* The most steps a run can take in one mailbox: it opens it, looks every letter up
\* and stores it, stops before a letter, and saves the cursor.
BoxSteps == 2 * FetchLimit + 3

\* The most steps it can still take in the mailbox it is at.
BoxStepsLeft(x) ==
    CASE x.pc = "box" -> BoxSteps
      [] x.pc = "letter" -> 2 * (x.upto - x.at) + 2
      [] x.pc = "store" -> 2 * (x.upto - x.at) + 1
      [] x.pc = "save" -> 1
      [] OTHER -> 0

\* The most steps it can still take.
StepsLeft(x) ==
    CASE x.pc = "idle" -> 0
      [] x.pc = "ending" -> 1
      [] OTHER -> (NumBoxes - x.box) * BoxSteps + BoxStepsLeft(x) + 1

\* Only Starts begins a run, with its mailboxes before it, and every other step of
\* a run, an interruption included, brings it nearer to its end: no letter, try or
\* error makes fetch_inbound_email go round for ever.
RunsEnd ==
    [][\A r \in Runs : run'[r] # run[r] =>
           \/ Starts(r) /\ StepsLeft(run'[r]) = NumBoxes * BoxSteps + 1
           \/ StepsLeft(run'[r]) < StepsLeft(run[r])]_vars

\* Where the steps of a run leave the end of its share.
LEMMA RunShare ==
    ASSUME TypeInv, NEW r \in Runs
    PROVE  /\ Opens(r) =>
                /\ run[r].pc = "box" /\ run'[r].upto <= run[r].from[run[r].box] + FetchLimit
                /\ run[r].from[run[r].box] <= run'[r].upto
           /\ LooksUpSender(r) => run[r].pc = "letter" /\ run'[r].pc = "store"
           /\ Defers(r) => run'[r].pc = "save"
           /\ LooksUpSender(r) \/ Defers(r) \/ PassesLetter(r) => run'[r].upto = run[r].upto
  <1>0. run \in [Runs -> RunType] /\ run[r] \in RunType /\ PlacedAt(run[r])
    BY DEF TypeInv, TypeOK, Placed
  <1>1. ASSUME Opens(r)
        PROVE  /\ run[r].pc = "box" /\ run'[r].upto <= run[r].from[run[r].box] + FetchLimit
               /\ run[r].from[run[r].box] <= run'[r].upto
    <2>1. PICK b \in Boxes, from \in Nat : b = run[r].box /\ from = run[r].from[b]
      BY <1>0 DEF RunType
    <2>2. Len(inbox[b]) \in Nat /\ from <= Len(inbox[b]) /\ FetchLimit \in Nat
      BY <1>0, <2>1, NumberAssumption DEF TypeInv, TypeOK, PlacedAt
    <2>3. run'[r].upto = Least(Len(inbox[b]), from + FetchLimit) /\ run[r].pc = "box"
      BY <1>0, <1>1, <2>1 DEF Opens, RunType
    <2> QED
      BY <2>1, <2>2, <2>3 DEF Least
  <1>2. ASSUME LooksUpSender(r) \/ Defers(r)
        PROVE  /\ run'[r].upto = run[r].upto
               /\ LooksUpSender(r) => run[r].pc = "letter" /\ run'[r].pc = "store"
               /\ Defers(r) => run'[r].pc = "save"
    BY <1>0, <1>2 DEF LooksUpSender, Defers, HasLetter, RunType
  <1>3. ASSUME PassesLetter(r) PROVE run'[r].upto = run[r].upto
    <2>1. run'[r] = Passes(r)
      BY <1>0, <1>3 DEF PassesLetter, FindsDuplicate, FindsBroken, Stores, Collides, GivesUp,
                        TimesOut
    <2>2. Passes(r).upto = run[r].upto
      BY <1>0 DEF Passes, RunType
    <2> QED
      BY <2>1, <2>2
  <1> QED
    BY <1>1, <1>2, <1>3

\* Every step of a run is one of these.
LEMMA ProgressKinds ==
    ASSUME NEW r \in Runs, Progress(r)
    PROVE  \/ Opens(r) \/ LooksUpSender(r) \/ Defers(r) \/ PassesLetter(r)
           \/ BoxFails(r) \/ TimesOutBetween(r) \/ SavesCursor(r) \/ Ends(r)
  BY DEF Progress, PassesLetter

LEMMA WithinStep == TypeInv /\ Within /\ [Next]_vars => Within'
  <1> SUFFICES ASSUME TypeInv, Within, [Next]_vars, NEW q \in Runs, Midway(q)'
               PROVE  run'[q].at <= run'[q].upto /\ run'[q].upto <= run'[q].at + FetchLimit
    BY DEF Within
  <1>0. TypeInv' /\ run'[q] \in RunType /\ run[q] \in RunType /\ FetchLimit \in Nat
    BY TypedStep, NumberAssumption DEF TypeInv, TypeOK
  <1>1. CASE run'[q] = run[q]
    BY <1>1 DEF Midway, Within
  <1>2. CASE run'[q] # run[q]
    <2>1. PICK r \in Runs : Starts(r) \/ Progress(r) \/ Dies(r)
      BY <1>2, WhoMoves
    <2>2. q = r
      BY <1>2, <2>1, RunSteps
    <2>3. Opens(q) \/ LooksUpSender(q) \/ Defers(q) \/ PassesLetter(q)
      <3>1. run'[q].pc \in {"letter", "store", "save"}
        BY DEF Midway
      <3> QED
        BY <2>1, <2>2, <3>1, RunSteps, ProgressKinds
    <2>4. CASE Opens(q)
      <3>1. run'[q].at = run[q].from[run[q].box]
        BY <2>1, <2>2, <2>4, RunSteps
      <3> QED
        BY <2>4, <3>1, RunShare
    <2>5. CASE LooksUpSender(q) \/ Defers(q) \/ PassesLetter(q)
      <3>1. AtLetter(q) /\ run'[q].upto = run[q].upto
        BY <2>1, <2>2, <2>5, RunSteps, RunShare
      <3>2. run'[q].at = run[q].at \/ run'[q].at = run[q].at + 1
        BY <2>1, <2>2, <2>5, RunSteps
      <3>3. run[q].at < run[q].upto /\ run[q].at \in Nat /\ run[q].upto \in Nat
        BY <3>1, <1>0, InHand DEF RunType
      <3>4. Midway(q)
        BY <3>1 DEF AtLetter, HasLetter, Midway
      <3>5. run[q].upto <= run[q].at + FetchLimit
        BY <3>4 DEF Within
      <3> QED
        BY <1>0, <3>1, <3>2, <3>3, <3>5
    <2> QED
      BY <2>3, <2>4, <2>5
  <1> QED
    BY <1>1, <1>2

LEMMA InitWithin == Init => Within
  BY DEF Init, Within, Midway, Idle

\* A mailbox less to go is so many steps less.
LEMMA BoxesLeft ==
    ASSUME NEW n \in Nat, NEW w \in Nat
    PROVE  n * w \in Nat /\ (n + 1) * w = n * w + w
  OBVIOUS

LEMMA StepsLeftStep ==
    ASSUME TypeInv, Within, Within', [Next]_vars, NEW q \in Runs, run'[q] # run[q]
    PROVE  \/ Starts(q) /\ StepsLeft(run'[q]) = NumBoxes * BoxSteps + 1
           \/ StepsLeft(run'[q]) < StepsLeft(run[q])
  <1>0. TypeInv' /\ run'[q] \in RunType /\ run[q] \in RunType
    BY TypedStep DEF TypeInv, TypeOK
  <1>1. FetchLimit \in Nat /\ NumBoxes \in Nat \ {0} /\ BoxSteps \in Nat
    BY NumberAssumption DEF BoxSteps
  <1>2. PICK r \in Runs : Starts(r) \/ Progress(r) \/ Dies(r)
    BY WhoMoves
  <1>3. q = r
    BY <1>2, RunSteps
  <1>4. PICK left \in Nat : left = (NumBoxes - run[q].box) * BoxSteps
    <2>1. NumBoxes - run[q].box \in Nat
      BY <1>0, <1>1 DEF RunType, Boxes
    <2> QED
      BY <2>1, <1>1, BoxesLeft
  <1>5. /\ run[q].at \in Nat /\ run[q].upto \in Nat /\ run'[q].at \in Nat /\ run'[q].upto \in Nat
        /\ run[q].box \in Nat /\ run'[q].box \in Nat
    BY <1>0 DEF RunType, Boxes
  <1>6. /\ run[q].pc = "box" => StepsLeft(run[q]) = left + BoxSteps + 1
        /\ run[q].pc = "letter" =>
             StepsLeft(run[q]) = left + (2 * (run[q].upto - run[q].at) + 2) + 1
        /\ run[q].pc = "store" =>
             StepsLeft(run[q]) = left + (2 * (run[q].upto - run[q].at) + 1) + 1
        /\ run[q].pc = "save" => StepsLeft(run[q]) = left + 1 + 1
        /\ run[q].pc = "ending" => StepsLeft(run[q]) = 1
        /\ run[q].pc = "idle" => StepsLeft(run[q]) = 0
    BY <1>4 DEF StepsLeft, BoxStepsLeft
  <1>7. run'[q].box = run[q].box =>
        /\ run'[q].pc = "letter" =>
             StepsLeft(run'[q]) = left + (2 * (run'[q].upto - run'[q].at) + 2) + 1
        /\ run'[q].pc = "store" =>
             StepsLeft(run'[q]) = left + (2 * (run'[q].upto - run'[q].at) + 1) + 1
        /\ run'[q].pc = "save" => StepsLeft(run'[q]) = left + 1 + 1
    BY <1>4 DEF StepsLeft, BoxStepsLeft
  <1>8. /\ run'[q].pc = "ending" => StepsLeft(run'[q]) = 1
        /\ run'[q].pc = "idle" => StepsLeft(run'[q]) = 0
    BY DEF StepsLeft
  <1>9. Midway(q) => run[q].at <= run[q].upto
    BY DEF Within
  \* A run that is not idle and not ending has more than one step to go.
  <1>10. run[q].pc \in {"box", "letter", "store", "save"} =>
             StepsLeft(run[q]) \in Nat /\ StepsLeft(run[q]) > 1
    BY <1>1, <1>5, <1>6, <1>9 DEF BoxSteps, Midway
  <1>11. CASE Starts(q)
    <2>1. run'[q] = [Idle EXCEPT !.pc = "box", !.from = cursor]
      BY <1>11 DEF Starts, TypeInv, TypeOK
    <2>2. run'[q].pc = "box" /\ run'[q].box = 1
      BY <2>1 DEF Idle
    <2>3. StepsLeft(run'[q]) = (NumBoxes - 1) * BoxSteps + BoxSteps + 1
      BY <2>2 DEF StepsLeft, BoxStepsLeft
    <2>4. (NumBoxes - 1) * BoxSteps + BoxSteps = NumBoxes * BoxSteps
      <3>1. NumBoxes - 1 \in Nat /\ (NumBoxes - 1) + 1 = NumBoxes
        BY <1>1
      <3> QED
        BY <1>1, <3>1, BoxesLeft
    <2> QED
      BY <1>11, <2>3, <2>4
  <1>12. CASE Dies(q)
    <2>1. run[q].pc # "idle" /\ run'[q].pc = "idle"
      BY <1>12, RunSteps DEF Dies
    <2>2. run[q].pc = "ending" \/ run[q].pc \in {"box", "letter", "store", "save"}
      BY <2>1, <1>0 DEF RunType
    <2>3. StepsLeft(run[q]) \in Nat /\ StepsLeft(run[q]) >= 1
      BY <2>2, <1>6, <1>10
    <2>4. StepsLeft(run'[q]) = 0
      BY <2>1, <1>8
    <2> QED
      BY <2>3, <2>4
  <1>13. CASE Ends(q)
    <2>1. run[q].pc = "ending" /\ run'[q].pc = "idle"
      BY <1>2, <1>3, <1>13, RunSteps DEF Ends
    <2> QED
      BY <2>1, <1>6, <1>8
  <1>14. CASE Opens(q)
    <2>1. /\ run[q].pc = "box" /\ run'[q].pc = "letter" /\ run'[q].box = run[q].box
          /\ run'[q].upto <= run'[q].at + FetchLimit
      BY <1>2, <1>3, <1>14, RunSteps, RunShare
    <2>2. 2 * (run'[q].upto - run'[q].at) + 2 < BoxSteps
      BY <2>1, <1>5, <1>1 DEF BoxSteps
    <2> QED
      BY <2>1, <2>2, <1>1, <1>5, <1>6, <1>7
  <1>15. CASE LooksUpSender(q)
    <2>1. /\ run[q].pc = "letter" /\ run'[q].pc = "store" /\ run'[q].box = run[q].box
          /\ run'[q].at = run[q].at /\ run'[q].upto = run[q].upto
      BY <1>2, <1>3, <1>15, RunSteps, RunShare
    <2> QED
      BY <2>1, <1>5, <1>6, <1>7
  <1>16. CASE Defers(q)
    <2>1. AtLetter(q) /\ run'[q].pc = "save" /\ run'[q].box = run[q].box
      BY <1>2, <1>3, <1>16, RunSteps, RunShare
    <2>2. run[q].at < run[q].upto
      BY <2>1, InHand
    <2>3. run[q].pc = "letter" \/ run[q].pc = "store"
      BY <2>1 DEF AtLetter, HasLetter
    <2> QED
      BY <2>1, <2>2, <2>3, <1>5, <1>6, <1>7
  <1>17. CASE PassesLetter(q)
    <2>1. /\ AtLetter(q) /\ run'[q].pc = "letter" /\ run'[q].box = run[q].box
          /\ run'[q].at = run[q].at + 1 /\ run'[q].upto = run[q].upto
      BY <1>2, <1>3, <1>17, RunSteps, RunShare
    <2>2. run[q].at < run[q].upto
      BY <2>1, InHand
    <2>3. run[q].pc = "letter" \/ run[q].pc = "store"
      BY <2>1 DEF AtLetter, HasLetter
    <2> QED
      BY <2>1, <2>2, <2>3, <1>5, <1>6, <1>7
  <1>18. CASE BoxFails(q) \/ TimesOutBetween(q) \/ SavesCursor(q)
    <2>1. run[q].pc \in {"box", "letter", "save"}
      BY <1>18 DEF BoxFails, TimesOutBetween, SavesCursor
    <2>2. \/ run'[q].pc = "ending"
          \/ run'[q].pc = "box" /\ run'[q].box = run[q].box + 1
      BY <1>2, <1>3, <1>18, RunSteps
    <2>3. CASE run'[q].pc = "ending"
      BY <2>1, <2>3, <1>8, <1>10
    <2>4. CASE run'[q].pc = "box" /\ run'[q].box = run[q].box + 1
      <3>1. NumBoxes - run'[q].box \in Nat
        BY <1>0, <1>1 DEF RunType, Boxes
      <3>2. (NumBoxes - run'[q].box) * BoxSteps + BoxSteps = left
        <4>1. (NumBoxes - run'[q].box) + 1 = NumBoxes - run[q].box
          BY <2>4, <1>1, <1>5
        <4> QED
          BY <3>1, <4>1, <1>1, <1>4, BoxesLeft
      <3>3. StepsLeft(run'[q]) = (NumBoxes - run'[q].box) * BoxSteps + BoxSteps + 1
        BY <2>4 DEF StepsLeft, BoxStepsLeft
      <3>4. StepsLeft(run'[q]) = left + 1
        BY <3>2, <3>3
      <3> QED
        BY <2>1, <3>4, <1>1, <1>5, <1>6, <1>9 DEF BoxSteps, Midway
    <2> QED
      BY <2>2, <2>3, <2>4
  <1> QED
    BY <1>2, <1>3, <1>11, <1>12, <1>13, <1>14, <1>15, <1>16, <1>17, <1>18, ProgressKinds

\* Every run comes to its end in a number of steps that is bounded by the mailboxes
\* and IMAP_FETCH_LIMIT, whatever it meets (RunsEnd).
THEOREM RunsComeToAnEnd == Spec => RunsEnd
  <1>1. Init => TypeInv /\ Within
    BY InitTyped, InitWithin
  <1>2. TypeInv /\ Within /\ [Next]_vars => (TypeInv /\ Within)'
    BY TypedStep, WithinStep
  <1>3. TypeInv /\ Within /\ (TypeInv /\ Within)' /\ [Next]_vars =>
            [\A r \in Runs : run'[r] # run[r] =>
                \/ Starts(r) /\ StepsLeft(run'[r]) = NumBoxes * BoxSteps + 1
                \/ StepsLeft(run'[r]) < StepsLeft(run[r])]_vars
    BY StepsLeftStep
  <1> QED
    BY <1>1, <1>2, <1>3, PTL DEF Spec, RunsEnd
=============================================================================
