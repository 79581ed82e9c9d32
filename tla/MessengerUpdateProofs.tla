------------------------ MODULE MessengerUpdateProofs ------------------------
(***************************************************************************)
(* Proofs that the invariants of MessengerUpdate hold of its specification *)
(* for every number of handlers, rows, retries and failures.               *)
(*                                                                         *)
(* The inductive invariant IInv has seven parts: the types, with RetryInv; *)
(* LockInv, one handler at a time between the lock and its release;        *)
(* CountInv, which counts the rows of a reply while a handler is about to  *)
(* store one more; TakenInv, which follows a row from its store to its     *)
(* calls on commit; CopyInv, which charges every copy the client sees to   *)
(* the task or to the handler that posts it; ToldInv, what a manager who   *)
(* is about to be told may rely on; HeldInv, that a lock which makes a     *)
(* copy skip the update has a handler at work behind it, or a dead one.    *)
(* Each has a lemma for a step.                                            *)
(***************************************************************************)
EXTENDS MessengerUpdate, FiniteSetTheorems, TLAPS

\* What the steps of a handler do to its state, to the tally and to the rows.
LEMMA MovesEffect ==
    ASSUME TypeOK, NEW h \in Handlers,
           NEW pc \in {"free", "accepted", "queued", "checked"} \cup Handling,
           Moves(h, pc)
    PROVE  /\ handler' \in [Handlers -> HandlerStates]
           /\ handler'[h].pc = pc /\ handler'[h].web = handler[h].web
           /\ handler'[h].retries = handler[h].retries /\ handler'[h].row = handler[h].row
           /\ \A g \in Handlers \ {h} : handler'[g] = handler[g]
  <1>1. [handler[h] EXCEPT !.pc = pc] \in HandlerStates
    BY DEF TypeOK, HandlerStates
  <1>2. handler' = [handler EXCEPT ![h] = [handler[h] EXCEPT !.pc = pc]]
    BY DEF TypeOK, Moves
  <1> QED
    BY <1>1, <1>2 DEF TypeOK, HandlerStates

LEMMA LeavesEffect ==
    ASSUME TypeOK, NEW h \in Handlers, Leaves(h)
    PROVE  /\ handler' \in [Handlers -> HandlerStates]
           /\ handler'[h].pc = "free" /\ handler'[h].row = NoRow
           /\ \A g \in Handlers \ {h} : handler'[g] = handler[g]
  BY BoundAssumption DEF TypeOK, HandlerStates, Leaves, Free, Slot

LEMMA CountsEffect ==
    ASSUME TypeOK,
           NEW field \in {"arrivals", "gaps", "refused", "broken", "failed", "deaths", "lost", "kept"},
           Counts(field)
    PROVE  /\ tally' \in Tallies
           /\ tally'[field] = tally[field] + 1
           /\ \A f \in {"arrivals", "gaps", "refused", "broken", "failed", "deaths", "lost", "kept"} \ {field} :
                tally'[f] = tally[f]
  BY DEF TypeOK, Tallies, Counts

LEMMA BooleanNote ==
    ASSUME TypeOK, NEW r \in Rows,
           NEW field \in {"stored", "taken", "told", "numbered", "inline", "dropped"},
           NEW b \in BOOLEAN, Notes(r, field, b)
    PROVE  row' \in [Rows -> RowStates]
  <1>1. [row[r] EXCEPT ![field] = b] \in RowStates
    BY DEF TypeOK, RowStates
  <1> QED
    BY <1>1 DEF TypeOK, Notes

LEMMA TaskNote ==
    ASSUME TypeOK, NEW r \in Rows,
           NEW task \in {"none", "over", "lost"} \cup Underway, Notes(r, "task", task)
    PROVE  row' \in [Rows -> RowStates]
  <1>1. [row[r] EXCEPT !.task = task] \in RowStates
    BY DEF TypeOK, RowStates
  <1> QED
    BY <1>1 DEF TypeOK, Notes

LEMMA RowKeys == NoRow \notin Rows
  BY DEF NoRow, Rows

\* A slot taken anew has no row.
LEMMA SlotTypes ==
    ASSUME NEW pc \in {"free", "accepted", "queued"}, NEW web \in BOOLEAN,
           NEW retries \in 0..MaxRetries
    PROVE  /\ Slot(pc, web, retries) \in HandlerStates
           /\ Slot(pc, web, retries).pc = pc /\ Slot(pc, web, retries).row = NoRow
  BY DEF Slot, HandlerStates

LEMMA FreshTypes ==
    ASSUME NEW pc \in {"free", "accepted", "queued"}, NEW web \in BOOLEAN
    PROVE  /\ Slot(pc, web, 0) \in HandlerStates
           /\ Slot(pc, web, 0).pc = pc /\ Slot(pc, web, 0).row = NoRow
  <1>1. 0 \in 0..MaxRetries
    BY BoundAssumption
  <1> QED
    BY <1>1, SlotTypes

\* A handler that is past the store works on a row.
LEMMA RowOf ==
    ASSUME TypeOK, NEW h \in Handlers, handler[h].pc \in Unmarked \ {"finished"}
    PROVE  handler[h].row \in Rows /\ handler[h].row # NoRow
  BY DEF TypeOK, HandlerStates

\* A POST counts what it may have shown, and nothing else befalls the update ...
TallySame ==
    /\ tally' \in Tallies
    /\ tally'.arrivals = tally.arrivals /\ tally'.gaps = tally.gaps
    /\ tally'.refused = tally.refused /\ tally'.broken = tally.broken
    /\ tally'.failed = tally.failed /\ tally'.deaths = tally.deaths
    /\ tally'.lost = tally.lost /\ tally'.kept = tally.kept

\* ... and its row changes in its delivery alone.
RowFrame(r) ==
    /\ row' \in [Rows -> RowStates]
    /\ \A q \in Rows \ {r} : row'[q] = row[q]
    /\ row'[r].stored = row[r].stored /\ row'[r].taken = row[r].taken
    /\ row'[r].told = row[r].told /\ row'[r].numbered = row[r].numbered
    /\ row'[r].inline = row[r].inline

\* A POST that is answered shows one copy and may have shown more.
Shows(r) ==
    /\ row[r].copies < row'[r].copies
    /\ row'[r].copies <= row[r].copies + MaxAttempts
    /\ row'[r].doubts = row[r].doubts
    /\ row'[r].dropped = row[r].dropped

\* One that ends in an error counts what it has shown as doubtful.
Doubts(r) ==
    /\ row[r].copies <= row'[r].copies
    /\ row'[r].copies - row'[r].doubts = row[r].copies - row[r].doubts

\* What a row is when its delivery has moved on.
LEMMA RowPosted ==
    ASSUME NEW s \in RowStates, NEW c \in Nat
    PROVE  [s EXCEPT !.task = "posted", !.copies = c] \in RowStates
  BY DEF RowStates, Underway

LEMMA RowDoubted ==
    ASSUME NEW s \in RowStates, NEW c \in Nat, NEW d \in Nat
    PROVE  [s EXCEPT !.copies = c, !.doubts = d] \in RowStates
  BY DEF RowStates

LEMMA RowFailed ==
    ASSUME NEW s \in RowStates, NEW c \in Nat, NEW d \in Nat,
           NEW task \in {"queued", "over"}, NEW n \in 0..MaxTries, NEW b \in BOOLEAN
    PROVE  [s EXCEPT !.copies = c, !.doubts = d, !.task = task, !.tries = n,
                     !.dropped = b] \in RowStates
  BY DEF RowStates, Underway

LEMMA UnheardEffect ==
    ASSUME TypeOK, NEW more \in Nat, tally' = [tally EXCEPT !.unheard = @ + more]
    PROVE  TallySame
  BY DEF TypeOK, Tallies, TallySame

LEMMA InlinePostsEffect ==
    ASSUME TypeOK, NEW h \in Handlers, InlinePosts(h)
    PROVE  /\ handler[h].row \in Rows
           /\ TallySame /\ RowFrame(handler[h].row) /\ Shows(handler[h].row)
           /\ row'[handler[h].row].task = row[handler[h].row].task
           /\ UNCHANGED <<kind, done, lock>> /\ Moves(h, "posted")
           /\ handler[h].pc = "posting"
  <1>1. PICK r \in Rows : r = handler[h].row
    BY RowOf DEF InlinePosts, Unmarked
  <1>2. PICK more \in Unheard(MaxAttempts - 1) :
          /\ Notes(handler[h].row, "copies", row[handler[h].row].copies + 1 + more)
          /\ tally' = [tally EXCEPT !.unheard = @ + more]
    BY DEF InlinePosts
  <1>3. more \in Nat /\ more + 1 <= MaxAttempts
    BY AttemptsAssumption DEF Unheard
  <1>4. row[r] \in RowStates /\ row[r].copies \in Nat /\ row \in [Rows -> RowStates]
    BY DEF TypeOK, RowStates
  <1>5. row' = [row EXCEPT ![r] = [row[r] EXCEPT !.copies = row[r].copies + 1 + more]]
    BY <1>1, <1>2, <1>4 DEF Notes
  <1>6. [row[r] EXCEPT !.copies = row[r].copies + 1 + more] \in RowStates
    BY <1>3, <1>4 DEF RowStates
  <1>7. RowFrame(r) /\ Shows(r) /\ row'[r].task = row[r].task
    <2>1. row' \in [Rows -> RowStates] /\ \A q \in Rows \ {r} : row'[q] = row[q]
      BY <1>4, <1>5, <1>6
    <2>2. row'[r] = [row[r] EXCEPT !.copies = row[r].copies + 1 + more]
      BY <1>4, <1>5
    <2> QED
      BY <1>3, <1>4, <2>1, <2>2, AttemptsAssumption DEF RowStates, RowFrame, Shows
  <1> QED
    BY <1>1, <1>2, <1>3, <1>7, UnheardEffect DEF InlinePosts

LEMMA DeliverPostsEffect ==
    ASSUME TypeOK, NEW r \in Rows, DeliverPosts(r)
    PROVE  /\ TallySame /\ RowFrame(r) /\ Shows(r)
           /\ row[r].task = "posting" /\ row'[r].task = "posted"
           /\ UNCHANGED <<kind, done, lock, handler>>
  <1>1. PICK more \in Unheard(MaxAttempts - 1) :
          /\ row' = [row EXCEPT ![r].task = "posted", ![r].copies = @ + 1 + more]
          /\ tally' = [tally EXCEPT !.unheard = @ + more]
    BY DEF DeliverPosts
  <1>2. more \in Nat /\ more + 1 <= MaxAttempts
    BY AttemptsAssumption DEF Unheard
  <1>3. row[r] \in RowStates /\ row[r].copies \in Nat /\ row \in [Rows -> RowStates]
    BY DEF TypeOK, RowStates
  <1>4. [row[r] EXCEPT !.task = "posted", !.copies = row[r].copies + 1 + more] \in RowStates
    <2>1. row[r].copies + 1 + more \in Nat
      BY <1>2, <1>3
    <2> QED
      BY <1>3, <2>1, RowPosted
  <1>5. row'[r] = [row[r] EXCEPT !.task = "posted", !.copies = row[r].copies + 1 + more]
    BY <1>1, <1>3 DEF RowStates
  <1>6. row' \in [Rows -> RowStates] /\ \A q \in Rows \ {r} : row'[q] = row[q]
    BY <1>1, <1>3, <1>4, <1>5 DEF RowStates
  <1>7. RowFrame(r) /\ Shows(r) /\ row'[r].task = "posted"
    BY <1>2, <1>3, <1>5, <1>6, AttemptsAssumption DEF RowStates, RowFrame, Shows
  <1> QED
    BY <1>1, <1>2, <1>7, UnheardEffect DEF DeliverPosts

LEMMA InlineFailsEffect ==
    ASSUME TypeOK, NEW h \in Handlers, InlineFails(h)
    PROVE  /\ handler[h].row \in Rows
           /\ tally' \in Tallies /\ tally'.broken = tally.broken + 1
           /\ tally'.arrivals = tally.arrivals /\ tally'.gaps = tally.gaps
           /\ tally'.refused = tally.refused /\ tally'.failed = tally.failed
           /\ tally'.deaths = tally.deaths /\ tally'.lost = tally.lost
           /\ RowFrame(handler[h].row) /\ Doubts(handler[h].row)
           /\ row'[handler[h].row].task = row[handler[h].row].task
           /\ row'[handler[h].row].dropped = row[handler[h].row].dropped
           /\ UNCHANGED <<kind, done, lock>> /\ Moves(h, "failing")
           /\ handler[h].pc = "posting"
  <1>1. PICK r \in Rows : r = handler[h].row
    BY RowOf DEF InlineFails, Unmarked
  <1>2. PICK more \in Unheard(MaxAttempts) :
          /\ row' = [row EXCEPT ![handler[h].row].copies = @ + more,
                                ![handler[h].row].doubts = @ + more]
          /\ tally' = [tally EXCEPT !.broken = @ + 1, !.unheard = @ + more]
    BY DEF InlineFails
  <1>3. more \in Nat
    BY AttemptsAssumption DEF Unheard
  <1>4. row[r] \in RowStates /\ row \in [Rows -> RowStates]
        /\ row[r].copies \in Nat /\ row[r].doubts \in Nat
    BY DEF TypeOK, RowStates
  <1>5. [row[r] EXCEPT !.copies = row[r].copies + more, !.doubts = row[r].doubts + more]
          \in RowStates
    <2>1. row[r].copies + more \in Nat /\ row[r].doubts + more \in Nat
      BY <1>3, <1>4
    <2> QED
      BY <1>4, <2>1, RowDoubted
  <1>6. row'[r] = [row[r] EXCEPT !.copies = row[r].copies + more,
                                 !.doubts = row[r].doubts + more]
    BY <1>1, <1>2, <1>4 DEF RowStates
  <1>7. row' \in [Rows -> RowStates] /\ \A q \in Rows \ {r} : row'[q] = row[q]
    BY <1>1, <1>2, <1>4, <1>5, <1>6 DEF RowStates
  <1>8. /\ RowFrame(r) /\ Doubts(r) /\ row'[r].task = row[r].task
        /\ row'[r].dropped = row[r].dropped
    BY <1>3, <1>4, <1>6, <1>7 DEF RowStates, RowFrame, Doubts
  <1>9. tally.unheard \in Nat /\ tally.broken \in Nat /\ tally \in Tallies
    BY DEF TypeOK, Tallies
  <1>10. /\ tally' \in Tallies /\ tally'.broken = tally.broken + 1
         /\ tally'.arrivals = tally.arrivals /\ tally'.gaps = tally.gaps
         /\ tally'.refused = tally.refused /\ tally'.failed = tally.failed
         /\ tally'.deaths = tally.deaths /\ tally'.lost = tally.lost
    <2>1. tally.broken + 1 \in Nat /\ tally.unheard + more \in Nat
      BY <1>3, <1>9
    <2>2. \A m \in Nat, n \in Nat :
             [tally EXCEPT !.broken = m, !.unheard = n] \in Tallies
      BY <1>9 DEF Tallies
    <2> QED
      BY <1>2, <1>9, <2>1, <2>2 DEF Tallies
  <1> QED
    BY <1>1, <1>8, <1>10 DEF InlineFails

LEMMA DeliverFailsEffect ==
    ASSUME TypeOK, NEW r \in Rows, DeliverFails(r)
    PROVE  /\ TallySame /\ RowFrame(r) /\ Doubts(r)
           /\ row[r].task = "posting" /\ row'[r].task \in {"queued", "over"}
           /\ row[r].dropped => row'[r].dropped
           /\ row'[r].task = "over" => row'[r].dropped
           /\ UNCHANGED <<kind, done, lock, handler>>
  <1> DEFINE after(more) ==
               [row[r] EXCEPT
                  !.copies = row[r].copies + more,
                  !.doubts = row[r].doubts + more,
                  !.task = IF row[r].tries < MaxTries THEN "queued" ELSE "over",
                  !.tries = IF row[r].tries < MaxTries THEN row[r].tries + 1 ELSE row[r].tries,
                  !.dropped = row[r].dropped \/ row[r].tries = MaxTries]
  <1>1. PICK more \in Unheard(MaxAttempts) :
          /\ row' = [row EXCEPT
                      ![r].copies = @ + more,
                      ![r].doubts = @ + more,
                      ![r].task = IF row[r].tries < MaxTries THEN "queued" ELSE "over",
                      ![r].tries = IF @ < MaxTries THEN @ + 1 ELSE @,
                      ![r].dropped = @ \/ row[r].tries = MaxTries]
          /\ tally' = [tally EXCEPT !.unheard = @ + more]
    BY DEF DeliverFails
  <1>2. more \in Nat
    BY AttemptsAssumption DEF Unheard
  <1>3. row[r] \in RowStates /\ row \in [Rows -> RowStates]
        /\ row[r].copies \in Nat /\ row[r].doubts \in Nat
        /\ row[r].tries \in 0..MaxTries /\ row[r].dropped \in BOOLEAN
    BY DEF TypeOK, RowStates
  <1>4. after(more) \in RowStates
    <2>1. row[r].copies + more \in Nat /\ row[r].doubts + more \in Nat
      BY <1>2, <1>3
    <2>2. (IF row[r].tries < MaxTries THEN row[r].tries + 1 ELSE row[r].tries) \in 0..MaxTries
      BY <1>3, BoundAssumption
    <2>3. (IF row[r].tries < MaxTries THEN "queued" ELSE "over") \in {"queued", "over"}
      OBVIOUS
    <2>4. (row[r].dropped \/ row[r].tries = MaxTries) \in BOOLEAN
      OBVIOUS
    <2> QED
      BY <1>3, <2>1, <2>2, <2>3, <2>4, RowFailed
  <1>5. row'[r] = after(more)
    BY <1>1, <1>3 DEF RowStates
  <1>6. row' \in [Rows -> RowStates] /\ \A q \in Rows \ {r} : row'[q] = row[q]
    <2>1. \A q \in Rows \ {r} : row'[q] = row[q]
      BY <1>1, <1>3
    <2>2. row' = [q \in Rows |-> row'[q]]
      BY <1>1, <1>3
    <2>3. \A q \in Rows : row'[q] \in RowStates
      BY <1>3, <1>4, <1>5, <2>1
    <2> QED
      BY <2>1, <2>2, <2>3
  <1>7. /\ row'[r].copies = row[r].copies + more /\ row'[r].doubts = row[r].doubts + more
        /\ row'[r].task = IF row[r].tries < MaxTries THEN "queued" ELSE "over"
        /\ row'[r].dropped = (row[r].dropped \/ row[r].tries = MaxTries)
        /\ row'[r].stored = row[r].stored /\ row'[r].taken = row[r].taken
        /\ row'[r].told = row[r].told /\ row'[r].numbered = row[r].numbered
        /\ row'[r].inline = row[r].inline
    BY <1>3, <1>5 DEF RowStates
  <1>8. RowFrame(r) /\ Doubts(r)
    BY <1>2, <1>3, <1>6, <1>7 DEF RowFrame, Doubts
  <1>9. /\ row'[r].task \in {"queued", "over"}
        /\ row[r].dropped => row'[r].dropped
        /\ row'[r].task = "over" => row'[r].dropped
    <2>1. CASE row[r].tries < MaxTries
      BY <1>7, <2>1
    <2>2. CASE ~(row[r].tries < MaxTries)
      <3>1. row[r].tries = MaxTries
        BY <1>3, <2>2, BoundAssumption
      <3> QED
        BY <1>7, <2>2, <3>1
    <2> QED
      BY <2>1, <2>2
  <1> QED
    BY <1>1, <1>2, <1>8, <1>9, UnheardEffect DEF DeliverFails

-----------------------------------------------------------------------------
(* Types                                                                   *)

\* A task is tried again only while retries are left.
RetryInv ==
    \A h \in Handlers :
        handler[h].pc = "retrying" => handler[h].retries < MaxRetries

LEMMA TypedStep ==
    ASSUME TypeOK, RetryInv, [Next]_vars
    PROVE  TypeOK' /\ RetryInv'
  <1>1. ASSUME NEW h \in Handlers, Arrives(h) PROVE TypeOK' /\ RetryInv'
    <2>1. /\ handler' \in [Handlers -> HandlerStates] /\ handler'[h].pc \in {"accepted", "queued"}
          /\ \A g \in Handlers \ {h} : handler'[g] = handler[g]
      BY <1>1, FreshTypes DEF Arrives, TypeOK
    <2> QED
      BY <1>1, <2>1, CountsEffect DEF Arrives, TypeOK, RetryInv, Unmarked
  <1>2. ASSUME NEW h \in Handlers, Enqueues(h) PROVE TypeOK' /\ RetryInv'
    <2>1. /\ handler' \in [Handlers -> HandlerStates] /\ handler'[h].pc \in {"accepted", "queued"}
          /\ \A g \in Handlers \ {h} : handler'[g] = handler[g]
      BY <1>2, FreshTypes DEF Enqueues, TypeOK
    <2> QED
      BY <1>2, <2>1 DEF Enqueues, TypeOK, RetryInv, Unmarked
  <1>3. ASSUME NEW h \in Handlers, FallsBack(h) PROVE TypeOK' /\ RetryInv'
    BY <1>3, MovesEffect DEF FallsBack, TypeOK, RetryInv, Handling, Unmarked, Underway
  <1>4. ASSUME NEW h \in Handlers, SkipsDone(h) PROVE TypeOK' /\ RetryInv'
    BY <1>4, LeavesEffect DEF SkipsDone, TypeOK, RetryInv, Handling, Unmarked, Underway
  <1>5. ASSUME NEW h \in Handlers, Checks(h) PROVE TypeOK' /\ RetryInv'
    BY <1>5, MovesEffect DEF Checks, TypeOK, RetryInv, Handling, Unmarked, Underway
  <1>6. ASSUME NEW h \in Handlers, SkipsLocked(h) PROVE TypeOK' /\ RetryInv'
    BY <1>6, LeavesEffect DEF SkipsLocked, TypeOK, RetryInv, Handling, Unmarked, Underway
  <1>7. ASSUME NEW h \in Handlers, Locks(h) PROVE TypeOK' /\ RetryInv'
    <2>1. tally' \in Tallies
      BY <1>7 DEF Locks, TypeOK, Tallies
    <2> QED
      BY <1>7, <2>1, MovesEffect DEF Locks, TypeOK, RetryInv, Unmarked, Handling
  <1>8. ASSUME NEW h \in Handlers, MarksDone(h) PROVE TypeOK' /\ RetryInv'
    BY <1>8, MovesEffect DEF MarksDone, TypeOK, RetryInv, Handling, Unmarked, Underway
  <1>9. ASSUME NEW h \in Handlers, Unlocks(h) PROVE TypeOK' /\ RetryInv'
    BY <1>9, LeavesEffect DEF Unlocks, TypeOK, RetryInv, Handling, Unmarked, Underway
  <1>10. ASSUME NEW h \in Handlers, UnlocksToRetry(h) PROVE TypeOK' /\ RetryInv'
    <2>0. handler[h].retries + 1 \in 0..MaxRetries
      BY <1>10, BoundAssumption DEF UnlocksToRetry, TypeOK, HandlerStates, RetryInv
    <2>1. /\ handler' \in [Handlers -> HandlerStates] /\ handler'[h].pc = "queued"
          /\ \A g \in Handlers \ {h} : handler'[g] = handler[g]
      BY <1>10, <2>0, SlotTypes DEF UnlocksToRetry, TypeOK
    <2> QED
      BY <1>10, <2>1 DEF UnlocksToRetry, TypeOK, RetryInv, Unmarked
  <1>11. ASSUME NEW h \in Handlers, UnlocksToFail(h) PROVE TypeOK' /\ RetryInv'
    <2>1. tally' \in Tallies
      BY <1>11, CountsEffect DEF UnlocksToFail
    <2> QED
      BY <1>11, <2>1, LeavesEffect DEF UnlocksToFail, TypeOK, RetryInv, Unmarked
  <1>12. ASSUME NEW h \in Handlers, Refuses(h) PROVE TypeOK' /\ RetryInv'
    BY <1>12, MovesEffect, CountsEffect
       DEF Refuses, TypeOK, RetryInv, Handling, Unmarked, Underway
  <1>13. ASSUME NEW h \in Handlers, FileFails(h) PROVE TypeOK' /\ RetryInv'
    <2>1. /\ Moves(h, "retrying") \/ Moves(h, "failing")
          /\ Moves(h, "retrying") => handler[h].retries < MaxRetries
      BY <1>13 DEF FileFails, Moves, TypeOK, HandlerStates
    <2> QED
      BY <1>13, <2>1, MovesEffect DEF FileFails, TypeOK, RetryInv, Unmarked, Handling
  <1>14. ASSUME NEW h \in Handlers, StoreFails(h) PROVE TypeOK' /\ RetryInv'
    BY <1>14, MovesEffect DEF StoreFails, TypeOK, RetryInv, Handling, Unmarked, Underway
  <1>15. ASSUME NEW h \in Handlers, FindsRow(h) PROVE TypeOK' /\ RetryInv'
    BY <1>15, MovesEffect DEF FindsRow, TypeOK, RetryInv, Handling, Unmarked, Underway
  <1>16. ASSUME NEW h \in Handlers, Takes(h) PROVE TypeOK' /\ RetryInv'
    <2>1. Moves(h, "taken") \/ Moves(h, "finished")
      BY <1>16 DEF Takes
    <2>2. row' \in [Rows -> RowStates] /\ handler[h].row # NoRow
      BY <1>16, RowOf, BooleanNote DEF Takes, Unmarked
    <2> QED
      BY <1>16, <2>1, <2>2, MovesEffect DEF Takes, TypeOK, RetryInv, Unmarked, Handling
  <1>17. ASSUME NEW h \in Handlers, TakeFails(h) PROVE TypeOK' /\ RetryInv'
    BY <1>17, MovesEffect, CountsEffect
       DEF TakeFails, TypeOK, RetryInv, Handling, Unmarked, Underway
  <1>18. ASSUME NEW h \in Handlers, Delivers(h) PROVE TypeOK' /\ RetryInv'
    <2>1. row' \in [Rows -> RowStates] /\ handler[h].row # NoRow
      BY <1>18, RowOf, TaskNote DEF Delivers, Unmarked, Underway
    <2> QED
      BY <1>18, <2>1, MovesEffect, CountsEffect
         DEF Delivers, TypeOK, RetryInv, Unmarked, Handling
  <1>19. ASSUME NEW h \in Handlers, DeliversInline(h) PROVE TypeOK' /\ RetryInv'
    <2>1. row' \in [Rows -> RowStates] /\ handler[h].row # NoRow
      BY <1>19, RowOf, BooleanNote DEF DeliversInline, Unmarked, Underway
    <2> QED
      BY <1>19, <2>1, MovesEffect, CountsEffect
         DEF DeliversInline, TypeOK, RetryInv, Unmarked, Handling
  <1>20. ASSUME NEW h \in Handlers, DeliversTwice(h) PROVE TypeOK' /\ RetryInv'
    <2>1. handler[h].row \in Rows /\ handler[h].row # NoRow
      BY <1>20, RowOf DEF DeliversTwice, Unmarked
    <2>2. [row[handler[h].row] EXCEPT !.inline = TRUE, !.task = "queued"] \in RowStates
      <3>1. row[handler[h].row] \in RowStates
        BY <2>1 DEF TypeOK
      <3> QED
        BY <3>1 DEF RowStates, Underway
    <2>3. row' \in [Rows -> RowStates]
      BY <1>20, <2>1, <2>2 DEF DeliversTwice, TypeOK
    <2> QED
      BY <1>20, <2>1, <2>3, MovesEffect, CountsEffect
         DEF DeliversTwice, TypeOK, RetryInv, Unmarked, Handling
  <1>21. ASSUME NEW h \in Handlers, Tells(h) PROVE TypeOK' /\ RetryInv'
    <2>1. row' \in [Rows -> RowStates] /\ handler[h].row # NoRow
      BY <1>21, RowOf, BooleanNote DEF Tells, Unmarked, Underway
    <2> QED
      BY <1>21, <2>1, MovesEffect, CountsEffect
         DEF Tells, TypeOK, RetryInv, Unmarked, Handling
  <1>22. ASSUME NEW h \in Handlers, InlineSkips(h) PROVE TypeOK' /\ RetryInv'
    BY <1>22, MovesEffect DEF InlineSkips, TypeOK, RetryInv, Handling, Unmarked, Underway
  <1>23. ASSUME NEW h \in Handlers, InlineReads(h) PROVE TypeOK' /\ RetryInv'
    BY <1>23, MovesEffect DEF InlineReads, TypeOK, RetryInv, Handling, Unmarked, Underway
  <1>24. ASSUME NEW h \in Handlers, InlineUnconfigured(h) PROVE TypeOK' /\ RetryInv'
    <2>1. row' \in [Rows -> RowStates] /\ handler[h].row # NoRow
      BY <1>24, RowOf, BooleanNote DEF InlineUnconfigured, Unmarked, Underway
    <2> QED
      BY <1>24, <2>1, MovesEffect, CountsEffect
         DEF InlineUnconfigured, TypeOK, RetryInv, Unmarked, Handling
  <1>25. ASSUME NEW h \in Handlers, InlinePosts(h) PROVE TypeOK' /\ RetryInv'
    <2>1. handler[h].row \in Rows /\ handler[h].row # NoRow
      BY <1>25, RowOf, InlinePostsEffect
         DEF Unmarked, RowFrame, TallySame, Shows, Doubts
    <2>2. row' \in [Rows -> RowStates]
      BY <1>25, InlinePostsEffect DEF RowFrame
    <2>3. tally' \in Tallies
      BY <1>25, InlinePostsEffect DEF TallySame
    <2> QED
      BY <1>25, <2>1, <2>2, <2>3, MovesEffect, InlinePostsEffect
         DEF TypeOK, RetryInv, Unmarked, Handling, RowFrame, TallySame, Shows, Doubts
  <1>26. ASSUME NEW h \in Handlers, InlineNumbers(h) PROVE TypeOK' /\ RetryInv'
    <2>1. handler[h].row \in Rows /\ handler[h].row # NoRow
      BY <1>26, RowOf DEF InlineNumbers, Unmarked
    <2>2. row' \in [Rows -> RowStates]
      BY <1>26, <2>1 DEF InlineNumbers, Notes, TypeOK, RowStates, Underway
    <2> QED
      BY <1>26, <2>1, <2>2, MovesEffect, CountsEffect
         DEF InlineNumbers, TypeOK, RetryInv, Unmarked, Handling
  <1>27. ASSUME NEW h \in Handlers, InlineFails(h) PROVE TypeOK' /\ RetryInv'
    <2>1. handler[h].row \in Rows /\ handler[h].row # NoRow
      BY <1>27, RowOf, InlineFailsEffect
         DEF Unmarked, RowFrame, TallySame, Shows, Doubts
    <2>2. row' \in [Rows -> RowStates]
      BY <1>27, InlineFailsEffect DEF RowFrame
    <2>3. tally' \in Tallies
      BY <1>27, InlineFailsEffect
    <2> QED
      BY <1>27, <2>1, <2>2, <2>3, MovesEffect, InlineFailsEffect
         DEF TypeOK, RetryInv, Unmarked, Handling, RowFrame, TallySame, Shows, Doubts
  <1>28. ASSUME NEW h \in Handlers, NEW g \in Handlers, FallsBackBeside(h, g) PROVE TypeOK' /\ RetryInv'
    <2>1. g # h
      BY <1>28 DEF FallsBackBeside
    <2>2. /\ handler' \in [Handlers -> HandlerStates]
          /\ handler'[h].pc = "queued" /\ handler'[g].pc = "queued"
          /\ \A f \in Handlers \ {h, g} : handler'[f] = handler[f]
      BY <1>28, <2>1, FreshTypes DEF FallsBackBeside, TypeOK
    <2> QED
      BY <1>28, <2>2, CountsEffect DEF FallsBackBeside, TypeOK, RetryInv, Unmarked
  <1>29. ASSUME NEW h \in Handlers, NEW r \in Rows, Stores(h, r) PROVE TypeOK' /\ RetryInv'
    <2>1. /\ handler' \in [Handlers -> HandlerStates] /\ handler'[h].pc = "stored" /\ handler'[h].row = r
          /\ \A g \in Handlers \ {h} : handler'[g] = handler[g]
      BY <1>29 DEF Stores, TypeOK, HandlerStates, Handling, Unmarked
    <2> QED
      BY <1>29, <2>1, BooleanNote, RowKeys DEF Stores, TypeOK, RetryInv
  <1>30. ASSUME NEW h \in Handlers, HandlerDies(h) PROVE TypeOK' /\ RetryInv'
    <2>1. \A t \in Tallies, m \in Nat, n \in Nat :
            [t EXCEPT !.deaths = m, !.broken = n] \in Tallies
      BY DEF Tallies
    <2>2. tally \in Tallies /\ tally.deaths + 1 \in Nat
          /\ (IF LeavesRow(h) THEN tally.broken + 1 ELSE tally.broken) \in Nat
      BY DEF TypeOK, Tallies
    <2> QED
      BY <1>30, <2>1, <2>2, LeavesEffect DEF HandlerDies, TypeOK, RetryInv, Unmarked
  <1>31. ASSUME NEW h \in Handlers, UpdateLost(h) PROVE TypeOK' /\ RetryInv'
    BY <1>31, LeavesEffect, CountsEffect
       DEF UpdateLost, TypeOK, RetryInv, Handling, Unmarked, Underway
  <1>32. ASSUME NEW r \in Rows,
                \/ DeliverSkips(r) \/ DeliverReads(r)
         PROVE  TypeOK' /\ RetryInv'
    BY <1>32, TaskNote DEF DeliverSkips, DeliverReads, TypeOK, RetryInv, Underway
  <1>33. ASSUME NEW r \in Rows, DeliverUnconfigured(r) PROVE TypeOK' /\ RetryInv'
    <2>1. [row[r] EXCEPT !.task = "over", !.dropped = TRUE] \in RowStates
      BY DEF TypeOK, RowStates
    <2>2. row' \in [Rows -> RowStates]
      BY <1>33, <2>1 DEF DeliverUnconfigured, TypeOK
    <2> QED
      BY <1>33, <2>2 DEF DeliverUnconfigured, TypeOK, RetryInv
  <1>34. ASSUME NEW r \in Rows,
                \/ DeliverPosts(r) \/ DeliverFails(r)
         PROVE  TypeOK' /\ RetryInv'
    <2>1. row' \in [Rows -> RowStates]
      BY <1>34, DeliverPostsEffect, DeliverFailsEffect DEF RowFrame
    <2>2. tally' \in Tallies /\ UNCHANGED <<kind, done, lock, handler>>
      BY <1>34, DeliverPostsEffect, DeliverFailsEffect DEF TallySame
    <2> QED
      BY <1>34, <2>1, <2>2 DEF TypeOK, RetryInv
  <1>35. ASSUME NEW r \in Rows, DeliverNumbers(r) PROVE TypeOK' /\ RetryInv'
    <2>1. \A b \in BOOLEAN : [row[r] EXCEPT !.task = "over", !.numbered = row[r].numbered \/ b] \in RowStates
      BY DEF TypeOK, RowStates
    <2>2. row' \in [Rows -> RowStates]
      BY <1>35, <2>1 DEF DeliverNumbers, TypeOK
    <2> QED
      BY <1>35, <2>2 DEF DeliverNumbers, TypeOK, RetryInv
  <1>36. ASSUME NEW r \in Rows,
                \/ DeliverDies(r) \/ DeliverLost(r)
         PROVE  TypeOK' /\ RetryInv'
    BY <1>36, TaskNote, CountsEffect
       DEF DeliverDies, DeliverLost, TypeOK, RetryInv, Underway
  <1>37. ASSUME LockExpires PROVE TypeOK' /\ RetryInv'
    BY <1>37 DEF LockExpires, TypeOK, RetryInv, Handling, Unmarked, Underway
  <1>38. ASSUME UNCHANGED vars PROVE TypeOK' /\ RetryInv'
    BY <1>38 DEF vars, TypeOK, RetryInv, Handling, Unmarked, Underway
  <1> QED
    BY <1>1, <1>2, <1>3, <1>4, <1>5, <1>6, <1>7, <1>8, <1>9, <1>10, <1>11,
       <1>12, <1>13, <1>14, <1>15, <1>16, <1>17, <1>18, <1>19, <1>20, <1>21,
       <1>22, <1>23, <1>24, <1>25, <1>26, <1>27, <1>28, <1>29, <1>30, <1>31,
       <1>32, <1>33, <1>34, <1>35, <1>36, <1>37, <1>38
       DEF Next, Handle, Deliver, Failure

-----------------------------------------------------------------------------
(* The lock                                                                *)

\* Who is between cache.add and cache.delete holds the lock, alone.
LockInv ==
    /\ \A h \in Handlers : handler[h].pc \in Handling => lock
    /\ \A g, h \in Handlers : handler[g].pc \in Handling /\ handler[h].pc \in Handling => g = h

LEMMA LockStep ==
    ASSUME TypeOK, LockInv, [Next]_vars
    PROVE  LockInv'
  <1>1. ASSUME NEW h \in Handlers, Arrives(h) PROVE LockInv'
    <2>1. /\ handler'[h].pc \in {"accepted", "queued"} /\ lock' = lock
          /\ \A g \in Handlers \ {h} : handler'[g] = handler[g]
      BY <1>1 DEF Arrives, TypeOK, Slot
    <2> QED
      BY <2>1 DEF LockInv, Handling
  <1>2. ASSUME NEW h \in Handlers, Enqueues(h) PROVE LockInv'
    <2>1. /\ handler'[h].pc \in {"accepted", "queued"} /\ lock' = lock
          /\ \A g \in Handlers \ {h} : handler'[g] = handler[g]
      BY <1>2 DEF Enqueues, TypeOK, Slot
    <2> QED
      BY <2>1 DEF LockInv, Handling
  <1>3. ASSUME NEW h \in Handlers, FallsBack(h) PROVE LockInv'
    BY <1>3, MovesEffect DEF FallsBack, LockInv, Handling
  <1>4. ASSUME NEW h \in Handlers, SkipsDone(h) PROVE LockInv'
    BY <1>4, LeavesEffect DEF SkipsDone, LockInv, Handling
  <1>5. ASSUME NEW h \in Handlers, Checks(h) PROVE LockInv'
    BY <1>5, MovesEffect DEF Checks, LockInv, Handling
  <1>6. ASSUME NEW h \in Handlers, SkipsLocked(h) PROVE LockInv'
    BY <1>6, LeavesEffect DEF SkipsLocked, LockInv, Handling
  <1>7. ASSUME NEW h \in Handlers, Locks(h) PROVE LockInv'
    BY <1>7, MovesEffect DEF Locks, LockInv, Handling
  <1>8. ASSUME NEW h \in Handlers, MarksDone(h) PROVE LockInv'
    BY <1>8, MovesEffect DEF MarksDone, LockInv, Handling
  <1>9. ASSUME NEW h \in Handlers, Unlocks(h) PROVE LockInv'
    BY <1>9, LeavesEffect DEF Unlocks, LockInv, Handling
  <1>10. ASSUME NEW h \in Handlers, UnlocksToRetry(h) PROVE LockInv'
    <2>1. handler'[h].pc \in {"accepted", "queued"}
          /\ \A g \in Handlers \ {h} : handler'[g] = handler[g]
      BY <1>10 DEF UnlocksToRetry, TypeOK, Slot
    <2> QED
      BY <1>10, <2>1 DEF UnlocksToRetry, LockInv, Handling
  <1>11. ASSUME NEW h \in Handlers, UnlocksToFail(h) PROVE LockInv'
    BY <1>11, LeavesEffect, CountsEffect DEF UnlocksToFail, LockInv, Handling
  <1>12. ASSUME NEW h \in Handlers, Refuses(h) PROVE LockInv'
    BY <1>12, MovesEffect, CountsEffect DEF Refuses, LockInv, Handling
  <1>13. ASSUME NEW h \in Handlers, FileFails(h) PROVE LockInv'
    BY <1>13, MovesEffect DEF FileFails, LockInv, Handling
  <1>14. ASSUME NEW h \in Handlers, StoreFails(h) PROVE LockInv'
    BY <1>14, MovesEffect DEF StoreFails, LockInv, Handling
  <1>15. ASSUME NEW h \in Handlers, FindsRow(h) PROVE LockInv'
    BY <1>15, MovesEffect DEF FindsRow, LockInv, Handling
  <1>16. ASSUME NEW h \in Handlers, Takes(h) PROVE LockInv'
    BY <1>16, MovesEffect DEF Takes, LockInv, Handling
  <1>17. ASSUME NEW h \in Handlers, TakeFails(h) PROVE LockInv'
    BY <1>17, MovesEffect, CountsEffect DEF TakeFails, LockInv, Handling
  <1>18. ASSUME NEW h \in Handlers, Delivers(h) PROVE LockInv'
    BY <1>18, MovesEffect DEF Delivers, LockInv, Handling
  <1>19. ASSUME NEW h \in Handlers, DeliversInline(h) PROVE LockInv'
    BY <1>19, MovesEffect DEF DeliversInline, LockInv, Handling
  <1>20. ASSUME NEW h \in Handlers, DeliversTwice(h) PROVE LockInv'
    BY <1>20, MovesEffect, CountsEffect DEF DeliversTwice, LockInv, Handling
  <1>21. ASSUME NEW h \in Handlers, Tells(h) PROVE LockInv'
    BY <1>21, MovesEffect DEF Tells, LockInv, Handling
  <1>22. ASSUME NEW h \in Handlers, InlineSkips(h) PROVE LockInv'
    BY <1>22, MovesEffect DEF InlineSkips, LockInv, Handling
  <1>23. ASSUME NEW h \in Handlers, InlineReads(h) PROVE LockInv'
    BY <1>23, MovesEffect DEF InlineReads, LockInv, Handling
  <1>24. ASSUME NEW h \in Handlers, InlineUnconfigured(h) PROVE LockInv'
    BY <1>24, MovesEffect DEF InlineUnconfigured, LockInv, Handling
  <1>25. ASSUME NEW h \in Handlers, InlinePosts(h) PROVE LockInv'
    BY <1>25, MovesEffect, InlinePostsEffect
       DEF LockInv, Handling, RowFrame, TallySame, Shows, Doubts
  <1>26. ASSUME NEW h \in Handlers, InlineNumbers(h) PROVE LockInv'
    BY <1>26, MovesEffect DEF InlineNumbers, LockInv, Handling
  <1>27. ASSUME NEW h \in Handlers, InlineFails(h) PROVE LockInv'
    BY <1>27, MovesEffect, CountsEffect, InlineFailsEffect
       DEF LockInv, Handling, RowFrame, TallySame, Shows, Doubts
  <1>28. ASSUME NEW h \in Handlers, NEW g \in Handlers, FallsBackBeside(h, g) PROVE LockInv'
    <2>1. handler'[h].pc = "queued" /\ handler'[g].pc = "queued"
          /\ \A f \in Handlers \ {h, g} : handler'[f] = handler[f]
      BY <1>28, FreshTypes DEF FallsBackBeside, TypeOK
    <2> QED
      BY <1>28, <2>1 DEF FallsBackBeside, LockInv, Handling
  <1>29. ASSUME NEW h \in Handlers, NEW r \in Rows, Stores(h, r) PROVE LockInv'
    <2>1. handler'[h].pc = "stored" /\ handler[h].pc = "handling" /\ lock' = lock
          /\ \A g \in Handlers \ {h} : handler'[g] = handler[g]
      BY <1>29 DEF Stores, TypeOK, HandlerStates
    <2> QED
      BY <2>1 DEF LockInv, Handling
  <1>30. ASSUME NEW h \in Handlers, HandlerDies(h) PROVE LockInv'
    BY <1>30, LeavesEffect DEF HandlerDies, LockInv, Handling
  <1>31. ASSUME NEW h \in Handlers, UpdateLost(h) PROVE LockInv'
    BY <1>31, LeavesEffect, CountsEffect DEF UpdateLost, LockInv, Handling
  <1>32. ASSUME NEW r \in Rows,
                \/ DeliverSkips(r) \/ DeliverReads(r)
                \/ DeliverUnconfigured(r) \/ DeliverPosts(r)
                \/ DeliverNumbers(r) \/ DeliverFails(r) \/ DeliverDies(r)
                \/ DeliverLost(r)
         PROVE  LockInv'
    BY <1>32, DeliverPostsEffect, DeliverFailsEffect
       DEF TallySame, DeliverSkips, DeliverReads, DeliverUnconfigured, DeliverNumbers,
           DeliverDies, DeliverLost, LockInv, RowFrame, Shows, Doubts
  <1>33. ASSUME LockExpires PROVE LockInv'
    BY <1>33 DEF LockExpires, LockInv, Handling
  <1>34. ASSUME UNCHANGED vars PROVE LockInv'
    BY <1>34 DEF vars, LockInv, Handling
  <1> QED
    BY <1>1, <1>2, <1>3, <1>4, <1>5, <1>6, <1>7, <1>8, <1>9, <1>10, <1>11,
       <1>12, <1>13, <1>14, <1>15, <1>16, <1>17, <1>18, <1>19, <1>20, <1>21,
       <1>22, <1>23, <1>24, <1>25, <1>26, <1>27, <1>28, <1>29, <1>30, <1>31,
       <1>32, <1>33, <1>34
       DEF Next, Handle, Deliver, Failure

-----------------------------------------------------------------------------
(* The rows of the update                                                  *)

\* A handler is about to store a row ...
InHand == \E h \in Handlers : handler[h].pc = "handling"

\* ... or the next handler to take the lock would.
Open == ~done /\ \A h \in Handlers : handler[h].pc \in Unmarked => handler[h].row = NoRow

\* Each row of a reply but the first is owed to a gap or to a broken handler.
CountInv ==
    /\ kind = "message" => Cardinality(Stored) <= 1
    /\ kind = "reply" =>
         /\ Cardinality(Stored) <= 1 + tally.gaps + tally.broken
         /\ InHand => Cardinality(Stored) <= tally.gaps + tally.broken
         /\ Open => Cardinality(Stored) <= tally.gaps + tally.broken

LEMMA StoredFinite == IsFiniteSet(Stored) /\ Cardinality(Stored) \in Nat
  <1>1. IsFiniteSet(Rows)
    BY FS_Interval, BoundAssumption DEF Rows
  <1> QED
    BY <1>1, FS_Subset, FS_CardinalityType DEF Stored

LEMMA NotesEffect ==
    ASSUME TypeOK, NEW r \in Rows,
           NEW field \in {"taken", "told", "numbered", "task", "inline", "dropped", "copies"},
           NEW value, Notes(r, field, value)
    PROVE  Stored' = Stored
  BY DEF TypeOK, RowStates, Notes, Stored

LEMMA CountKept ==
    ASSUME CountInv, kind' = kind, Stored' = Stored, tally'.gaps = tally.gaps,
           tally'.broken = tally.broken, InHand' => InHand, Open' => Open
    PROVE  CountInv'
  BY DEF CountInv

LEMMA CountStep ==
    ASSUME TypeOK, LockInv, CountInv, [Next]_vars
    PROVE  CountInv'
  <1>1. ASSUME NEW h \in Handlers, Arrives(h) PROVE CountInv'
    <2>1. /\ handler[h].pc \in {"free", "accepted", "retrying"}
          /\ handler'[h].pc \in {"accepted", "queued"}
          /\ \A g \in Handlers \ {h} : handler'[g] = handler[g]
      BY <1>1 DEF Arrives, TypeOK, Slot
    <2>2. /\ UNCHANGED <<kind, done, Stored>>
          /\ tally'.gaps = tally.gaps /\ tally'.broken = tally.broken
      BY <1>1, CountsEffect DEF Arrives, Stored
    <2>3. (InHand' => InHand) /\ (Open' => Open)
      BY <2>1, <2>2 DEF InHand, Open, Unmarked
    <2> QED
      BY <2>2, <2>3, CountKept
  <1>2. ASSUME NEW h \in Handlers, Enqueues(h) PROVE CountInv'
    <2>1. /\ handler[h].pc \in {"free", "accepted", "retrying"}
          /\ handler'[h].pc \in {"accepted", "queued"}
          /\ \A g \in Handlers \ {h} : handler'[g] = handler[g]
      BY <1>2 DEF Enqueues, TypeOK, Slot
    <2>2. /\ UNCHANGED <<kind, done, Stored>>
          /\ tally'.gaps = tally.gaps /\ tally'.broken = tally.broken
      BY <1>2 DEF Enqueues, Stored
    <2>3. (InHand' => InHand) /\ (Open' => Open)
      BY <2>1, <2>2 DEF InHand, Open, Unmarked
    <2> QED
      BY <2>2, <2>3, CountKept
  <1>3. ASSUME NEW h \in Handlers, FallsBack(h) PROVE CountInv'
    <2>1. /\ UNCHANGED <<kind, done, Stored>>
          /\ tally'.gaps = tally.gaps /\ tally'.broken = tally.broken
      BY <1>3 DEF FallsBack, Stored
    <2>2. InHand' => InHand
      BY <1>3, MovesEffect DEF FallsBack, InHand, Handling
    <2>3. Open' => Open
      BY <1>3, <2>1, MovesEffect DEF FallsBack, Open, Unmarked, LockInv, Handling
    <2> QED
      BY <2>1, <2>2, <2>3, CountKept
  <1>4. ASSUME NEW h \in Handlers, SkipsDone(h) PROVE CountInv'
    <2>1. /\ UNCHANGED <<kind, done, Stored>>
          /\ tally'.gaps = tally.gaps /\ tally'.broken = tally.broken
      BY <1>4 DEF SkipsDone, Stored
    <2>2. InHand' => InHand
      BY <1>4, LeavesEffect DEF SkipsDone, InHand, Handling
    <2>3. Open' => Open
      BY <1>4, <2>1, LeavesEffect DEF SkipsDone, Open, Unmarked, LockInv, Handling
    <2> QED
      BY <2>1, <2>2, <2>3, CountKept
  <1>5. ASSUME NEW h \in Handlers, Checks(h) PROVE CountInv'
    <2>1. /\ UNCHANGED <<kind, done, Stored>>
          /\ tally'.gaps = tally.gaps /\ tally'.broken = tally.broken
      BY <1>5 DEF Checks, Stored
    <2>2. InHand' => InHand
      BY <1>5, MovesEffect DEF Checks, InHand, Handling
    <2>3. Open' => Open
      BY <1>5, <2>1, MovesEffect DEF Checks, Open, Unmarked, LockInv, Handling
    <2> QED
      BY <2>1, <2>2, <2>3, CountKept
  <1>6. ASSUME NEW h \in Handlers, SkipsLocked(h) PROVE CountInv'
    <2>1. /\ UNCHANGED <<kind, done, Stored>>
          /\ tally'.gaps = tally.gaps /\ tally'.broken = tally.broken
      BY <1>6 DEF SkipsLocked, Stored
    <2>2. InHand' => InHand
      BY <1>6, LeavesEffect DEF SkipsLocked, InHand, Handling
    <2>3. Open' => Open
      BY <1>6, <2>1, LeavesEffect DEF SkipsLocked, Open, Unmarked, LockInv, Handling
    <2> QED
      BY <2>1, <2>2, <2>3, CountKept
  <1>7. ASSUME NEW h \in Handlers, Locks(h) PROVE CountInv'
    <2>1. UNCHANGED <<kind, done, Stored>> /\ tally'.broken = tally.broken
          /\ tally'.gaps = IF done THEN tally.gaps + 1 ELSE tally.gaps
      BY <1>7 DEF Locks, Stored, TypeOK, Tallies
    <2>2. ~done => Open
      BY <1>7 DEF Locks, Open, LockInv, Handling, Unmarked
    <2>3. Open' => ~done
      BY <2>1 DEF Open
    <2> QED
      BY <2>1, <2>2, <2>3, StoredFinite DEF CountInv, TypeOK, Tallies
  <1>8. ASSUME NEW h \in Handlers, MarksDone(h) PROVE CountInv'
    <2>1. UNCHANGED <<kind, Stored, tally>> /\ done'
      BY <1>8 DEF MarksDone, Stored
    <2>2. (InHand' => InHand) /\ ~Open'
      BY <1>8, <2>1, MovesEffect DEF MarksDone, InHand, Open, Handling
    <2> QED
      BY <2>1, <2>2, CountKept
  <1>9. ASSUME NEW h \in Handlers, Unlocks(h) PROVE CountInv'
    <2>1. /\ UNCHANGED <<kind, done, Stored>>
          /\ tally'.gaps = tally.gaps /\ tally'.broken = tally.broken
      BY <1>9 DEF Unlocks, Stored
    <2>2. InHand' => InHand
      BY <1>9, LeavesEffect DEF Unlocks, InHand, Handling
    <2>3. Open' => Open
      BY <1>9, <2>1, LeavesEffect DEF Unlocks, Open, Unmarked, LockInv, Handling
    <2> QED
      BY <2>1, <2>2, <2>3, CountKept
  <1>10. ASSUME NEW h \in Handlers, UnlocksToRetry(h) PROVE CountInv'
    <2>1. /\ handler[h].pc \in {"free", "accepted", "retrying"}
          /\ handler'[h].pc \in {"accepted", "queued"}
          /\ \A g \in Handlers \ {h} : handler'[g] = handler[g]
      BY <1>10 DEF UnlocksToRetry, TypeOK, Slot
    <2>2. /\ UNCHANGED <<kind, done, Stored>>
          /\ tally'.gaps = tally.gaps /\ tally'.broken = tally.broken
      BY <1>10 DEF UnlocksToRetry, Stored
    <2>3. (InHand' => InHand) /\ (Open' => Open)
      BY <2>1, <2>2 DEF InHand, Open, Unmarked
    <2> QED
      BY <2>2, <2>3, CountKept
  <1>11. ASSUME NEW h \in Handlers, UnlocksToFail(h) PROVE CountInv'
    <2>1. /\ UNCHANGED <<kind, done, Stored>>
          /\ tally'.gaps = tally.gaps /\ tally'.broken = tally.broken
      BY <1>11, CountsEffect DEF UnlocksToFail, Stored
    <2>2. InHand' => InHand
      BY <1>11, LeavesEffect DEF UnlocksToFail, InHand, Handling
    <2>3. Open' => Open
      BY <1>11, <2>1, LeavesEffect DEF UnlocksToFail, Open, Unmarked, LockInv, Handling
    <2> QED
      BY <2>1, <2>2, <2>3, CountKept
  <1>12. ASSUME NEW h \in Handlers, Refuses(h) PROVE CountInv'
    <2>1. /\ UNCHANGED <<kind, done, Stored>>
          /\ tally'.gaps = tally.gaps /\ tally'.broken = tally.broken
      BY <1>12, CountsEffect DEF Refuses, Stored
    <2>2. InHand' => InHand
      BY <1>12, MovesEffect DEF Refuses, InHand, Handling
    <2>3. Open' => Open
      BY <1>12, <2>1, MovesEffect DEF Refuses, Open, Unmarked, LockInv, Handling
    <2> QED
      BY <2>1, <2>2, <2>3, CountKept
  <1>13. ASSUME NEW h \in Handlers, FileFails(h) PROVE CountInv'
    <2>1. /\ UNCHANGED <<kind, done, Stored>>
          /\ tally'.gaps = tally.gaps /\ tally'.broken = tally.broken
      BY <1>13 DEF FileFails, Stored
    <2>2. InHand' => InHand
      BY <1>13, MovesEffect DEF FileFails, InHand, Handling
    <2>3. Open' => Open
      BY <1>13, <2>1, MovesEffect DEF FileFails, Open, Unmarked, LockInv, Handling
    <2> QED
      BY <2>1, <2>2, <2>3, CountKept
  <1>14. ASSUME NEW h \in Handlers, StoreFails(h) PROVE CountInv'
    <2>1. /\ UNCHANGED <<kind, done, Stored>>
          /\ tally'.gaps = tally.gaps /\ tally'.broken = tally.broken
      BY <1>14 DEF StoreFails, Stored
    <2>2. InHand' => InHand
      BY <1>14, MovesEffect DEF StoreFails, InHand, Handling
    <2>3. Open' => Open
      BY <1>14, <2>1, MovesEffect DEF StoreFails, Open, Unmarked, LockInv, Handling
    <2> QED
      BY <2>1, <2>2, <2>3, CountKept
  <1>15. ASSUME NEW h \in Handlers, FindsRow(h) PROVE CountInv'
    <2>1. /\ UNCHANGED <<kind, done, Stored>>
          /\ tally'.gaps = tally.gaps /\ tally'.broken = tally.broken
      BY <1>15 DEF FindsRow, Stored
    <2>2. InHand' => InHand
      BY <1>15, MovesEffect DEF FindsRow, InHand, Handling
    <2>3. Open' => Open
      BY <1>15, <2>1, MovesEffect DEF FindsRow, Open, Unmarked, LockInv, Handling
    <2> QED
      BY <2>1, <2>2, <2>3, CountKept
  <1>16. ASSUME NEW h \in Handlers, Takes(h) PROVE CountInv'
    <2>1. /\ UNCHANGED <<kind, done, Stored>>
          /\ tally'.gaps = tally.gaps /\ tally'.broken = tally.broken
      BY <1>16, RowOf, NotesEffect DEF Takes, Unmarked
    <2>2. InHand' => InHand
      BY <1>16, MovesEffect DEF Takes, InHand, Handling
    <2>3. Open' => Open
      BY <1>16, <2>1, MovesEffect DEF Takes, Open, Unmarked, LockInv, Handling
    <2> QED
      BY <2>1, <2>2, <2>3, CountKept
  <1>17. ASSUME NEW h \in Handlers, TakeFails(h) PROVE CountInv'
    <2>1. UNCHANGED <<kind, Stored>> /\ tally'.gaps = tally.gaps /\ tally'.broken = tally.broken + 1
      BY <1>17, CountsEffect DEF TakeFails, Stored, Unmarked, TypeOK, RowStates
    <2> QED
      BY <2>1, StoredFinite DEF CountInv, TypeOK, Tallies
  <1>18. ASSUME NEW h \in Handlers, Delivers(h) PROVE CountInv'
    <2>1. /\ UNCHANGED <<kind, done, Stored>>
          /\ tally'.gaps = tally.gaps /\ tally'.broken = tally.broken
      BY <1>18, RowOf, NotesEffect DEF Delivers, Unmarked
    <2>2. InHand' => InHand
      BY <1>18, MovesEffect DEF Delivers, InHand, Handling
    <2>3. Open' => Open
      BY <1>18, <2>1, MovesEffect DEF Delivers, Open, Unmarked, LockInv, Handling
    <2> QED
      BY <2>1, <2>2, <2>3, CountKept
  <1>19. ASSUME NEW h \in Handlers, DeliversInline(h) PROVE CountInv'
    <2>1. /\ UNCHANGED <<kind, done, Stored>>
          /\ tally'.gaps = tally.gaps /\ tally'.broken = tally.broken
      BY <1>19, RowOf, NotesEffect DEF DeliversInline, Unmarked
    <2>2. InHand' => InHand
      BY <1>19, MovesEffect DEF DeliversInline, InHand, Handling
    <2>3. Open' => Open
      BY <1>19, <2>1, MovesEffect DEF DeliversInline, Open, Unmarked, LockInv, Handling
    <2> QED
      BY <2>1, <2>2, <2>3, CountKept
  <1>20. ASSUME NEW h \in Handlers, DeliversTwice(h) PROVE CountInv'
    <2>1. /\ UNCHANGED <<kind, done, Stored>>
          /\ tally'.gaps = tally.gaps /\ tally'.broken = tally.broken
      BY <1>20, CountsEffect, RowOf DEF DeliversTwice, Stored, Unmarked, TypeOK, RowStates
    <2>2. InHand' => InHand
      BY <1>20, MovesEffect DEF DeliversTwice, InHand, Handling
    <2>3. Open' => Open
      BY <1>20, <2>1, MovesEffect DEF DeliversTwice, Open, Unmarked, LockInv, Handling
    <2> QED
      BY <2>1, <2>2, <2>3, CountKept
  <1>21. ASSUME NEW h \in Handlers, Tells(h) PROVE CountInv'
    <2>1. /\ UNCHANGED <<kind, done, Stored>>
          /\ tally'.gaps = tally.gaps /\ tally'.broken = tally.broken
      BY <1>21, RowOf, NotesEffect DEF Tells, Unmarked
    <2>2. InHand' => InHand
      BY <1>21, MovesEffect DEF Tells, InHand, Handling
    <2>3. Open' => Open
      BY <1>21, <2>1, MovesEffect DEF Tells, Open, Unmarked, LockInv, Handling
    <2> QED
      BY <2>1, <2>2, <2>3, CountKept
  <1>22. ASSUME NEW h \in Handlers, InlineSkips(h) PROVE CountInv'
    <2>1. /\ UNCHANGED <<kind, done, Stored>>
          /\ tally'.gaps = tally.gaps /\ tally'.broken = tally.broken
      BY <1>22 DEF InlineSkips, Stored
    <2>2. InHand' => InHand
      BY <1>22, MovesEffect DEF InlineSkips, InHand, Handling
    <2>3. Open' => Open
      BY <1>22, <2>1, MovesEffect DEF InlineSkips, Open, Unmarked, LockInv, Handling
    <2> QED
      BY <2>1, <2>2, <2>3, CountKept
  <1>23. ASSUME NEW h \in Handlers, InlineReads(h) PROVE CountInv'
    <2>1. /\ UNCHANGED <<kind, done, Stored>>
          /\ tally'.gaps = tally.gaps /\ tally'.broken = tally.broken
      BY <1>23 DEF InlineReads, Stored
    <2>2. InHand' => InHand
      BY <1>23, MovesEffect DEF InlineReads, InHand, Handling
    <2>3. Open' => Open
      BY <1>23, <2>1, MovesEffect DEF InlineReads, Open, Unmarked, LockInv, Handling
    <2> QED
      BY <2>1, <2>2, <2>3, CountKept
  <1>24. ASSUME NEW h \in Handlers, InlineUnconfigured(h) PROVE CountInv'
    <2>1. /\ UNCHANGED <<kind, done, Stored>>
          /\ tally'.gaps = tally.gaps /\ tally'.broken = tally.broken
      BY <1>24, RowOf, NotesEffect DEF InlineUnconfigured, Unmarked
    <2>2. InHand' => InHand
      BY <1>24, MovesEffect DEF InlineUnconfigured, InHand, Handling
    <2>3. Open' => Open
      BY <1>24, <2>1, MovesEffect DEF InlineUnconfigured, Open, Unmarked, LockInv, Handling
    <2> QED
      BY <2>1, <2>2, <2>3, CountKept
  <1>25. ASSUME NEW h \in Handlers, InlinePosts(h) PROVE CountInv'
    <2>1. /\ UNCHANGED <<kind, done, Stored>>
          /\ tally'.gaps = tally.gaps /\ tally'.broken = tally.broken
      <3>1. \A q \in Rows : row'[q].stored = row[q].stored
        BY <1>25, InlinePostsEffect DEF RowFrame
      <3> QED
        BY <1>25, <3>1, InlinePostsEffect DEF Stored, TallySame
    <2>2. InHand' => InHand
      BY <1>25, MovesEffect, InlinePostsEffect
         DEF InHand, Handling, RowFrame, TallySame, Shows, Doubts
    <2>3. Open' => Open
      BY <1>25, <2>1, MovesEffect, InlinePostsEffect
         DEF Open, Unmarked, LockInv, Handling, RowFrame, TallySame, Shows, Doubts
    <2> QED
      BY <2>1, <2>2, <2>3, CountKept
  <1>26. ASSUME NEW h \in Handlers, InlineNumbers(h) PROVE CountInv'
    <2>1. /\ UNCHANGED <<kind, done, Stored>>
          /\ tally'.gaps = tally.gaps /\ tally'.broken = tally.broken
      BY <1>26, RowOf, NotesEffect DEF InlineNumbers, Unmarked
    <2>2. InHand' => InHand
      BY <1>26, MovesEffect DEF InlineNumbers, InHand, Handling
    <2>3. Open' => Open
      BY <1>26, <2>1, MovesEffect DEF InlineNumbers, Open, Unmarked, LockInv, Handling
    <2> QED
      BY <2>1, <2>2, <2>3, CountKept
  <1>27. ASSUME NEW h \in Handlers, InlineFails(h) PROVE CountInv'
    <2>1. UNCHANGED <<kind, Stored>> /\ tally'.gaps = tally.gaps /\ tally'.broken = tally.broken + 1
      BY <1>27, CountsEffect, RowOf, InlineFailsEffect
         DEF Stored, Unmarked, TypeOK, RowStates, RowFrame, TallySame, Shows, Doubts
    <2> QED
      BY <2>1, StoredFinite DEF CountInv, TypeOK, Tallies
  <1>28. ASSUME NEW h \in Handlers, NEW g \in Handlers, FallsBackBeside(h, g) PROVE CountInv'
    <2>1. /\ handler[h].pc = "accepted" /\ handler'[h].pc = "queued"
          /\ handler[g].pc = "free" /\ handler'[g].pc = "queued"
          /\ \A f \in Handlers \ {h, g} : handler'[f] = handler[f]
      BY <1>28, FreshTypes DEF FallsBackBeside, TypeOK
    <2>2. /\ UNCHANGED <<kind, done, Stored>>
          /\ tally'.gaps = tally.gaps /\ tally'.broken = tally.broken
      BY <1>28, CountsEffect DEF FallsBackBeside, Stored
    <2>3. (InHand' => InHand) /\ (Open' => Open)
      BY <2>1, <2>2 DEF InHand, Open, Unmarked
    <2> QED
      BY <2>2, <2>3, CountKept
  <1>29. ASSUME NEW h \in Handlers, NEW r \in Rows, Stores(h, r) PROVE CountInv'
    <2>1. UNCHANGED <<kind, done, tally>> /\ r \notin Stored /\ handler[h].pc = "handling"
          /\ (kind = "message" => Stored = {})
      BY <1>29 DEF Stores, Rows, IsDuplicate
    <2>2. Stored' = Stored \cup {r}
      BY <1>29 DEF Stores, Notes, Stored, TypeOK, RowStates
    <2>3. Cardinality(Stored') = Cardinality(Stored) + 1
      BY <2>1, <2>2, StoredFinite, FS_AddElement
    <2>4. ~InHand' /\ ~Open'
      <3>1. handler'[h].pc = "stored" /\ handler'[h].row = r
            /\ \A g \in Handlers \ {h} : handler'[g] = handler[g]
        BY <1>29 DEF Stores, TypeOK, HandlerStates
      <3>2. \A g \in Handlers \ {h} : handler[g].pc # "handling"
        BY <2>1 DEF LockInv, Handling
      <3> QED
        BY <3>1, <3>2, RowKeys DEF InHand, Open, Unmarked
    <2>5. kind = "reply" => Cardinality(Stored) <= tally.gaps + tally.broken
      BY <2>1 DEF CountInv, InHand
    <2>6. kind = "message" => Cardinality(Stored) = 0
      BY <2>1, FS_EmptySet
    <2> QED
      BY <2>1, <2>3, <2>4, <2>5, <2>6, StoredFinite DEF CountInv, TypeOK, Tallies
  <1>30. ASSUME NEW h \in Handlers, HandlerDies(h) PROVE CountInv'
    <2>1. /\ UNCHANGED <<kind, done, Stored>>
          /\ tally'.gaps = tally.gaps
          /\ tally'.broken = IF LeavesRow(h) THEN tally.broken + 1 ELSE tally.broken
      BY <1>30 DEF HandlerDies, Stored, TypeOK, Tallies
    <2>2. CASE LeavesRow(h)
      BY <2>1, <2>2, StoredFinite DEF CountInv, TypeOK, Tallies
    <2>3. CASE ~LeavesRow(h)
      <3>1. (InHand' => InHand) /\ (Open' => Open)
        BY <1>30, <2>1, <2>3, LeavesEffect DEF HandlerDies, LeavesRow, InHand, Open
      <3> QED
        BY <2>1, <2>3, <3>1, CountKept
    <2> QED
      BY <2>2, <2>3
  <1>31. ASSUME NEW h \in Handlers, UpdateLost(h) PROVE CountInv'
    <2>1. /\ UNCHANGED <<kind, done, Stored>>
          /\ tally'.gaps = tally.gaps /\ tally'.broken = tally.broken
      BY <1>31, CountsEffect DEF UpdateLost, Stored
    <2>2. (InHand' => InHand) /\ (Open' => Open)
      BY <1>31, <2>1, LeavesEffect DEF UpdateLost, InHand, Open, Unmarked
    <2> QED
      BY <2>1, <2>2, CountKept
  <1>32. ASSUME NEW r \in Rows,
                \/ DeliverSkips(r) \/ DeliverReads(r)
         PROVE  CountInv'
    <2>1. /\ UNCHANGED <<kind, done, handler, Stored>>
          /\ tally'.gaps = tally.gaps /\ tally'.broken = tally.broken
      BY <1>32, NotesEffect DEF DeliverSkips, DeliverReads
    <2> QED
      BY <2>1, CountKept DEF InHand, Open
  <1>33. ASSUME NEW r \in Rows,
                \/ DeliverUnconfigured(r) \/ DeliverPosts(r)
                \/ DeliverNumbers(r) \/ DeliverFails(r)
         PROVE  CountInv'
    <2>1. UNCHANGED <<kind, done, handler, Stored>>
      BY <1>33, DeliverPostsEffect, DeliverFailsEffect
         DEF DeliverUnconfigured, DeliverNumbers, Stored, TypeOK, RowStates, RowFrame,
             TallySame, Shows, Doubts
    <2>2. tally'.gaps = tally.gaps /\ tally'.broken = tally.broken
      BY <1>33, DeliverPostsEffect, DeliverFailsEffect
         DEF DeliverUnconfigured, DeliverNumbers, TallySame
    <2> QED
      BY <2>1, <2>2, CountKept DEF InHand, Open
  <1>34. ASSUME NEW r \in Rows,
                \/ DeliverDies(r) \/ DeliverLost(r)
         PROVE  CountInv'
    <2>1. /\ UNCHANGED <<kind, done, handler, Stored>>
          /\ tally'.gaps = tally.gaps /\ tally'.broken = tally.broken
      BY <1>34, NotesEffect, CountsEffect DEF DeliverDies, DeliverLost
    <2> QED
      BY <2>1, CountKept DEF InHand, Open
  <1>35. ASSUME LockExpires PROVE CountInv'
    BY <1>35, CountKept DEF LockExpires, Stored, InHand, Open
  <1>36. ASSUME UNCHANGED vars PROVE CountInv'
    BY <1>36, CountKept DEF vars, Stored, InHand, Open
  <1> QED
    BY <1>1, <1>2, <1>3, <1>4, <1>5, <1>6, <1>7, <1>8, <1>9, <1>10, <1>11,
       <1>12, <1>13, <1>14, <1>15, <1>16, <1>17, <1>18, <1>19, <1>20, <1>21,
       <1>22, <1>23, <1>24, <1>25, <1>26, <1>27, <1>28, <1>29, <1>30, <1>31,
       <1>32, <1>33, <1>34, <1>35, <1>36
       DEF Next, Handle, Deliver, Failure

-----------------------------------------------------------------------------
(* The calls on commit                                                     *)

\* What the mark of a handled update promises.
Answered ==
    \/ tally.refused > 0 \/ tally.broken > 0
    \/ \E r \in Rows : row[r].stored /\ row[r].taken

TakenInv ==
    /\ \A h \in Handlers :
         handler[h].pc \in Unmarked \ {"finished"} => row[handler[h].row].stored
    /\ \A h \in Handlers :
         handler[h].pc \in Unmarked \ {"finished", "stored"} => row[handler[h].row].taken
    /\ \A r \in Rows : row[r].stored =>
         \/ row[r].taken \/ tally.broken > 0
         \/ \E h \in Handlers : handler[h].pc = "stored" /\ handler[h].row = r
    /\ done => Answered
    /\ \A h \in Handlers : handler[h].pc = "finished" => Answered

\* The store and the calls on commit are as they were, and no failure of them
\* is forgotten.
TakenSame ==
    /\ \A r \in Rows : row'[r].stored = row[r].stored /\ row'[r].taken = row[r].taken
    /\ tally.refused > 0 => tally'.refused > 0
    /\ tally.broken > 0 => tally'.broken > 0

LEMMA TakenNote ==
    ASSUME TypeOK, NEW r \in Rows,
           NEW field \in {"told", "numbered", "task", "inline", "dropped", "copies"},
           NEW value, Notes(r, field, value)
    PROVE  \A q \in Rows : row'[q].stored = row[q].stored /\ row'[q].taken = row[q].taken
  BY DEF TypeOK, RowStates, Notes

LEMMA AnsweredKept ==
    ASSUME TypeOK, TakenSame, Answered
    PROVE  Answered'
  BY DEF TypeOK, TakenSame, Answered, Tallies

LEMMA TakenKept ==
    ASSUME TypeOK, TakenInv, TakenSame, done' => done \/ Answered,
           \A h \in Handlers :
              \/ handler'[h] = handler[h]
              \/ /\ handler[h].pc = "stored" => tally'.broken > 0
                 /\ \/ handler'[h].pc \notin Unmarked
                    \/ handler'[h].pc = "finished" /\ Answered
                    \/ /\ handler'[h].pc \in Unmarked \ {"finished", "stored"}
                       /\ handler[h].pc \in Unmarked \ {"finished", "stored"}
                       /\ handler'[h].row = handler[h].row
    PROVE  TakenInv'
  <1>1. Answered => Answered'
    BY AnsweredKept
  <1>2. \A h \in Handlers : handler[h].pc \in Unmarked \ {"finished"} => handler[h].row \in Rows
    BY RowOf
  <1>3. done' => Answered'
    BY <1>1 DEF TakenInv
  <1>4. \A h \in Handlers : handler'[h].pc = "finished" => Answered'
    BY <1>1 DEF TakenInv, Unmarked
  <1>5. \A h \in Handlers :
          handler'[h].pc \in Unmarked \ {"finished"} =>
            handler[h].pc \in Unmarked \ {"finished"} /\ handler'[h].row = handler[h].row
    OBVIOUS
  <1>6. \A h \in Handlers :
          handler'[h].pc \in Unmarked \ {"finished"} => row'[handler'[h].row].stored
    BY <1>2, <1>5 DEF TakenInv, TakenSame
  <1>7. \A h \in Handlers :
          handler'[h].pc \in Unmarked \ {"finished", "stored"} => row'[handler'[h].row].taken
    <2>1. \A h \in Handlers :
            handler'[h].pc \in Unmarked \ {"finished", "stored"} =>
              handler[h].pc \in Unmarked \ {"finished", "stored"} /\ handler'[h].row = handler[h].row
      OBVIOUS
    <2> QED
      BY <1>2, <2>1 DEF TakenInv, TakenSame
  <1>8. tally.broken > 0 => tally'.broken > 0
    BY DEF TakenSame, TypeOK, Tallies
  <1>9. \A r \in Rows : row'[r].stored =>
          \/ row'[r].taken \/ tally'.broken > 0
          \/ \E h \in Handlers : handler'[h].pc = "stored" /\ handler'[h].row = r
    <2> SUFFICES ASSUME NEW r \in Rows, row'[r].stored, ~row'[r].taken, ~(tally'.broken > 0)
                 PROVE  \E h \in Handlers : handler'[h].pc = "stored" /\ handler'[h].row = r
      OBVIOUS
    <2>1. PICK h \in Handlers : handler[h].pc = "stored" /\ handler[h].row = r
      BY <1>8 DEF TakenInv, TakenSame
    <2>2. handler'[h] = handler[h]
      BY <2>1
    <2> QED
      BY <2>1, <2>2
  <1> QED
    BY <1>3, <1>4, <1>6, <1>7, <1>9 DEF TakenInv

LEMMA TakenStep ==
    ASSUME TypeOK, LockInv, TakenInv, [Next]_vars
    PROVE  TakenInv'
  <1>1. ASSUME NEW h \in Handlers, Arrives(h) PROVE TakenInv'
    <2>1. TakenSame
      BY <1>1, CountsEffect DEF Arrives, TakenSame, TypeOK, Tallies
    <2>2. /\ handler[h].pc # "stored" /\ handler'[h].pc \notin Unmarked
          /\ \A g \in Handlers \ {h} : handler'[g] = handler[g]
      BY <1>1 DEF Arrives, TypeOK, Slot, Unmarked
    <2> QED
      BY <1>1, <2>1, <2>2, TakenKept DEF Arrives
  <1>2. ASSUME NEW h \in Handlers, Enqueues(h) PROVE TakenInv'
    <2>1. TakenSame
      BY <1>2 DEF Enqueues, TakenSame, TypeOK, Tallies
    <2>2. /\ handler[h].pc # "stored" /\ handler'[h].pc \notin Unmarked
          /\ \A g \in Handlers \ {h} : handler'[g] = handler[g]
      BY <1>2 DEF Enqueues, TypeOK, Slot, Unmarked
    <2> QED
      BY <1>2, <2>1, <2>2, TakenKept DEF Enqueues
  <1>3. ASSUME NEW h \in Handlers, FallsBack(h) PROVE TakenInv'
    <2>1. TakenSame
      BY <1>3 DEF FallsBack, TakenSame, TypeOK, Tallies
    <2>2. /\ \A g \in Handlers \ {h} : handler'[g] = handler[g]
          /\ handler[h].pc # "stored"
          /\ \/ handler'[h].pc \notin Unmarked
             \/ /\ handler'[h].pc \in Unmarked \ {"finished", "stored"}
                /\ handler[h].pc \in Unmarked \ {"finished", "stored"}
                /\ handler'[h].row = handler[h].row
      BY <1>3, MovesEffect DEF FallsBack, Unmarked, Handling
    <2> QED
      BY <1>3, <2>1, <2>2, TakenKept DEF FallsBack
  <1>4. ASSUME NEW h \in Handlers, SkipsDone(h) PROVE TakenInv'
    <2>1. TakenSame
      BY <1>4 DEF SkipsDone, TakenSame, TypeOK, Tallies
    <2>2. /\ \A g \in Handlers \ {h} : handler'[g] = handler[g]
          /\ handler[h].pc # "stored"
          /\ \/ handler'[h].pc \notin Unmarked
             \/ /\ handler'[h].pc \in Unmarked \ {"finished", "stored"}
                /\ handler[h].pc \in Unmarked \ {"finished", "stored"}
                /\ handler'[h].row = handler[h].row
      BY <1>4, LeavesEffect DEF SkipsDone, Unmarked, Handling
    <2> QED
      BY <1>4, <2>1, <2>2, TakenKept DEF SkipsDone
  <1>5. ASSUME NEW h \in Handlers, Checks(h) PROVE TakenInv'
    <2>1. TakenSame
      BY <1>5 DEF Checks, TakenSame, TypeOK, Tallies
    <2>2. /\ \A g \in Handlers \ {h} : handler'[g] = handler[g]
          /\ handler[h].pc # "stored"
          /\ \/ handler'[h].pc \notin Unmarked
             \/ /\ handler'[h].pc \in Unmarked \ {"finished", "stored"}
                /\ handler[h].pc \in Unmarked \ {"finished", "stored"}
                /\ handler'[h].row = handler[h].row
      BY <1>5, MovesEffect DEF Checks, Unmarked, Handling
    <2> QED
      BY <1>5, <2>1, <2>2, TakenKept DEF Checks
  <1>6. ASSUME NEW h \in Handlers, SkipsLocked(h) PROVE TakenInv'
    <2>1. TakenSame
      BY <1>6 DEF SkipsLocked, TakenSame, TypeOK, Tallies
    <2>2. /\ \A g \in Handlers \ {h} : handler'[g] = handler[g]
          /\ handler[h].pc # "stored"
          /\ \/ handler'[h].pc \notin Unmarked
             \/ /\ handler'[h].pc \in Unmarked \ {"finished", "stored"}
                /\ handler[h].pc \in Unmarked \ {"finished", "stored"}
                /\ handler'[h].row = handler[h].row
      BY <1>6, LeavesEffect DEF SkipsLocked, Unmarked, Handling
    <2> QED
      BY <1>6, <2>1, <2>2, TakenKept DEF SkipsLocked
  <1>7. ASSUME NEW h \in Handlers, Locks(h) PROVE TakenInv'
    <2>1. TakenSame
      BY <1>7 DEF Locks, TakenSame, TypeOK, Tallies
    <2>2. /\ \A g \in Handlers \ {h} : handler'[g] = handler[g]
          /\ handler[h].pc # "stored"
          /\ \/ handler'[h].pc \notin Unmarked
             \/ /\ handler'[h].pc \in Unmarked \ {"finished", "stored"}
                /\ handler[h].pc \in Unmarked \ {"finished", "stored"}
                /\ handler'[h].row = handler[h].row
      BY <1>7, MovesEffect DEF Locks, Unmarked, Handling
    <2> QED
      BY <1>7, <2>1, <2>2, TakenKept DEF Locks
  <1>8. ASSUME NEW h \in Handlers, MarksDone(h) PROVE TakenInv'
    <2>1. TakenSame
      BY <1>8 DEF MarksDone, TakenSame, TypeOK, Tallies
    <2>2. Answered
      BY <1>8 DEF MarksDone, TakenInv
    <2>3. /\ \A g \in Handlers \ {h} : handler'[g] = handler[g]
          /\ handler[h].pc # "stored" /\ handler'[h].pc \notin Unmarked
      BY <1>8, MovesEffect DEF MarksDone, Unmarked, Handling
    <2> QED
      BY <1>8, <2>1, <2>2, <2>3, TakenKept DEF MarksDone
  <1>9. ASSUME NEW h \in Handlers, Unlocks(h) PROVE TakenInv'
    <2>1. TakenSame
      BY <1>9 DEF Unlocks, TakenSame, TypeOK, Tallies
    <2>2. /\ \A g \in Handlers \ {h} : handler'[g] = handler[g]
          /\ handler[h].pc # "stored"
          /\ \/ handler'[h].pc \notin Unmarked
             \/ /\ handler'[h].pc \in Unmarked \ {"finished", "stored"}
                /\ handler[h].pc \in Unmarked \ {"finished", "stored"}
                /\ handler'[h].row = handler[h].row
      BY <1>9, LeavesEffect DEF Unlocks, Unmarked, Handling
    <2> QED
      BY <1>9, <2>1, <2>2, TakenKept DEF Unlocks
  <1>10. ASSUME NEW h \in Handlers, UnlocksToRetry(h) PROVE TakenInv'
    <2>1. TakenSame
      BY <1>10 DEF UnlocksToRetry, TakenSame, TypeOK, Tallies
    <2>2. /\ handler[h].pc # "stored" /\ handler'[h].pc \notin Unmarked
          /\ \A g \in Handlers \ {h} : handler'[g] = handler[g]
      BY <1>10 DEF UnlocksToRetry, TypeOK, Slot, Unmarked
    <2> QED
      BY <1>10, <2>1, <2>2, TakenKept DEF UnlocksToRetry
  <1>11. ASSUME NEW h \in Handlers, UnlocksToFail(h) PROVE TakenInv'
    <2>1. TakenSame
      BY <1>11, CountsEffect DEF UnlocksToFail, TakenSame, TypeOK, Tallies
    <2>2. /\ \A g \in Handlers \ {h} : handler'[g] = handler[g]
          /\ handler[h].pc # "stored"
          /\ \/ handler'[h].pc \notin Unmarked
             \/ /\ handler'[h].pc \in Unmarked \ {"finished", "stored"}
                /\ handler[h].pc \in Unmarked \ {"finished", "stored"}
                /\ handler'[h].row = handler[h].row
      BY <1>11, LeavesEffect DEF UnlocksToFail, Unmarked, Handling
    <2> QED
      BY <1>11, <2>1, <2>2, TakenKept DEF UnlocksToFail
  <1>12. ASSUME NEW h \in Handlers, Refuses(h) PROVE TakenInv'
    <2>1. /\ tally'.refused = tally.refused + 1 /\ tally'.broken = tally.broken
          /\ UNCHANGED <<done, row>>
      BY <1>12, CountsEffect DEF Refuses
    <2>2. Answered'
      BY <2>1 DEF Answered, TypeOK, Tallies
    <2>3. /\ handler'[h].pc = "finished" /\ handler[h].pc = "handling"
          /\ \A g \in Handlers \ {h} : handler'[g] = handler[g]
      BY <1>12, MovesEffect DEF Refuses, Handling
    <2> QED
      BY <2>1, <2>2, <2>3 DEF TakenInv
  <1>13. ASSUME NEW h \in Handlers, FileFails(h) PROVE TakenInv'
    <2>1. TakenSame
      BY <1>13 DEF FileFails, TakenSame, TypeOK, Tallies
    <2>2. /\ \A g \in Handlers \ {h} : handler'[g] = handler[g]
          /\ handler[h].pc # "stored"
          /\ \/ handler'[h].pc \notin Unmarked
             \/ /\ handler'[h].pc \in Unmarked \ {"finished", "stored"}
                /\ handler[h].pc \in Unmarked \ {"finished", "stored"}
                /\ handler'[h].row = handler[h].row
      BY <1>13, MovesEffect DEF FileFails, Unmarked, Handling
    <2> QED
      BY <1>13, <2>1, <2>2, TakenKept DEF FileFails
  <1>14. ASSUME NEW h \in Handlers, StoreFails(h) PROVE TakenInv'
    <2>1. TakenSame
      BY <1>14 DEF StoreFails, TakenSame, TypeOK, Tallies
    <2>2. /\ \A g \in Handlers \ {h} : handler'[g] = handler[g]
          /\ handler[h].pc # "stored"
          /\ \/ handler'[h].pc \notin Unmarked
             \/ /\ handler'[h].pc \in Unmarked \ {"finished", "stored"}
                /\ handler[h].pc \in Unmarked \ {"finished", "stored"}
                /\ handler'[h].row = handler[h].row
      BY <1>14, MovesEffect DEF StoreFails, Unmarked, Handling
    <2> QED
      BY <1>14, <2>1, <2>2, TakenKept DEF StoreFails
  <1>15. ASSUME NEW h \in Handlers, FindsRow(h) PROVE TakenInv'
    <2>1. TakenSame
      BY <1>15 DEF FindsRow, TakenSame, TypeOK, Tallies
    <2>2. Answered
      <3>1. PICK r \in Rows : row[r].stored
        BY <1>15 DEF FindsRow, IsDuplicate, Stored
      <3>2. \A g \in Handlers : handler[g].pc # "stored"
        BY <1>15 DEF FindsRow, LockInv, Handling
      <3> QED
        BY <3>1, <3>2 DEF TakenInv, Answered
    <2>3. /\ \A g \in Handlers \ {h} : handler'[g] = handler[g]
          /\ handler[h].pc # "stored" /\ handler'[h].pc = "finished"
      BY <1>15, MovesEffect DEF FindsRow, Handling
    <2> QED
      BY <1>15, <2>1, <2>2, <2>3, TakenKept DEF FindsRow
  <1>16. ASSUME NEW h \in Handlers, Takes(h) PROVE TakenInv'
    <2>1. handler[h].row \in Rows /\ handler[h].pc = "stored"
      BY <1>16, RowOf DEF Takes, Unmarked
    <2>2. /\ \A r \in Rows : row'[r].stored = row[r].stored
          /\ \A r \in Rows : row[r].taken => row'[r].taken
          /\ row'[handler[h].row].taken /\ UNCHANGED <<done, tally>>
      BY <1>16, <2>1 DEF Takes, Notes, TypeOK, RowStates
    <2>3. /\ handler'[h].pc \in {"taken", "finished"} /\ handler'[h].row = handler[h].row
          /\ \A g \in Handlers \ {h} : handler'[g] = handler[g]
      <3>1. Moves(h, "taken") \/ Moves(h, "finished")
        BY <1>16 DEF Takes
      <3> QED
        BY <3>1, MovesEffect DEF Handling
    <2>4. row[handler[h].row].stored
      BY <2>1 DEF TakenInv, Unmarked
    <2>5. Answered'
      BY <2>1, <2>2, <2>4 DEF Answered
    <2>6. \A g \in Handlers \ {h} : handler[g].pc \notin Unmarked
      BY <2>1 DEF LockInv, Handling, Unmarked
    <2> QED
      BY <2>1, <2>2, <2>3, <2>4, <2>5, <2>6 DEF TakenInv, Unmarked
  <1>17. ASSUME NEW h \in Handlers, TakeFails(h) PROVE TakenInv'
    <2>1. /\ tally'.broken = tally.broken + 1 /\ tally'.refused = tally.refused
          /\ UNCHANGED <<done, row>>
      BY <1>17, CountsEffect DEF TakeFails
    <2>2. TakenSame /\ tally'.broken > 0
      BY <2>1 DEF TakenSame, TypeOK, Tallies
    <2>3. /\ handler'[h].pc \notin Unmarked
          /\ \A g \in Handlers \ {h} : handler'[g] = handler[g]
      BY <1>17, MovesEffect DEF TakeFails, Handling, Unmarked
    <2> QED
      BY <2>1, <2>2, <2>3, TakenKept
  <1>18. ASSUME NEW h \in Handlers, Delivers(h) PROVE TakenInv'
    <2>0. /\ \A q \in Rows : row'[q].stored = row[q].stored /\ row'[q].taken = row[q].taken
          /\ tally' = tally
      BY <1>18, RowOf, TakenNote DEF Delivers, Unmarked
    <2>1. TakenSame
      BY <2>0 DEF TakenSame
    <2>2. /\ \A g \in Handlers \ {h} : handler'[g] = handler[g]
          /\ handler[h].pc # "stored"
          /\ \/ handler'[h].pc \notin Unmarked
             \/ /\ handler'[h].pc \in Unmarked \ {"finished", "stored"}
                /\ handler[h].pc \in Unmarked \ {"finished", "stored"}
                /\ handler'[h].row = handler[h].row
      BY <1>18, MovesEffect DEF Delivers, Unmarked, Handling
    <2> QED
      BY <1>18, <2>1, <2>2, TakenKept DEF Delivers
  <1>19. ASSUME NEW h \in Handlers, DeliversInline(h) PROVE TakenInv'
    <2>0. /\ \A q \in Rows : row'[q].stored = row[q].stored /\ row'[q].taken = row[q].taken
          /\ tally' = tally
      BY <1>19, RowOf, TakenNote DEF DeliversInline, Unmarked
    <2>1. TakenSame
      BY <2>0 DEF TakenSame
    <2>2. /\ \A g \in Handlers \ {h} : handler'[g] = handler[g]
          /\ handler[h].pc # "stored"
          /\ \/ handler'[h].pc \notin Unmarked
             \/ /\ handler'[h].pc \in Unmarked \ {"finished", "stored"}
                /\ handler[h].pc \in Unmarked \ {"finished", "stored"}
                /\ handler'[h].row = handler[h].row
      BY <1>19, MovesEffect DEF DeliversInline, Unmarked, Handling
    <2> QED
      BY <1>19, <2>1, <2>2, TakenKept DEF DeliversInline
  <1>20. ASSUME NEW h \in Handlers, DeliversTwice(h) PROVE TakenInv'
    <2>1. TakenSame
      BY <1>20, CountsEffect, RowOf
         DEF DeliversTwice, TakenSame, TypeOK, Tallies, RowStates, Unmarked
    <2>2. /\ \A g \in Handlers \ {h} : handler'[g] = handler[g]
          /\ handler[h].pc # "stored"
          /\ \/ handler'[h].pc \notin Unmarked
             \/ /\ handler'[h].pc \in Unmarked \ {"finished", "stored"}
                /\ handler[h].pc \in Unmarked \ {"finished", "stored"}
                /\ handler'[h].row = handler[h].row
      BY <1>20, MovesEffect DEF DeliversTwice, Unmarked, Handling
    <2> QED
      BY <1>20, <2>1, <2>2, TakenKept DEF DeliversTwice
  <1>21. ASSUME NEW h \in Handlers, Tells(h) PROVE TakenInv'
    <2>0. /\ \A q \in Rows : row'[q].stored = row[q].stored /\ row'[q].taken = row[q].taken
          /\ tally' = tally
      BY <1>21, RowOf, TakenNote DEF Tells, Unmarked
    <2>1. TakenSame
      BY <2>0 DEF TakenSame
    <2>2. Answered
      BY <1>21, RowOf DEF Tells, TakenInv, Answered, Unmarked
    <2>3. /\ \A g \in Handlers \ {h} : handler'[g] = handler[g]
          /\ handler[h].pc # "stored" /\ handler'[h].pc = "finished"
      BY <1>21, MovesEffect DEF Tells, Handling
    <2> QED
      BY <1>21, <2>1, <2>2, <2>3, TakenKept DEF Tells
  <1>22. ASSUME NEW h \in Handlers, InlineSkips(h) PROVE TakenInv'
    <2>1. TakenSame
      BY <1>22 DEF InlineSkips, TakenSame, TypeOK, Tallies
    <2>2. /\ \A g \in Handlers \ {h} : handler'[g] = handler[g]
          /\ handler[h].pc # "stored"
          /\ \/ handler'[h].pc \notin Unmarked
             \/ /\ handler'[h].pc \in Unmarked \ {"finished", "stored"}
                /\ handler[h].pc \in Unmarked \ {"finished", "stored"}
                /\ handler'[h].row = handler[h].row
      BY <1>22, MovesEffect DEF InlineSkips, Unmarked, Handling
    <2> QED
      BY <1>22, <2>1, <2>2, TakenKept DEF InlineSkips
  <1>23. ASSUME NEW h \in Handlers, InlineReads(h) PROVE TakenInv'
    <2>1. TakenSame
      BY <1>23 DEF InlineReads, TakenSame, TypeOK, Tallies
    <2>2. /\ \A g \in Handlers \ {h} : handler'[g] = handler[g]
          /\ handler[h].pc # "stored"
          /\ \/ handler'[h].pc \notin Unmarked
             \/ /\ handler'[h].pc \in Unmarked \ {"finished", "stored"}
                /\ handler[h].pc \in Unmarked \ {"finished", "stored"}
                /\ handler'[h].row = handler[h].row
      BY <1>23, MovesEffect DEF InlineReads, Unmarked, Handling
    <2> QED
      BY <1>23, <2>1, <2>2, TakenKept DEF InlineReads
  <1>24. ASSUME NEW h \in Handlers, InlineUnconfigured(h) PROVE TakenInv'
    <2>0. /\ \A q \in Rows : row'[q].stored = row[q].stored /\ row'[q].taken = row[q].taken
          /\ tally' = tally
      BY <1>24, RowOf, TakenNote DEF InlineUnconfigured, Unmarked
    <2>1. TakenSame
      BY <2>0 DEF TakenSame
    <2>2. /\ \A g \in Handlers \ {h} : handler'[g] = handler[g]
          /\ handler[h].pc # "stored"
          /\ \/ handler'[h].pc \notin Unmarked
             \/ /\ handler'[h].pc \in Unmarked \ {"finished", "stored"}
                /\ handler[h].pc \in Unmarked \ {"finished", "stored"}
                /\ handler'[h].row = handler[h].row
      BY <1>24, MovesEffect DEF InlineUnconfigured, Unmarked, Handling
    <2> QED
      BY <1>24, <2>1, <2>2, TakenKept DEF InlineUnconfigured
  <1>25. ASSUME NEW h \in Handlers, InlinePosts(h) PROVE TakenInv'
    <2>0. /\ \A q \in Rows : row'[q].stored = row[q].stored /\ row'[q].taken = row[q].taken
          /\ tally'.refused = tally.refused /\ tally'.broken = tally.broken
      BY <1>25, InlinePostsEffect DEF TallySame, RowFrame
    <2>1. TakenSame
      BY <2>0 DEF TakenSame
    <2>2. /\ \A g \in Handlers \ {h} : handler'[g] = handler[g]
          /\ handler[h].pc # "stored"
          /\ \/ handler'[h].pc \notin Unmarked
             \/ /\ handler'[h].pc \in Unmarked \ {"finished", "stored"}
                /\ handler[h].pc \in Unmarked \ {"finished", "stored"}
                /\ handler'[h].row = handler[h].row
      BY <1>25, MovesEffect, InlinePostsEffect
         DEF Unmarked, Handling, RowFrame, TallySame, Shows, Doubts
    <2> QED
      BY <1>25, <2>1, <2>2, TakenKept, InlinePostsEffect
         DEF RowFrame, TallySame, Shows, Doubts
  <1>26. ASSUME NEW h \in Handlers, InlineNumbers(h) PROVE TakenInv'
    <2>0. /\ \A q \in Rows : row'[q].stored = row[q].stored /\ row'[q].taken = row[q].taken
          /\ tally' = tally
      BY <1>26, RowOf, TakenNote DEF InlineNumbers, Unmarked
    <2>1. TakenSame
      BY <2>0 DEF TakenSame
    <2>2. /\ \A g \in Handlers \ {h} : handler'[g] = handler[g]
          /\ handler[h].pc # "stored"
          /\ \/ handler'[h].pc \notin Unmarked
             \/ /\ handler'[h].pc \in Unmarked \ {"finished", "stored"}
                /\ handler[h].pc \in Unmarked \ {"finished", "stored"}
                /\ handler'[h].row = handler[h].row
      BY <1>26, MovesEffect DEF InlineNumbers, Unmarked, Handling
    <2> QED
      BY <1>26, <2>1, <2>2, TakenKept DEF InlineNumbers
  <1>27. ASSUME NEW h \in Handlers, InlineFails(h) PROVE TakenInv'
    <2>1. TakenSame
      BY <1>27, CountsEffect, RowOf, InlineFailsEffect
         DEF TakenSame, TypeOK, Tallies, RowStates, Unmarked, RowFrame, TallySame,
             Shows, Doubts
    <2>2. /\ \A g \in Handlers \ {h} : handler'[g] = handler[g]
          /\ handler[h].pc # "stored"
          /\ \/ handler'[h].pc \notin Unmarked
             \/ /\ handler'[h].pc \in Unmarked \ {"finished", "stored"}
                /\ handler[h].pc \in Unmarked \ {"finished", "stored"}
                /\ handler'[h].row = handler[h].row
      BY <1>27, MovesEffect, InlineFailsEffect
         DEF Unmarked, Handling, RowFrame, TallySame, Shows, Doubts
    <2> QED
      BY <1>27, <2>1, <2>2, TakenKept, InlineFailsEffect
         DEF RowFrame, TallySame, Shows, Doubts
  <1>28. ASSUME NEW h \in Handlers, NEW g \in Handlers, FallsBackBeside(h, g) PROVE TakenInv'
    <2>1. TakenSame
      BY <1>28, CountsEffect DEF FallsBackBeside, TakenSame, TypeOK, Tallies
    <2>2. /\ handler[h].pc = "accepted" /\ handler'[h].pc = "queued"
          /\ handler[g].pc = "free" /\ handler'[g].pc = "queued"
          /\ \A f \in Handlers \ {h, g} : handler'[f] = handler[f]
      BY <1>28, FreshTypes DEF FallsBackBeside, TypeOK
    <2>3. \A f \in Handlers :
            \/ handler'[f] = handler[f]
            \/ handler[f].pc # "stored" /\ handler'[f].pc \notin Unmarked
      BY <2>2 DEF Unmarked
    <2> QED
      BY <1>28, <2>1, <2>3, TakenKept DEF FallsBackBeside
  <1>29. ASSUME NEW h \in Handlers, NEW r \in Rows, Stores(h, r) PROVE TakenInv'
    <2>1. /\ handler[h].pc = "handling" /\ r \notin Stored
          /\ handler'[h].pc = "stored" /\ handler'[h].row = r
          /\ \A g \in Handlers \ {h} : handler'[g] = handler[g]
      BY <1>29 DEF Stores, TypeOK, HandlerStates, Rows
    <2>2. /\ \A q \in Rows \ {r} : row'[q] = row[q]
          /\ row'[r].stored /\ row'[r].taken = row[r].taken /\ UNCHANGED <<done, tally>>
      BY <1>29 DEF Stores, Notes, TypeOK, RowStates
    <2>3. \A g \in Handlers \ {h} : handler[g].pc \notin Unmarked
      BY <2>1 DEF LockInv, Handling, Unmarked
    <2>4. Answered => Answered'
      BY <2>1, <2>2 DEF Answered, Stored
    <2> QED
      BY <2>1, <2>2, <2>3, <2>4 DEF TakenInv, Unmarked
  <1>30. ASSUME NEW h \in Handlers, HandlerDies(h) PROVE TakenInv'
    <2>1. /\ TakenSame /\ UNCHANGED <<done, row>>
          /\ tally'.broken = IF LeavesRow(h) THEN tally.broken + 1 ELSE tally.broken
      BY <1>30 DEF HandlerDies, TakenSame, TypeOK, Tallies
    <2>2. handler[h].pc = "stored" => tally'.broken > 0
      BY <2>1, RowOf DEF LeavesRow, Unmarked, TypeOK, Tallies
    <2>3. /\ handler'[h].pc \notin Unmarked
          /\ \A g \in Handlers \ {h} : handler'[g] = handler[g]
      BY <1>30, LeavesEffect DEF HandlerDies, Unmarked
    <2> QED
      BY <2>1, <2>2, <2>3, TakenKept
  <1>31. ASSUME NEW h \in Handlers, UpdateLost(h) PROVE TakenInv'
    <2>1. TakenSame
      BY <1>31, CountsEffect DEF UpdateLost, TakenSame, TypeOK, Tallies
    <2>2. /\ handler[h].pc # "stored" /\ handler'[h].pc \notin Unmarked
          /\ \A g \in Handlers \ {h} : handler'[g] = handler[g]
      BY <1>31, LeavesEffect DEF UpdateLost, Unmarked
    <2> QED
      BY <1>31, <2>1, <2>2, TakenKept DEF UpdateLost
  <1>32. ASSUME NEW r \in Rows,
                \/ DeliverSkips(r) \/ DeliverReads(r)
         PROVE  TakenInv'
    <2>1. TakenSame
      BY <1>32, TakenNote DEF DeliverSkips, DeliverReads, TakenSame, TypeOK, Tallies
    <2> QED
      BY <1>32, <2>1, TakenKept DEF DeliverSkips, DeliverReads
  <1>33. ASSUME NEW r \in Rows,
                \/ DeliverUnconfigured(r) \/ DeliverPosts(r)
                \/ DeliverNumbers(r) \/ DeliverFails(r)
         PROVE  TakenInv'
    <2>1. \A q \in Rows : row'[q].stored = row[q].stored /\ row'[q].taken = row[q].taken
      BY <1>33, DeliverPostsEffect, DeliverFailsEffect
         DEF DeliverUnconfigured, DeliverNumbers, TypeOK, RowStates, RowFrame,
             TallySame, Shows, Doubts
    <2>2. tally'.refused = tally.refused /\ tally'.broken = tally.broken
      BY <1>33, DeliverPostsEffect, DeliverFailsEffect
         DEF DeliverUnconfigured, DeliverNumbers, TallySame
    <2>3. TakenSame
      BY <2>1, <2>2 DEF TakenSame
    <2> QED
      BY <1>33, <2>3, TakenKept, DeliverPostsEffect, DeliverFailsEffect
         DEF DeliverUnconfigured, DeliverNumbers, RowFrame, TallySame, Shows, Doubts
  <1>34. ASSUME NEW r \in Rows,
                \/ DeliverDies(r) \/ DeliverLost(r)
         PROVE  TakenInv'
    <2>1. TakenSame
      BY <1>34, CountsEffect, TakenNote
         DEF DeliverDies, DeliverLost, TakenSame, TypeOK, Tallies
    <2> QED
      BY <1>34, <2>1, TakenKept DEF DeliverDies, DeliverLost
  <1>35. ASSUME LockExpires PROVE TakenInv'
    <2>1. TakenSame
      BY <1>35 DEF LockExpires, TakenSame, TypeOK, Tallies
    <2> QED
      BY <1>35, <2>1, TakenKept DEF LockExpires
  <1>36. ASSUME UNCHANGED vars PROVE TakenInv'
    <2>1. TakenSame
      BY <1>36 DEF vars, TakenSame, TypeOK, Tallies
    <2> QED
      BY <1>36, <2>1, TakenKept DEF vars
  <1> QED
    BY <1>1, <1>2, <1>3, <1>4, <1>5, <1>6, <1>7, <1>8, <1>9, <1>10, <1>11,
       <1>12, <1>13, <1>14, <1>15, <1>16, <1>17, <1>18, <1>19, <1>20, <1>21,
       <1>22, <1>23, <1>24, <1>25, <1>26, <1>27, <1>28, <1>29, <1>30, <1>31,
       <1>32, <1>33, <1>34, <1>35, <1>36
       DEF Next, Handle, Deliver, Failure

-----------------------------------------------------------------------------
(* The copies of a reply                                                   *)

\* A part of TakenInv.
StoredInv ==
    \A h \in Handlers :
        handler[h].pc \in Unmarked \ {"finished"} => row[handler[h].row].stored

Fresh == {"stored", "taken"}

Inlining(r) ==
    \E h \in Handlers : handler[h].row = r /\ handler[h].pc \in {"inline", "posting"}

\* The copies that the task and the handler of a row account for.
OfTask(r) == IF row[r].task \in {"posted", "over", "lost"} THEN MaxAttempts ELSE 0

OfInline(r) == IF row[r].inline /\ ~Inlining(r) THEN MaxAttempts ELSE 0

CopyInv ==
    /\ \A h \in Handlers : handler[h].pc \in Fresh =>
         row[handler[h].row].task = "none" /\ ~row[handler[h].row].inline
    /\ \A h \in Handlers : handler[h].pc \in {"inline", "posting"} =>
         row[handler[h].row].inline
    /\ \A r \in Rows : ~row[r].stored => row[r].task = "none" /\ ~row[r].inline
    /\ \A r \in Rows : row[r].copies <= row[r].doubts + OfTask(r) + OfInline(r)

\* A row is as far with its delivery as it was.
CopySame ==
    \A r \in Rows :
        /\ row'[r].stored = row[r].stored /\ row'[r].task = row[r].task
        /\ row'[r].inline = row[r].inline
        /\ row'[r].copies = row[r].copies /\ row'[r].doubts = row[r].doubts

CopySameBut(r) ==
    /\ \A q \in Rows \ {r} : row'[q] = row[q]
    /\ row'[r].stored
    /\ row'[r].task = row[r].task /\ row'[r].inline = row[r].inline
    /\ row'[r].copies = row[r].copies /\ row'[r].doubts = row[r].doubts

LEMMA CopyNote ==
    ASSUME TypeOK, NEW r \in Rows, NEW field \in {"taken", "told", "numbered", "dropped"},
           NEW value, Notes(r, field, value)
    PROVE  CopySame
  BY DEF TypeOK, RowStates, Notes, CopySame

LEMMA CopyKept ==
    ASSUME TypeOK, CopyInv, CopySame,
           \A h \in Handlers :
              \/ handler'[h] = handler[h]
              \/ handler'[h].pc \notin Fresh \cup {"inline", "posting"}
              \/ /\ handler'[h].row = handler[h].row
                 /\ \/ handler[h].pc \in Fresh /\ handler'[h].pc \in Fresh
                    \/ /\ handler[h].pc \in {"inline", "posting"}
                       /\ handler'[h].pc \in {"inline", "posting"}
    PROVE  CopyInv'
  <1>1. \A h \in Handlers :
          handler[h].pc \in Fresh \cup {"inline", "posting"} => handler[h].row \in Rows
    BY RowOf DEF Fresh, Unmarked
  <1>2. \A h \in Handlers : handler'[h].pc \in Fresh =>
          handler[h].pc \in Fresh /\ handler'[h].row = handler[h].row
    BY DEF Fresh
  <1>3. \A h \in Handlers : handler'[h].pc \in {"inline", "posting"} =>
          handler[h].pc \in {"inline", "posting"} /\ handler'[h].row = handler[h].row
    BY DEF Fresh
  <1>4. ASSUME NEW r \in Rows
        PROVE  row'[r].copies <= row'[r].doubts + OfTask(r)' + OfInline(r)'
    <2>1. Inlining(r)' => Inlining(r)
      BY <1>3 DEF Inlining
    <2>2. OfTask(r)' = OfTask(r)
      BY DEF OfTask, CopySame
    <2>3. OfInline(r)' >= OfInline(r)
      BY <2>1, AttemptsAssumption DEF OfInline, CopySame
    <2>4. OfInline(r) \in {0, MaxAttempts} /\ OfInline(r)' \in {0, MaxAttempts} /\ OfTask(r) \in {0, MaxAttempts}
      BY DEF OfInline, OfTask
    <2>5. row[r].copies \in Nat /\ row[r].doubts \in Nat
      BY DEF TypeOK, RowStates
    <2>6. row'[r].copies = row[r].copies /\ row'[r].doubts = row[r].doubts
      BY DEF CopySame
    <2>7. row[r].copies <= row[r].doubts + OfTask(r) + OfInline(r)
      BY DEF CopyInv
    <2> QED
      BY <2>2, <2>3, <2>4, <2>5, <2>6, <2>7, AttemptsAssumption
  <1>5. \A h \in Handlers : handler'[h].pc \in Fresh =>
          row'[handler'[h].row].task = "none" /\ ~row'[handler'[h].row].inline
    BY <1>1, <1>2 DEF CopyInv, CopySame
  <1>6. \A h \in Handlers : handler'[h].pc \in {"inline", "posting"} =>
          row'[handler'[h].row].inline
    BY <1>1, <1>3 DEF CopyInv, CopySame
  <1>7. \A r \in Rows : ~row'[r].stored => row'[r].task = "none" /\ ~row'[r].inline
    BY DEF CopyInv, CopySame
  <1> QED
    BY <1>4, <1>5, <1>6, <1>7 DEF CopyInv

\* A step of the task of a row.
LEMMA CopyTask ==
    ASSUME TypeOK, CopyInv, NEW r \in Rows, UNCHANGED handler, row[r].task # "none",
           \A q \in Rows \ {r} : row'[q] = row[q],
           row'[r].stored = row[r].stored, row'[r].inline = row[r].inline,
           row'[r].copies <= row'[r].doubts + OfTask(r)' + OfInline(r)
    PROVE  CopyInv'
  <1>1. \A h \in Handlers :
          handler[h].pc \in Fresh \cup {"inline", "posting"} => handler[h].row \in Rows
    BY RowOf DEF Fresh, Unmarked
  <1>2. OfInline(r)' = OfInline(r)
    <2>1. Inlining(r)' <=> Inlining(r)
      BY DEF Inlining
    <2> QED
      BY <2>1 DEF OfInline
  <1>3. \A q \in Rows \ {r} : OfInline(q)' = OfInline(q) /\ OfTask(q)' = OfTask(q)
    BY DEF OfInline, Inlining, OfTask
  <1>4. ASSUME NEW q \in Rows
        PROVE  row'[q].copies <= row'[q].doubts + OfTask(q)' + OfInline(q)'
    <2>1. CASE q = r
      BY <1>2, <2>1
    <2>2. CASE q # r
      BY <1>3, <2>2 DEF CopyInv
    <2> QED
      BY <2>1, <2>2
  <1>5. \A h \in Handlers : handler[h].pc \in Fresh =>
          row'[handler[h].row].task = "none" /\ ~row'[handler[h].row].inline
    BY <1>1 DEF CopyInv
  <1>6. \A h \in Handlers : handler[h].pc \in {"inline", "posting"} =>
          row'[handler[h].row].inline
    BY <1>1 DEF CopyInv
  <1>7. \A q \in Rows : ~row'[q].stored => row'[q].task = "none" /\ ~row'[q].inline
    BY DEF CopyInv
  <1> QED
    BY <1>4, <1>5, <1>6, <1>7 DEF CopyInv

\* A step of the handler that is at work on a row.
LEMMA CopyHandler ==
    ASSUME TypeOK, LockInv, CopyInv, NEW h \in Handlers, NEW r \in Rows,
           handler[h].pc \in Handling, handler[h].row = r, handler'[h].row = r,
           \A g \in Handlers \ {h} : handler'[g] = handler[g],
           handler'[h].pc \notin Fresh,
           \A q \in Rows \ {r} : row'[q] = row[q],
           row'[r].stored,
           handler'[h].pc \in {"inline", "posting"} => row'[r].inline,
           row'[r].copies <=
              row'[r].doubts + OfTask(r)'
                + (IF /\ row'[r].inline
                      /\ handler'[h].pc \notin {"inline", "posting"} THEN MaxAttempts ELSE 0)
    PROVE  CopyInv'
  <1>1. \A g \in Handlers \ {h} : handler[g].pc \notin Handling
    BY DEF LockInv
  <1>2. \A g \in Handlers \ {h} : handler'[g].pc \notin Fresh \cup {"inline", "posting"}
    BY <1>1 DEF Handling, Fresh
  <1>3. OfInline(r)' = IF row'[r].inline /\ handler'[h].pc \notin {"inline", "posting"} THEN MaxAttempts ELSE 0
    BY <1>2 DEF OfInline, Inlining
  <1>4. \A q \in Rows \ {r} : OfInline(q)' = OfInline(q) /\ OfTask(q)' = OfTask(q)
    <2>1. \A q \in Rows \ {r} : Inlining(q)' <=> Inlining(q)
      BY DEF Inlining
    <2> QED
      BY <2>1 DEF OfInline, OfTask
  <1>5. ASSUME NEW q \in Rows
        PROVE  row'[q].copies <= row'[q].doubts + OfTask(q)' + OfInline(q)'
    <2>1. CASE q = r
      BY <1>3, <2>1
    <2>2. CASE q # r
      BY <1>4, <2>2 DEF CopyInv
    <2> QED
      BY <2>1, <2>2
  <1>6. \A g \in Handlers : handler'[g].pc \in Fresh =>
          row'[handler'[g].row].task = "none" /\ ~row'[handler'[g].row].inline
    BY <1>2
  <1>7. \A g \in Handlers : handler'[g].pc \in {"inline", "posting"} =>
          row'[handler'[g].row].inline
    BY <1>2
  <1>8. \A q \in Rows : ~row'[q].stored => row'[q].task = "none" /\ ~row'[q].inline
    BY DEF CopyInv
  <1> QED
    BY <1>5, <1>6, <1>7, <1>8 DEF CopyInv

LEMMA CopyStep ==
    ASSUME TypeOK, LockInv, StoredInv, CopyInv, [Next]_vars
    PROVE  CopyInv'
  <1>1. ASSUME NEW h \in Handlers, Arrives(h) PROVE CopyInv'
    <2>1. CopySame
      BY <1>1 DEF Arrives, CopySame
    <2>2. /\ handler'[h].pc \notin Fresh \cup {"inline", "posting"}
          /\ \A g \in Handlers \ {h} : handler'[g] = handler[g]
      BY <1>1 DEF Arrives, TypeOK, Slot, Fresh
    <2> QED
      BY <2>1, <2>2, CopyKept
  <1>2. ASSUME NEW h \in Handlers, Enqueues(h) PROVE CopyInv'
    <2>1. CopySame
      BY <1>2 DEF Enqueues, CopySame
    <2>2. /\ handler'[h].pc \notin Fresh \cup {"inline", "posting"}
          /\ \A g \in Handlers \ {h} : handler'[g] = handler[g]
      BY <1>2 DEF Enqueues, TypeOK, Slot, Fresh
    <2> QED
      BY <2>1, <2>2, CopyKept
  <1>3. ASSUME NEW h \in Handlers, FallsBack(h) PROVE CopyInv'
    <2>1. CopySame
      BY <1>3 DEF FallsBack, CopySame
    <2>2. /\ \A g \in Handlers \ {h} : handler'[g] = handler[g]
          /\ handler'[h].pc \notin Fresh \cup {"inline", "posting"}
      BY <1>3, MovesEffect DEF FallsBack, Handling, Fresh
    <2> QED
      BY <2>1, <2>2, CopyKept
  <1>4. ASSUME NEW h \in Handlers, SkipsDone(h) PROVE CopyInv'
    <2>1. CopySame
      BY <1>4 DEF SkipsDone, CopySame
    <2>2. /\ \A g \in Handlers \ {h} : handler'[g] = handler[g]
          /\ handler'[h].pc \notin Fresh \cup {"inline", "posting"}
      BY <1>4, LeavesEffect DEF SkipsDone, Handling, Fresh
    <2> QED
      BY <2>1, <2>2, CopyKept
  <1>5. ASSUME NEW h \in Handlers, Checks(h) PROVE CopyInv'
    <2>1. CopySame
      BY <1>5 DEF Checks, CopySame
    <2>2. /\ \A g \in Handlers \ {h} : handler'[g] = handler[g]
          /\ handler'[h].pc \notin Fresh \cup {"inline", "posting"}
      BY <1>5, MovesEffect DEF Checks, Handling, Fresh
    <2> QED
      BY <2>1, <2>2, CopyKept
  <1>6. ASSUME NEW h \in Handlers, SkipsLocked(h) PROVE CopyInv'
    <2>1. CopySame
      BY <1>6 DEF SkipsLocked, CopySame
    <2>2. /\ \A g \in Handlers \ {h} : handler'[g] = handler[g]
          /\ handler'[h].pc \notin Fresh \cup {"inline", "posting"}
      BY <1>6, LeavesEffect DEF SkipsLocked, Handling, Fresh
    <2> QED
      BY <2>1, <2>2, CopyKept
  <1>7. ASSUME NEW h \in Handlers, Locks(h) PROVE CopyInv'
    <2>1. CopySame
      BY <1>7 DEF Locks, CopySame
    <2>2. /\ \A g \in Handlers \ {h} : handler'[g] = handler[g]
          /\ handler'[h].pc \notin Fresh \cup {"inline", "posting"}
      BY <1>7, MovesEffect DEF Locks, Handling, Fresh
    <2> QED
      BY <2>1, <2>2, CopyKept
  <1>8. ASSUME NEW h \in Handlers, MarksDone(h) PROVE CopyInv'
    <2>1. CopySame
      BY <1>8 DEF MarksDone, CopySame
    <2>2. /\ \A g \in Handlers \ {h} : handler'[g] = handler[g]
          /\ handler'[h].pc \notin Fresh \cup {"inline", "posting"}
      BY <1>8, MovesEffect DEF MarksDone, Handling, Fresh
    <2> QED
      BY <2>1, <2>2, CopyKept
  <1>9. ASSUME NEW h \in Handlers, Unlocks(h) PROVE CopyInv'
    <2>1. CopySame
      BY <1>9 DEF Unlocks, CopySame
    <2>2. /\ \A g \in Handlers \ {h} : handler'[g] = handler[g]
          /\ handler'[h].pc \notin Fresh \cup {"inline", "posting"}
      BY <1>9, LeavesEffect DEF Unlocks, Handling, Fresh
    <2> QED
      BY <2>1, <2>2, CopyKept
  <1>10. ASSUME NEW h \in Handlers, UnlocksToRetry(h) PROVE CopyInv'
    <2>1. CopySame
      BY <1>10 DEF UnlocksToRetry, CopySame
    <2>2. /\ handler'[h].pc \notin Fresh \cup {"inline", "posting"}
          /\ \A g \in Handlers \ {h} : handler'[g] = handler[g]
      BY <1>10 DEF UnlocksToRetry, TypeOK, Slot, Fresh
    <2> QED
      BY <2>1, <2>2, CopyKept
  <1>11. ASSUME NEW h \in Handlers, UnlocksToFail(h) PROVE CopyInv'
    <2>1. CopySame
      BY <1>11 DEF UnlocksToFail, CopySame
    <2>2. /\ \A g \in Handlers \ {h} : handler'[g] = handler[g]
          /\ handler'[h].pc \notin Fresh \cup {"inline", "posting"}
      BY <1>11, LeavesEffect DEF UnlocksToFail, Handling, Fresh
    <2> QED
      BY <2>1, <2>2, CopyKept
  <1>12. ASSUME NEW h \in Handlers, Refuses(h) PROVE CopyInv'
    <2>1. CopySame
      BY <1>12 DEF Refuses, CopySame
    <2>2. /\ \A g \in Handlers \ {h} : handler'[g] = handler[g]
          /\ handler'[h].pc \notin Fresh \cup {"inline", "posting"}
      BY <1>12, MovesEffect DEF Refuses, Handling, Fresh
    <2> QED
      BY <2>1, <2>2, CopyKept
  <1>13. ASSUME NEW h \in Handlers, FileFails(h) PROVE CopyInv'
    <2>1. CopySame
      BY <1>13 DEF FileFails, CopySame
    <2>2. /\ \A g \in Handlers \ {h} : handler'[g] = handler[g]
          /\ handler'[h].pc \notin Fresh \cup {"inline", "posting"}
      BY <1>13, MovesEffect DEF FileFails, Handling, Fresh
    <2> QED
      BY <2>1, <2>2, CopyKept
  <1>14. ASSUME NEW h \in Handlers, StoreFails(h) PROVE CopyInv'
    <2>1. CopySame
      BY <1>14 DEF StoreFails, CopySame
    <2>2. /\ \A g \in Handlers \ {h} : handler'[g] = handler[g]
          /\ handler'[h].pc \notin Fresh \cup {"inline", "posting"}
      BY <1>14, MovesEffect DEF StoreFails, Handling, Fresh
    <2> QED
      BY <2>1, <2>2, CopyKept
  <1>15. ASSUME NEW h \in Handlers, FindsRow(h) PROVE CopyInv'
    <2>1. CopySame
      BY <1>15 DEF FindsRow, CopySame
    <2>2. /\ \A g \in Handlers \ {h} : handler'[g] = handler[g]
          /\ handler'[h].pc \notin Fresh \cup {"inline", "posting"}
      BY <1>15, MovesEffect DEF FindsRow, Handling, Fresh
    <2> QED
      BY <2>1, <2>2, CopyKept
  <1>16. ASSUME NEW h \in Handlers, Takes(h) PROVE CopyInv'
    <2>1. CopySame
      BY <1>16, RowOf, CopyNote DEF Takes, Unmarked
    <2>2. /\ \A g \in Handlers \ {h} : handler'[g] = handler[g]
          /\ \/ handler'[h].pc \notin Fresh \cup {"inline", "posting"}
             \/ /\ handler'[h].row = handler[h].row
                /\ handler[h].pc \in Fresh /\ handler'[h].pc \in Fresh
      BY <1>16, MovesEffect DEF Takes, Handling, Fresh
    <2> QED
      BY <2>1, <2>2, CopyKept
  <1>17. ASSUME NEW h \in Handlers, TakeFails(h) PROVE CopyInv'
    <2>1. CopySame
      BY <1>17 DEF TakeFails, CopySame
    <2>2. /\ \A g \in Handlers \ {h} : handler'[g] = handler[g]
          /\ handler'[h].pc \notin Fresh \cup {"inline", "posting"}
      BY <1>17, MovesEffect DEF TakeFails, Handling, Fresh
    <2> QED
      BY <2>1, <2>2, CopyKept
  <1>18. ASSUME NEW h \in Handlers, Delivers(h) PROVE CopyInv'
    <2>1. PICK r \in Rows : handler[h].row = r /\ handler[h].pc = "taken"
      BY <1>18, RowOf DEF Delivers, Unmarked
    <2>2. /\ handler'[h].pc = "telling" /\ handler'[h].row = r
          /\ \A g \in Handlers \ {h} : handler'[g] = handler[g]
      BY <1>18, <2>1, MovesEffect DEF Delivers, Handling
    <2>3. row[r].task = "none" /\ ~row[r].inline
      BY <2>1 DEF CopyInv, Fresh
    <2>4. row[r].stored
      BY <2>1, <2>3 DEF StoredInv, Unmarked
    <2>5. /\ \A q \in Rows \ {r} : row'[q] = row[q]
          /\ row'[r].stored
          /\ row'[r].task = "queued" /\ ~row'[r].inline
          /\ row'[r].copies = row[r].copies
          /\ row'[r].doubts = row[r].doubts
          /\ row'[r].copies \in Nat /\ row'[r].doubts \in Nat
      BY <1>18, <2>1, <2>3, <2>4 DEF Delivers, Notes, TypeOK, RowStates
    <2>6. OfInline(r) = 0
      BY <2>1, <2>3 DEF OfInline, Inlining
    <2>7. OfTask(r)' >= OfTask(r)
      BY <2>3, <2>5, AttemptsAssumption DEF OfTask
    <2>8. /\ row[r].copies <=
               row[r].doubts + OfTask(r) + OfInline(r)
          /\ row[r].copies \in Nat /\ row[r].doubts \in Nat
          /\ OfTask(r) \in {0, MaxAttempts} /\ OfTask(r)' \in {0, MaxAttempts}
      BY <2>1 DEF CopyInv, TypeOK, RowStates, OfTask
    <2>9. handler[h].pc \in Handling /\ handler'[h].pc \notin Fresh
      BY <2>1, <2>2 DEF Handling, Fresh
    <2>10. row'[r].copies <=
              row'[r].doubts + OfTask(r)'
                + (IF /\ row'[r].inline
                      /\ handler'[h].pc \notin {"inline", "posting"} THEN MaxAttempts ELSE 0)
      BY <2>2, <2>5, <2>6, <2>7, <2>8, AttemptsAssumption
    <2>11. handler'[h].pc \in {"inline", "posting"} => row'[r].inline
      BY <2>2, <2>5
    <2> QED
      BY <2>1, <2>2, <2>5, <2>9, <2>10, <2>11, CopyHandler
  <1>19. ASSUME NEW h \in Handlers, DeliversInline(h) PROVE CopyInv'
    <2>1. PICK r \in Rows : handler[h].row = r /\ handler[h].pc = "taken"
      BY <1>19, RowOf DEF DeliversInline, Unmarked
    <2>2. /\ handler'[h].pc = "inline" /\ handler'[h].row = r
          /\ \A g \in Handlers \ {h} : handler'[g] = handler[g]
      BY <1>19, <2>1, MovesEffect DEF DeliversInline, Handling
    <2>3. row[r].task = "none" /\ ~row[r].inline
      BY <2>1 DEF CopyInv, Fresh
    <2>4. row[r].stored
      BY <2>1, <2>3 DEF StoredInv, Unmarked
    <2>5. /\ \A q \in Rows \ {r} : row'[q] = row[q]
          /\ row'[r].stored
          /\ row'[r].task = "none" /\ row'[r].inline
          /\ row'[r].copies = row[r].copies
          /\ row'[r].doubts = row[r].doubts
          /\ row'[r].copies \in Nat /\ row'[r].doubts \in Nat
      BY <1>19, <2>1, <2>3, <2>4 DEF DeliversInline, Notes, TypeOK, RowStates
    <2>6. OfInline(r) = 0
      BY <2>1, <2>3 DEF OfInline, Inlining
    <2>7. OfTask(r)' >= OfTask(r)
      BY <2>3, <2>5, AttemptsAssumption DEF OfTask
    <2>8. /\ row[r].copies <=
               row[r].doubts + OfTask(r) + OfInline(r)
          /\ row[r].copies \in Nat /\ row[r].doubts \in Nat
          /\ OfTask(r) \in {0, MaxAttempts} /\ OfTask(r)' \in {0, MaxAttempts}
      BY <2>1 DEF CopyInv, TypeOK, RowStates, OfTask
    <2>9. handler[h].pc \in Handling /\ handler'[h].pc \notin Fresh
      BY <2>1, <2>2 DEF Handling, Fresh
    <2>10. row'[r].copies <=
              row'[r].doubts + OfTask(r)'
                + (IF /\ row'[r].inline
                      /\ handler'[h].pc \notin {"inline", "posting"} THEN MaxAttempts ELSE 0)
      BY <2>2, <2>5, <2>6, <2>7, <2>8, AttemptsAssumption
    <2>11. handler'[h].pc \in {"inline", "posting"} => row'[r].inline
      BY <2>2, <2>5
    <2> QED
      BY <2>1, <2>2, <2>5, <2>9, <2>10, <2>11, CopyHandler
  <1>20. ASSUME NEW h \in Handlers, DeliversTwice(h) PROVE CopyInv'
    <2>1. PICK r \in Rows : handler[h].row = r /\ handler[h].pc = "taken"
      BY <1>20, RowOf DEF DeliversTwice, Unmarked
    <2>2. /\ handler'[h].pc = "inline" /\ handler'[h].row = r
          /\ \A g \in Handlers \ {h} : handler'[g] = handler[g]
      BY <1>20, <2>1, MovesEffect DEF DeliversTwice, Handling
    <2>3. row[r].task = "none" /\ ~row[r].inline
      BY <2>1 DEF CopyInv, Fresh
    <2>4. row[r].stored
      BY <2>1, <2>3 DEF StoredInv, Unmarked
    <2>5. /\ \A q \in Rows \ {r} : row'[q] = row[q]
          /\ row'[r].stored
          /\ row'[r].task = "queued" /\ row'[r].inline
          /\ row'[r].copies = row[r].copies
          /\ row'[r].doubts = row[r].doubts
          /\ row'[r].copies \in Nat /\ row'[r].doubts \in Nat
      BY <1>20, <2>1, <2>3, <2>4 DEF DeliversTwice, Notes, TypeOK, RowStates
    <2>6. OfInline(r) = 0
      BY <2>1, <2>3 DEF OfInline, Inlining
    <2>7. OfTask(r)' >= OfTask(r)
      BY <2>3, <2>5, AttemptsAssumption DEF OfTask
    <2>8. /\ row[r].copies <=
               row[r].doubts + OfTask(r) + OfInline(r)
          /\ row[r].copies \in Nat /\ row[r].doubts \in Nat
          /\ OfTask(r) \in {0, MaxAttempts} /\ OfTask(r)' \in {0, MaxAttempts}
      BY <2>1 DEF CopyInv, TypeOK, RowStates, OfTask
    <2>9. handler[h].pc \in Handling /\ handler'[h].pc \notin Fresh
      BY <2>1, <2>2 DEF Handling, Fresh
    <2>10. row'[r].copies <=
              row'[r].doubts + OfTask(r)'
                + (IF /\ row'[r].inline
                      /\ handler'[h].pc \notin {"inline", "posting"} THEN MaxAttempts ELSE 0)
      BY <2>2, <2>5, <2>6, <2>7, <2>8, AttemptsAssumption
    <2>11. handler'[h].pc \in {"inline", "posting"} => row'[r].inline
      BY <2>2, <2>5
    <2> QED
      BY <2>1, <2>2, <2>5, <2>9, <2>10, <2>11, CopyHandler
  <1>21. ASSUME NEW h \in Handlers, Tells(h) PROVE CopyInv'
    <2>1. CopySame
      BY <1>21, RowOf, CopyNote DEF Tells, Unmarked
    <2>2. /\ \A g \in Handlers \ {h} : handler'[g] = handler[g]
          /\ handler'[h].pc \notin Fresh \cup {"inline", "posting"}
      BY <1>21, MovesEffect DEF Tells, Handling, Fresh
    <2> QED
      BY <2>1, <2>2, CopyKept
  <1>22. ASSUME NEW h \in Handlers, InlineSkips(h) PROVE CopyInv'
    <2>1. CopySame
      BY <1>22 DEF InlineSkips, CopySame
    <2>2. /\ \A g \in Handlers \ {h} : handler'[g] = handler[g]
          /\ handler'[h].pc \notin Fresh \cup {"inline", "posting"}
      BY <1>22, MovesEffect DEF InlineSkips, Handling, Fresh
    <2> QED
      BY <2>1, <2>2, CopyKept
  <1>23. ASSUME NEW h \in Handlers, InlineReads(h) PROVE CopyInv'
    <2>1. CopySame
      BY <1>23 DEF InlineReads, CopySame
    <2>2. /\ \A g \in Handlers \ {h} : handler'[g] = handler[g]
          /\ handler'[h].row = handler[h].row
          /\ handler[h].pc \in {"inline", "posting"} /\ handler'[h].pc \in {"inline", "posting"}
      BY <1>23, MovesEffect DEF InlineReads, Handling, Fresh
    <2> QED
      BY <2>1, <2>2, CopyKept
  <1>24. ASSUME NEW h \in Handlers, InlineUnconfigured(h) PROVE CopyInv'
    <2>1. CopySame
      BY <1>24, RowOf, CopyNote DEF InlineUnconfigured, Unmarked
    <2>2. /\ \A g \in Handlers \ {h} : handler'[g] = handler[g]
          /\ handler'[h].pc \notin Fresh \cup {"inline", "posting"}
      BY <1>24, MovesEffect DEF InlineUnconfigured, Handling, Fresh
    <2> QED
      BY <2>1, <2>2, CopyKept
  <1>25. ASSUME NEW h \in Handlers, InlinePosts(h) PROVE CopyInv'
    <2>1. PICK r \in Rows : handler[h].row = r /\ handler[h].pc = "posting"
      BY <1>25, RowOf, InlinePostsEffect
         DEF Unmarked, RowFrame, TallySame, Shows, Doubts
    <2>2. /\ handler'[h].pc = "posted" /\ handler'[h].row = r
          /\ \A g \in Handlers \ {h} : handler'[g] = handler[g]
      BY <1>25, <2>1, MovesEffect, InlinePostsEffect
         DEF Handling, RowFrame, TallySame, Shows, Doubts
    <2>3. row[r].inline
      BY <2>1 DEF CopyInv, Fresh
    <2>4. row[r].stored
      BY <2>1, <2>3 DEF StoredInv, Unmarked
    <2>5. /\ \A q \in Rows \ {r} : row'[q] = row[q]
          /\ row'[r].stored
          /\ row'[r].task = row[r].task /\ row'[r].inline
          /\ row[r].copies <= row'[r].copies
          /\ row'[r].copies <= row[r].copies + MaxAttempts
          /\ row'[r].doubts = row[r].doubts
          /\ row'[r].copies \in Nat /\ row'[r].doubts \in Nat
      <3>1. row' \in [Rows -> RowStates] /\ RowFrame(r) /\ Shows(r) /\ row'[r].task = row[r].task
        BY <1>25, <2>1, InlinePostsEffect DEF RowFrame
      <3>2. row[r].copies \in Nat /\ row'[r] \in RowStates
        BY <3>1 DEF TypeOK, RowStates
      <3> QED
        BY <2>3, <2>4, <3>1, <3>2 DEF RowStates, RowFrame, Shows
    <2>6. OfInline(r) = 0
      BY <2>1, <2>3 DEF OfInline, Inlining
    <2>7. OfTask(r)' >= OfTask(r)
      BY <2>3, <2>5, AttemptsAssumption DEF OfTask
    <2>8. /\ row[r].copies <=
               row[r].doubts + OfTask(r) + OfInline(r)
          /\ row[r].copies \in Nat /\ row[r].doubts \in Nat
          /\ OfTask(r) \in {0, MaxAttempts} /\ OfTask(r)' \in {0, MaxAttempts}
      BY <2>1 DEF CopyInv, TypeOK, RowStates, OfTask
    <2>9. handler[h].pc \in Handling /\ handler'[h].pc \notin Fresh
      BY <2>1, <2>2 DEF Handling, Fresh
    <2>10. row'[r].copies <=
              row'[r].doubts + OfTask(r)'
                + (IF /\ row'[r].inline
                      /\ handler'[h].pc \notin {"inline", "posting"} THEN MaxAttempts ELSE 0)
      BY <2>2, <2>5, <2>6, <2>7, <2>8, AttemptsAssumption
    <2>11. handler'[h].pc \in {"inline", "posting"} => row'[r].inline
      BY <2>2, <2>5
    <2> QED
      BY <2>1, <2>2, <2>5, <2>9, <2>10, <2>11, CopyHandler
  <1>26. ASSUME NEW h \in Handlers, InlineNumbers(h) PROVE CopyInv'
    <2>1. CopySame
      BY <1>26, RowOf, CopyNote DEF InlineNumbers, Unmarked
    <2>2. /\ \A g \in Handlers \ {h} : handler'[g] = handler[g]
          /\ handler'[h].pc \notin Fresh \cup {"inline", "posting"}
      BY <1>26, MovesEffect DEF InlineNumbers, Handling, Fresh
    <2> QED
      BY <2>1, <2>2, CopyKept
  <1>27. ASSUME NEW h \in Handlers, InlineFails(h) PROVE CopyInv'
    <2>1. PICK r \in Rows : handler[h].row = r /\ handler[h].pc = "posting"
      BY <1>27, RowOf, InlineFailsEffect
         DEF Unmarked, RowFrame, TallySame, Shows, Doubts
    <2>2. /\ handler'[h].pc = "failing" /\ handler'[h].row = r
          /\ \A g \in Handlers \ {h} : handler'[g] = handler[g]
      BY <1>27, <2>1, MovesEffect, InlineFailsEffect
         DEF Handling, RowFrame, TallySame, Shows, Doubts
    <2>3. row[r].inline
      BY <2>1 DEF CopyInv, Fresh
    <2>4. row[r].stored
      BY <2>1, <2>3 DEF StoredInv, Unmarked
    <2>5. /\ \A q \in Rows \ {r} : row'[q] = row[q]
          /\ row'[r].stored
          /\ row'[r].task = row[r].task /\ row'[r].inline
          /\ row'[r].copies - row'[r].doubts
               = row[r].copies - row[r].doubts
          /\ row'[r].copies \in Nat /\ row'[r].doubts \in Nat
      <3>1. row' \in [Rows -> RowStates] /\ RowFrame(r) /\ Doubts(r) /\ row'[r].task = row[r].task
        BY <1>27, <2>1, InlineFailsEffect DEF RowFrame
      <3> QED
        BY <2>3, <2>4, <3>1 DEF RowStates, RowFrame, Doubts
    <2>6. OfInline(r) = 0
      BY <2>1, <2>3 DEF OfInline, Inlining
    <2>7. OfTask(r)' >= OfTask(r)
      BY <2>3, <2>5, AttemptsAssumption DEF OfTask
    <2>8. /\ row[r].copies <=
               row[r].doubts + OfTask(r) + OfInline(r)
          /\ row[r].copies \in Nat /\ row[r].doubts \in Nat
          /\ OfTask(r) \in {0, MaxAttempts} /\ OfTask(r)' \in {0, MaxAttempts}
      BY <2>1 DEF CopyInv, TypeOK, RowStates, OfTask
    <2>9. handler[h].pc \in Handling /\ handler'[h].pc \notin Fresh
      BY <2>1, <2>2 DEF Handling, Fresh
    <2>10. row'[r].copies <=
              row'[r].doubts + OfTask(r)'
                + (IF /\ row'[r].inline
                      /\ handler'[h].pc \notin {"inline", "posting"} THEN MaxAttempts ELSE 0)
      BY <2>2, <2>5, <2>6, <2>7, <2>8, AttemptsAssumption
    <2>11. handler'[h].pc \in {"inline", "posting"} => row'[r].inline
      BY <2>2, <2>5
    <2> QED
      BY <2>1, <2>2, <2>5, <2>9, <2>10, <2>11, CopyHandler
  <1>28. ASSUME NEW h \in Handlers, NEW g \in Handlers, FallsBackBeside(h, g) PROVE CopyInv'
    <2>1. CopySame
      BY <1>28 DEF FallsBackBeside, CopySame
    <2>2. /\ handler'[h].pc = "queued" /\ handler'[g].pc = "queued"
          /\ \A f \in Handlers \ {h, g} : handler'[f] = handler[f]
      BY <1>28, FreshTypes DEF FallsBackBeside, TypeOK
    <2>3. \A f \in Handlers :
            handler'[f] = handler[f] \/ handler'[f].pc \notin Fresh \cup {"inline", "posting"}
      BY <2>2 DEF Fresh
    <2> QED
      BY <2>1, <2>3, CopyKept
  <1>29. ASSUME NEW h \in Handlers, NEW r \in Rows, Stores(h, r) PROVE CopyInv'
    <2>1. /\ handler[h].pc = "handling" /\ r \notin Stored
          /\ handler'[h].pc = "stored" /\ handler'[h].row = r
          /\ \A g \in Handlers \ {h} : handler'[g] = handler[g]
      BY <1>29 DEF Stores, TypeOK, HandlerStates, Rows
    <2>2. /\ CopySameBut(r)
      BY <1>29 DEF Stores, Notes, TypeOK, RowStates, CopySameBut
    <2>3. row[r].task = "none" /\ ~row[r].inline
      BY <2>1 DEF CopyInv, Stored
    <2>4. row[r].copies <= row[r].doubts + OfTask(r) + OfInline(r)
      BY DEF CopyInv
    <2>5. \A g \in Handlers \ {h} : handler[g].pc \notin Handling
      BY <2>1 DEF LockInv, Handling
    <2>6. \A q \in Rows : Inlining(q)' <=> Inlining(q)
      BY <2>1 DEF Inlining
    <2>7. \A q \in Rows : OfInline(q)' = OfInline(q) /\ OfTask(q)' = OfTask(q)
      BY <2>2, <2>6 DEF OfInline, OfTask, CopySameBut
    <2>8. \A q \in Rows : row'[q].copies <= row'[q].doubts + OfTask(q)' + OfInline(q)'
      BY <2>2, <2>7 DEF CopyInv, CopySameBut
    <2>9. \A g \in Handlers \ {h} : handler'[g].pc \notin Fresh \cup {"inline", "posting"}
      BY <2>1, <2>5 DEF Fresh, Handling
    <2>10. \A q \in Rows : ~row'[q].stored => row'[q].task = "none" /\ ~row'[q].inline
      BY <2>2 DEF CopyInv, CopySameBut
    <2> QED
      BY <2>1, <2>2, <2>3, <2>8, <2>9, <2>10 DEF CopyInv, CopySameBut, Fresh
  <1>30. ASSUME NEW h \in Handlers, HandlerDies(h) PROVE CopyInv'
    <2>1. CopySame
      BY <1>30 DEF HandlerDies, CopySame
    <2>2. /\ \A g \in Handlers \ {h} : handler'[g] = handler[g]
          /\ handler'[h].pc \notin Fresh \cup {"inline", "posting"}
      BY <1>30, LeavesEffect DEF HandlerDies, Fresh
    <2> QED
      BY <2>1, <2>2, CopyKept
  <1>31. ASSUME NEW h \in Handlers, UpdateLost(h) PROVE CopyInv'
    <2>1. CopySame
      BY <1>31 DEF UpdateLost, CopySame
    <2>2. /\ \A g \in Handlers \ {h} : handler'[g] = handler[g]
          /\ handler'[h].pc \notin Fresh \cup {"inline", "posting"}
      BY <1>31, LeavesEffect DEF UpdateLost, Fresh
    <2> QED
      BY <2>1, <2>2, CopyKept
  <1>32. ASSUME NEW r \in Rows,
                \/ DeliverSkips(r) \/ DeliverReads(r)
                \/ DeliverUnconfigured(r) \/ DeliverPosts(r)
                \/ DeliverNumbers(r) \/ DeliverFails(r) \/ DeliverDies(r)
                \/ DeliverLost(r)
         PROVE  CopyInv'
    <2>1. /\ UNCHANGED handler /\ row[r].task # "none"
          /\ \A q \in Rows \ {r} : row'[q] = row[q]
          /\ row'[r].stored = row[r].stored /\ row'[r].inline = row[r].inline
      BY <1>32, DeliverPostsEffect, DeliverFailsEffect
         DEF DeliverSkips, DeliverReads, DeliverUnconfigured, DeliverNumbers,
             DeliverDies, DeliverLost, Notes, TypeOK, RowStates, RowFrame, TallySame,
             Shows, Doubts
    <2>2. OfInline(r) \in {0, MaxAttempts}
      BY DEF OfInline
    <2>3. row[r].copies <= row[r].doubts + OfTask(r) + OfInline(r)
      BY DEF CopyInv
    <2>4. /\ row[r].copies \in Nat /\ row[r].doubts \in Nat /\ MaxAttempts \in Nat
          /\ row[r].task \in {"queued", "posting"} => OfTask(r) = 0
      BY AttemptsAssumption DEF TypeOK, RowStates, OfTask
    <2>5. row'[r].copies <= row'[r].doubts + OfTask(r)' + OfInline(r)
      <3>1. CASE DeliverPosts(r)
        <4>1. /\ row'[r].copies <= row[r].copies + MaxAttempts
              /\ row'[r].doubts = row[r].doubts /\ row'[r].task = "posted"
              /\ row[r].task = "posting" /\ row' \in [Rows -> RowStates]
          BY <3>1, DeliverPostsEffect DEF Shows, RowFrame
        <4>2. OfTask(r) = 0 /\ OfTask(r)' = MaxAttempts /\ row'[r].copies \in Nat
          BY <2>4, <4>1 DEF OfTask, RowStates
        <4> QED
          BY <2>2, <2>3, <2>4, <4>1, <4>2
      <3>2. CASE DeliverFails(r)
        <4>1. /\ row'[r].copies - row'[r].doubts = row[r].copies - row[r].doubts
              /\ row[r].task = "posting" /\ row' \in [Rows -> RowStates]
          BY <3>2, DeliverFailsEffect DEF Doubts, RowFrame
        <4>2. /\ OfTask(r) = 0 /\ OfTask(r)' \in {0, MaxAttempts}
              /\ row'[r].copies \in Nat /\ row'[r].doubts \in Nat
          BY <2>4, <4>1 DEF OfTask, RowStates
        <4> QED
          BY <2>2, <2>3, <2>4, <4>1, <4>2
      <3>3. CASE ~DeliverPosts(r) /\ ~DeliverFails(r)
        <4>1. row'[r].copies = row[r].copies /\ row'[r].doubts = row[r].doubts
          BY <1>32, <3>3
             DEF DeliverSkips, DeliverReads, DeliverUnconfigured, DeliverNumbers,
                 DeliverDies, DeliverLost, Notes, TypeOK, RowStates
        <4>2. OfTask(r)' >= OfTask(r)
          BY <1>32, <2>4, <3>3
             DEF DeliverSkips, DeliverReads, DeliverUnconfigured, DeliverNumbers,
                 DeliverDies, DeliverLost, Notes, TypeOK, RowStates, OfTask
        <4>3. OfTask(r) \in {0, MaxAttempts} /\ OfTask(r)' \in {0, MaxAttempts}
          BY DEF OfTask
        <4> QED
          BY <2>2, <2>3, <2>4, <4>1, <4>2, <4>3
      <3> QED
        BY <3>1, <3>2, <3>3
    <2> QED
      BY <2>1, <2>5, CopyTask
  <1>33. ASSUME LockExpires PROVE CopyInv'
    <2>1. CopySame /\ UNCHANGED handler
      BY <1>33 DEF LockExpires, CopySame
    <2> QED
      BY <2>1, CopyKept
  <1>34. ASSUME UNCHANGED vars PROVE CopyInv'
    <2>1. CopySame /\ UNCHANGED handler
      BY <1>34 DEF vars, CopySame
    <2> QED
      BY <2>1, CopyKept
  <1> QED
    BY <1>1, <1>2, <1>3, <1>4, <1>5, <1>6, <1>7, <1>8, <1>9, <1>10, <1>11,
       <1>12, <1>13, <1>14, <1>15, <1>16, <1>17, <1>18, <1>19, <1>20, <1>21,
       <1>22, <1>23, <1>24, <1>25, <1>26, <1>27, <1>28, <1>29, <1>30, <1>31,
       <1>32, <1>33, <1>34
       DEF Next, Handle, Deliver, Failure

-----------------------------------------------------------------------------
(* What the manager is told                                                *)

\* The delivery of a row is under way, has been shown, or is known to fail.
Reached(r) ==
    \/ row[r].copies > 0 \/ row[r].dropped
    \/ row[r].task \in Underway \cup {"lost"}

ToldInv ==
    /\ \A h \in Handlers : handler[h].pc = "posted" => row[handler[h].row].copies > 0
    /\ \A h \in Handlers : handler[h].pc = "telling" => Reached(handler[h].row)
    /\ \A r \in Rows : row[r].numbered => row[r].copies > 0
    /\ \A r \in Rows : row[r].task = "posted" => row[r].copies > 0
    /\ \A r \in Rows : row[r].task = "over" => row[r].copies > 0 \/ row[r].dropped
    /\ \A r \in Rows : row[r].told => Reached(r)

LEMMA ToldNote ==
    ASSUME TypeOK, NEW r \in Rows, NEW field \in {"stored", "taken"},
           NEW value, Notes(r, field, value)
    PROVE  \A q \in Rows :
              /\ row'[q].copies = row[q].copies /\ row'[q].dropped = row[q].dropped
              /\ row'[q].task = row[q].task
              /\ row'[q].told = row[q].told /\ row'[q].numbered = row[q].numbered
  BY DEF TypeOK, RowStates, Notes

\* Whatever a step does to the rows, it takes back no copy and loses no task
\* without a trace.
LEMMA ToldKept ==
    ASSUME TypeOK, ToldInv,
           \A r \in Rows :
              /\ row[r].copies > 0 => row'[r].copies > 0
              /\ row[r].dropped => row'[r].dropped
              /\ row'[r].numbered => row[r].numbered \/ row'[r].copies > 0
              /\ row'[r].task = "posted" => row[r].task = "posted" \/ row'[r].copies > 0
              /\ row'[r].task = "over" =>
                   row[r].task = "over" \/ row'[r].copies > 0 \/ row'[r].dropped
              /\ row[r].task \in Underway \cup {"lost"} =>
                   \/ row'[r].task \in Underway \cup {"lost"}
                   \/ row'[r].copies > 0 \/ row'[r].dropped
              /\ row'[r].told => row[r].told \/ Reached(r),
           \A h \in Handlers :
              \/ handler'[h] = handler[h]
              \/ handler'[h].pc \notin {"posted", "telling"}
              \/ /\ handler'[h].row \in Rows
                 /\ handler'[h].pc = "posted" => row'[handler'[h].row].copies > 0
                 /\ handler'[h].pc = "telling" =>
                      \/ row'[handler'[h].row].copies > 0 \/ row'[handler'[h].row].dropped
                      \/ row'[handler'[h].row].task \in Underway \cup {"lost"}
    PROVE  ToldInv'
  <1>1. \A r \in Rows : Reached(r) => Reached(r)'
    BY DEF Reached
  <1>2. \A h \in Handlers : handler[h].pc \in {"posted", "telling"} => handler[h].row \in Rows
    BY RowOf DEF Unmarked
  <1>3. \A h \in Handlers : handler'[h].pc = "posted" => row'[handler'[h].row].copies > 0
    BY <1>2 DEF ToldInv
  <1>4. ASSUME NEW h \in Handlers, handler'[h].pc = "telling"
        PROVE  Reached(handler[h].row)'
    <2>1. CASE handler'[h] = handler[h]
      <3>1. handler[h].row \in Rows /\ Reached(handler[h].row)
        BY <1>2, <1>4, <2>1 DEF ToldInv
      <3> QED
        BY <1>1, <2>1, <3>1 DEF Reached
    <2>2. CASE handler'[h] # handler[h]
      BY <1>4, <2>2 DEF Reached
    <2> QED
      BY <2>1, <2>2
  <1>5. /\ \A r \in Rows : row'[r].numbered => row'[r].copies > 0
        /\ \A r \in Rows : row'[r].task = "posted" => row'[r].copies > 0
        /\ \A r \in Rows : row'[r].task = "over" => row'[r].copies > 0 \/ row'[r].dropped
    BY DEF ToldInv
  <1>6. \A r \in Rows : row'[r].told => Reached(r)'
    BY <1>1 DEF ToldInv
  <1> QED
    BY <1>3, <1>4, <1>5, <1>6 DEF ToldInv

LEMMA ToldStep ==
    ASSUME TypeOK, ToldInv, [Next]_vars
    PROVE  ToldInv'
  <1>1. ASSUME NEW h \in Handlers, Arrives(h) PROVE ToldInv'
    <2>1. /\ handler'[h].pc \notin {"posted", "telling"} /\ UNCHANGED row
          /\ \A g \in Handlers \ {h} : handler'[g] = handler[g]
      BY <1>1 DEF Arrives, TypeOK, Slot
    <2> QED
      BY <2>1, ToldKept
  <1>2. ASSUME NEW h \in Handlers, Enqueues(h) PROVE ToldInv'
    <2>1. /\ handler'[h].pc \notin {"posted", "telling"} /\ UNCHANGED row
          /\ \A g \in Handlers \ {h} : handler'[g] = handler[g]
      BY <1>2 DEF Enqueues, TypeOK, Slot
    <2> QED
      BY <2>1, ToldKept
  <1>3. ASSUME NEW h \in Handlers, FallsBack(h) PROVE ToldInv'
    <2>1. /\ handler'[h].pc \notin {"posted", "telling"} /\ UNCHANGED row
          /\ \A g \in Handlers \ {h} : handler'[g] = handler[g]
      BY <1>3, MovesEffect DEF FallsBack, Handling
    <2> QED
      BY <2>1, ToldKept
  <1>4. ASSUME NEW h \in Handlers, SkipsDone(h) PROVE ToldInv'
    <2>1. /\ handler'[h].pc \notin {"posted", "telling"} /\ UNCHANGED row
          /\ \A g \in Handlers \ {h} : handler'[g] = handler[g]
      BY <1>4, LeavesEffect DEF SkipsDone, Handling
    <2> QED
      BY <2>1, ToldKept
  <1>5. ASSUME NEW h \in Handlers, Checks(h) PROVE ToldInv'
    <2>1. /\ handler'[h].pc \notin {"posted", "telling"} /\ UNCHANGED row
          /\ \A g \in Handlers \ {h} : handler'[g] = handler[g]
      BY <1>5, MovesEffect DEF Checks, Handling
    <2> QED
      BY <2>1, ToldKept
  <1>6. ASSUME NEW h \in Handlers, SkipsLocked(h) PROVE ToldInv'
    <2>1. /\ handler'[h].pc \notin {"posted", "telling"} /\ UNCHANGED row
          /\ \A g \in Handlers \ {h} : handler'[g] = handler[g]
      BY <1>6, LeavesEffect DEF SkipsLocked, Handling
    <2> QED
      BY <2>1, ToldKept
  <1>7. ASSUME NEW h \in Handlers, Locks(h) PROVE ToldInv'
    <2>1. /\ handler'[h].pc \notin {"posted", "telling"} /\ UNCHANGED row
          /\ \A g \in Handlers \ {h} : handler'[g] = handler[g]
      BY <1>7, MovesEffect DEF Locks, Handling
    <2> QED
      BY <2>1, ToldKept
  <1>8. ASSUME NEW h \in Handlers, MarksDone(h) PROVE ToldInv'
    <2>1. /\ handler'[h].pc \notin {"posted", "telling"} /\ UNCHANGED row
          /\ \A g \in Handlers \ {h} : handler'[g] = handler[g]
      BY <1>8, MovesEffect DEF MarksDone, Handling
    <2> QED
      BY <2>1, ToldKept
  <1>9. ASSUME NEW h \in Handlers, Unlocks(h) PROVE ToldInv'
    <2>1. /\ handler'[h].pc \notin {"posted", "telling"} /\ UNCHANGED row
          /\ \A g \in Handlers \ {h} : handler'[g] = handler[g]
      BY <1>9, LeavesEffect DEF Unlocks, Handling
    <2> QED
      BY <2>1, ToldKept
  <1>10. ASSUME NEW h \in Handlers, UnlocksToRetry(h) PROVE ToldInv'
    <2>1. /\ handler'[h].pc \notin {"posted", "telling"} /\ UNCHANGED row
          /\ \A g \in Handlers \ {h} : handler'[g] = handler[g]
      BY <1>10 DEF UnlocksToRetry, TypeOK, Slot
    <2> QED
      BY <2>1, ToldKept
  <1>11. ASSUME NEW h \in Handlers, UnlocksToFail(h) PROVE ToldInv'
    <2>1. /\ handler'[h].pc \notin {"posted", "telling"} /\ UNCHANGED row
          /\ \A g \in Handlers \ {h} : handler'[g] = handler[g]
      BY <1>11, LeavesEffect DEF UnlocksToFail, Handling
    <2> QED
      BY <2>1, ToldKept
  <1>12. ASSUME NEW h \in Handlers, Refuses(h) PROVE ToldInv'
    <2>1. /\ handler'[h].pc \notin {"posted", "telling"} /\ UNCHANGED row
          /\ \A g \in Handlers \ {h} : handler'[g] = handler[g]
      BY <1>12, MovesEffect DEF Refuses, Handling
    <2> QED
      BY <2>1, ToldKept
  <1>13. ASSUME NEW h \in Handlers, FileFails(h) PROVE ToldInv'
    <2>1. /\ handler'[h].pc \notin {"posted", "telling"} /\ UNCHANGED row
          /\ \A g \in Handlers \ {h} : handler'[g] = handler[g]
      BY <1>13, MovesEffect DEF FileFails, Handling
    <2> QED
      BY <2>1, ToldKept
  <1>14. ASSUME NEW h \in Handlers, StoreFails(h) PROVE ToldInv'
    <2>1. /\ handler'[h].pc \notin {"posted", "telling"} /\ UNCHANGED row
          /\ \A g \in Handlers \ {h} : handler'[g] = handler[g]
      BY <1>14, MovesEffect DEF StoreFails, Handling
    <2> QED
      BY <2>1, ToldKept
  <1>15. ASSUME NEW h \in Handlers, FindsRow(h) PROVE ToldInv'
    <2>1. /\ handler'[h].pc \notin {"posted", "telling"} /\ UNCHANGED row
          /\ \A g \in Handlers \ {h} : handler'[g] = handler[g]
      BY <1>15, MovesEffect DEF FindsRow, Handling
    <2> QED
      BY <2>1, ToldKept
  <1>16. ASSUME NEW h \in Handlers, Takes(h) PROVE ToldInv'
    <2>1. /\ handler'[h].pc \notin {"posted", "telling"}
          /\ \A g \in Handlers \ {h} : handler'[g] = handler[g]
      BY <1>16, MovesEffect DEF Takes, Handling
    <2>2. \A q \in Rows :
              /\ row'[q].copies = row[q].copies /\ row'[q].dropped = row[q].dropped
              /\ row'[q].task = row[q].task
              /\ row'[q].told = row[q].told /\ row'[q].numbered = row[q].numbered
      BY <1>16, RowOf, ToldNote DEF Takes, Unmarked
    <2> QED
      BY <2>1, <2>2, ToldKept
  <1>17. ASSUME NEW h \in Handlers, TakeFails(h) PROVE ToldInv'
    <2>1. /\ handler'[h].pc \notin {"posted", "telling"} /\ UNCHANGED row
          /\ \A g \in Handlers \ {h} : handler'[g] = handler[g]
      BY <1>17, MovesEffect DEF TakeFails, Handling
    <2> QED
      BY <2>1, ToldKept
  <1>18. ASSUME NEW h \in Handlers, Delivers(h) PROVE ToldInv'
    <2>1. PICK r \in Rows : handler[h].row = r /\ handler[h].pc = "taken"
      BY <1>18, RowOf DEF Delivers, Unmarked
    <2>2. /\ handler'[h].pc = "telling" /\ handler'[h].row = r
          /\ \A g \in Handlers \ {h} : handler'[g] = handler[g]
      BY <1>18, <2>1, MovesEffect DEF Delivers, Handling
    <2>3. /\ \A q \in Rows \ {r} : row'[q] = row[q]
          /\ row'[r].copies = row[r].copies
          /\ row'[r].dropped = row[r].dropped
          /\ row'[r].task = "queued"
          /\ row'[r].told = row[r].told
          /\ row'[r].numbered = row[r].numbered
      BY <1>18, <2>1 DEF Delivers, Notes, TypeOK, RowStates
    <2> QED
      BY <2>1, <2>2, <2>3, ToldKept DEF Underway
  <1>19. ASSUME NEW h \in Handlers, DeliversInline(h) PROVE ToldInv'
    <2>1. PICK r \in Rows : handler[h].row = r /\ handler[h].pc = "taken"
      BY <1>19, RowOf DEF DeliversInline, Unmarked
    <2>2. /\ handler'[h].pc = "inline" /\ handler'[h].row = r
          /\ \A g \in Handlers \ {h} : handler'[g] = handler[g]
      BY <1>19, <2>1, MovesEffect DEF DeliversInline, Handling
    <2>3. /\ \A q \in Rows \ {r} : row'[q] = row[q]
          /\ row'[r].copies = row[r].copies
          /\ row'[r].dropped = row[r].dropped
          /\ row'[r].task = row[r].task
          /\ row'[r].told = row[r].told
          /\ row'[r].numbered = row[r].numbered
      BY <1>19, <2>1 DEF DeliversInline, Notes, TypeOK, RowStates
    <2> QED
      BY <2>1, <2>2, <2>3, ToldKept DEF Underway
  <1>20. ASSUME NEW h \in Handlers, DeliversTwice(h) PROVE ToldInv'
    <2>1. PICK r \in Rows : handler[h].row = r /\ handler[h].pc = "taken"
      BY <1>20, RowOf DEF DeliversTwice, Unmarked
    <2>2. /\ handler'[h].pc = "inline" /\ handler'[h].row = r
          /\ \A g \in Handlers \ {h} : handler'[g] = handler[g]
      BY <1>20, <2>1, MovesEffect DEF DeliversTwice, Handling
    <2>3. /\ \A q \in Rows \ {r} : row'[q] = row[q]
          /\ row'[r].copies = row[r].copies
          /\ row'[r].dropped = row[r].dropped
          /\ row'[r].task = "queued"
          /\ row'[r].told = row[r].told
          /\ row'[r].numbered = row[r].numbered
      BY <1>20, <2>1 DEF DeliversTwice, Notes, TypeOK, RowStates
    <2> QED
      BY <2>1, <2>2, <2>3, ToldKept DEF Underway
  <1>21. ASSUME NEW h \in Handlers, Tells(h) PROVE ToldInv'
    <2>1. PICK r \in Rows : handler[h].row = r /\ handler[h].pc = "telling"
      BY <1>21, RowOf DEF Tells, Unmarked
    <2>2. /\ handler'[h].pc = "finished" /\ handler'[h].row = r
          /\ \A g \in Handlers \ {h} : handler'[g] = handler[g]
      BY <1>21, <2>1, MovesEffect DEF Tells, Handling
    <2>3. /\ \A q \in Rows \ {r} : row'[q] = row[q]
          /\ row'[r].copies = row[r].copies
          /\ row'[r].dropped = row[r].dropped
          /\ row'[r].task = row[r].task
          /\ Reached(r)
          /\ row'[r].numbered = row[r].numbered
      BY <1>21, <2>1 DEF Tells, Notes, TypeOK, RowStates, ToldInv
    <2> QED
      BY <2>1, <2>2, <2>3, ToldKept DEF Underway
  <1>22. ASSUME NEW h \in Handlers, InlineSkips(h) PROVE ToldInv'
    <2>1. PICK r \in Rows : handler[h].row = r /\ row[r].copies > 0
      BY <1>22, RowOf DEF InlineSkips, Unmarked, ToldInv
    <2>2. /\ handler'[h].pc = "telling" /\ handler'[h].row = r /\ UNCHANGED row
          /\ \A g \in Handlers \ {h} : handler'[g] = handler[g]
      BY <1>22, <2>1, MovesEffect DEF InlineSkips, Handling
    <2> QED
      BY <2>1, <2>2, ToldKept
  <1>23. ASSUME NEW h \in Handlers, InlineReads(h) PROVE ToldInv'
    <2>1. /\ handler'[h].pc \notin {"posted", "telling"} /\ UNCHANGED row
          /\ \A g \in Handlers \ {h} : handler'[g] = handler[g]
      BY <1>23, MovesEffect DEF InlineReads, Handling
    <2> QED
      BY <2>1, ToldKept
  <1>24. ASSUME NEW h \in Handlers, InlineUnconfigured(h) PROVE ToldInv'
    <2>1. PICK r \in Rows : handler[h].row = r /\ handler[h].pc = "posting"
      BY <1>24, RowOf DEF InlineUnconfigured, Unmarked
    <2>2. /\ handler'[h].pc = "telling" /\ handler'[h].row = r
          /\ \A g \in Handlers \ {h} : handler'[g] = handler[g]
      BY <1>24, <2>1, MovesEffect DEF InlineUnconfigured, Handling
    <2>3. /\ \A q \in Rows \ {r} : row'[q] = row[q]
          /\ row'[r].copies = row[r].copies
          /\ row'[r].dropped
          /\ row'[r].task = row[r].task
          /\ row'[r].told = row[r].told
          /\ row'[r].numbered = row[r].numbered
      BY <1>24, <2>1 DEF InlineUnconfigured, Notes, TypeOK, RowStates
    <2> QED
      BY <2>1, <2>2, <2>3, ToldKept DEF Underway
  <1>25. ASSUME NEW h \in Handlers, InlinePosts(h) PROVE ToldInv'
    <2>1. PICK r \in Rows : handler[h].row = r /\ handler[h].pc = "posting"
      BY <1>25, RowOf, InlinePostsEffect
         DEF Unmarked, RowFrame, TallySame, Shows, Doubts
    <2>2. /\ handler'[h].pc = "posted" /\ handler'[h].row = r
          /\ \A g \in Handlers \ {h} : handler'[g] = handler[g]
      BY <1>25, <2>1, MovesEffect, InlinePostsEffect
         DEF Handling, RowFrame, TallySame, Shows, Doubts
    <2>3. /\ \A q \in Rows \ {r} : row'[q] = row[q]
          /\ row'[r].copies > 0
          /\ row'[r].dropped = row[r].dropped
          /\ row'[r].task = row[r].task
          /\ row'[r].told = row[r].told
          /\ row'[r].numbered = row[r].numbered
      BY <1>25, <2>1, InlinePostsEffect DEF TypeOK, RowStates, RowFrame, Shows
    <2> QED
      BY <2>1, <2>2, <2>3, ToldKept DEF Underway
  <1>26. ASSUME NEW h \in Handlers, InlineNumbers(h) PROVE ToldInv'
    <2>1. PICK r \in Rows : handler[h].row = r /\ handler[h].pc = "posted"
      BY <1>26, RowOf DEF InlineNumbers, Unmarked
    <2>2. /\ handler'[h].pc = "telling" /\ handler'[h].row = r
          /\ \A g \in Handlers \ {h} : handler'[g] = handler[g]
      BY <1>26, <2>1, MovesEffect DEF InlineNumbers, Handling
    <2>3. /\ \A q \in Rows \ {r} : row'[q] = row[q]
          /\ row'[r].copies = row[r].copies
          /\ row'[r].dropped = row[r].dropped
          /\ row'[r].task = row[r].task
          /\ row'[r].told = row[r].told
          /\ row[r].copies > 0
      BY <1>26, <2>1 DEF InlineNumbers, Notes, TypeOK, RowStates, ToldInv
    <2> QED
      BY <2>1, <2>2, <2>3, ToldKept DEF Underway
  <1>27. ASSUME NEW h \in Handlers, InlineFails(h) PROVE ToldInv'
    <2>1. PICK r \in Rows : handler[h].row = r /\ handler[h].pc = "posting"
      BY <1>27, RowOf, InlineFailsEffect
         DEF Unmarked, RowFrame, TallySame, Shows, Doubts
    <2>2. /\ handler'[h].pc = "failing" /\ handler'[h].row = r
          /\ \A g \in Handlers \ {h} : handler'[g] = handler[g]
      BY <1>27, <2>1, MovesEffect, InlineFailsEffect
         DEF Handling, RowFrame, TallySame, Shows, Doubts
    <2>3. /\ \A q \in Rows \ {r} : row'[q] = row[q]
          /\ (row[r].copies > 0 => row'[r].copies > 0)
          /\ row'[r].dropped = row[r].dropped
          /\ row'[r].task = row[r].task
          /\ row'[r].told = row[r].told
          /\ row'[r].numbered = row[r].numbered
      BY <1>27, <2>1, InlineFailsEffect DEF TypeOK, RowStates, RowFrame, Doubts
    <2> QED
      BY <2>1, <2>2, <2>3, ToldKept DEF Underway
  <1>28. ASSUME NEW h \in Handlers, NEW g \in Handlers, FallsBackBeside(h, g) PROVE ToldInv'
    <2>1. /\ handler'[h].pc = "queued" /\ handler'[g].pc = "queued" /\ UNCHANGED row
          /\ \A f \in Handlers \ {h, g} : handler'[f] = handler[f]
      BY <1>28, FreshTypes DEF FallsBackBeside, TypeOK
    <2> QED
      BY <2>1, ToldKept
  <1>29. ASSUME NEW h \in Handlers, NEW r \in Rows, Stores(h, r) PROVE ToldInv'
    <2>1. /\ handler'[h].pc = "stored"
          /\ \A g \in Handlers \ {h} : handler'[g] = handler[g]
      BY <1>29 DEF Stores, TypeOK, HandlerStates
    <2>2. \A q \in Rows :
              /\ row'[q].copies = row[q].copies /\ row'[q].dropped = row[q].dropped
              /\ row'[q].task = row[q].task
              /\ row'[q].told = row[q].told /\ row'[q].numbered = row[q].numbered
      BY <1>29, ToldNote DEF Stores
    <2> QED
      BY <2>1, <2>2, ToldKept
  <1>30. ASSUME NEW h \in Handlers, HandlerDies(h) PROVE ToldInv'
    <2>1. /\ handler'[h].pc \notin {"posted", "telling"} /\ UNCHANGED row
          /\ \A g \in Handlers \ {h} : handler'[g] = handler[g]
      BY <1>30, LeavesEffect DEF HandlerDies
    <2> QED
      BY <2>1, ToldKept
  <1>31. ASSUME NEW h \in Handlers, UpdateLost(h) PROVE ToldInv'
    <2>1. /\ handler'[h].pc \notin {"posted", "telling"} /\ UNCHANGED row
          /\ \A g \in Handlers \ {h} : handler'[g] = handler[g]
      BY <1>31, LeavesEffect DEF UpdateLost
    <2> QED
      BY <2>1, ToldKept
  <1>32. ASSUME NEW r \in Rows,
                \/ DeliverSkips(r) \/ DeliverReads(r)
                \/ DeliverUnconfigured(r) \/ DeliverPosts(r)
                \/ DeliverNumbers(r) \/ DeliverFails(r) \/ DeliverDies(r)
                \/ DeliverLost(r)
         PROVE  ToldInv'
    <2>1. UNCHANGED handler /\ \A q \in Rows \ {r} : row'[q] = row[q]
      BY <1>32, DeliverPostsEffect, DeliverFailsEffect
         DEF DeliverSkips, DeliverReads, DeliverUnconfigured, DeliverNumbers,
             DeliverDies, DeliverLost, Notes, TypeOK, RowFrame, TallySame, Shows, Doubts
    <2>2. /\ row[r].numbered => row[r].copies > 0
          /\ row[r].task = "posted" => row[r].copies > 0
      BY DEF ToldInv
    <2>3. /\ row[r].copies > 0 => row'[r].copies > 0
          /\ row[r].dropped => row'[r].dropped
          /\ row'[r].numbered => row[r].numbered \/ row'[r].copies > 0
          /\ row'[r].task = "posted" => row'[r].copies > 0
          /\ row'[r].task = "over" => row'[r].copies > 0 \/ row'[r].dropped
          /\ \/ row'[r].task \in Underway \cup {"lost"}
             \/ row'[r].copies > 0 \/ row'[r].dropped
          /\ row'[r].told = row[r].told
      <3>1. CASE DeliverPosts(r)
        BY <2>2, <3>1, DeliverPostsEffect DEF TypeOK, RowStates, Underway, RowFrame, Shows
      <3>2. CASE DeliverFails(r)
        BY <2>2, <3>2, DeliverFailsEffect, BoundAssumption
           DEF TypeOK, RowStates, Underway, RowFrame, TallySame, Shows, Doubts
      <3>3. CASE ~DeliverPosts(r) /\ ~DeliverFails(r)
        BY <1>32, <2>2, <3>3
           DEF DeliverSkips, DeliverReads, DeliverUnconfigured,
               DeliverNumbers, DeliverDies, DeliverLost, Notes, TypeOK,
               RowStates, Underway
      <3> QED
        BY <3>1, <3>2, <3>3
    <2> QED
      BY <2>1, <2>3, ToldKept
  <1>33. ASSUME LockExpires PROVE ToldInv'
    <2>1. UNCHANGED <<handler, row>>
      BY <1>33 DEF LockExpires
    <2> QED
      BY <2>1, ToldKept
  <1>34. ASSUME UNCHANGED vars PROVE ToldInv'
    <2>1. UNCHANGED <<handler, row>>
      BY <1>34 DEF vars
    <2> QED
      BY <2>1, ToldKept
  <1> QED
    BY <1>1, <1>2, <1>3, <1>4, <1>5, <1>6, <1>7, <1>8, <1>9, <1>10, <1>11,
       <1>12, <1>13, <1>14, <1>15, <1>16, <1>17, <1>18, <1>19, <1>20, <1>21,
       <1>22, <1>23, <1>24, <1>25, <1>26, <1>27, <1>28, <1>29, <1>30, <1>31,
       <1>32, <1>33, <1>34
       DEF Next, Handle, Deliver, Failure

-----------------------------------------------------------------------------
(* The copies that rely on one another                                     *)

\* Somebody is between cache.add and cache.delete, or died there ...
LockHeld == lock => tally.deaths > 0 \/ \E h \in Handlers : handler[h].pc \in Handling

\* ... and what a copy may be skipped for is at work or has been done.
HeldInv ==
    /\ LockHeld /\ NotForgotten
    /\ \A h \in Handlers : handler[h].pc = "marked" => done

\* Nothing that befell the update is unsaid.
LossesKept ==
    /\ tally'.arrivals = tally.arrivals
    /\ tally.failed > 0 => tally'.failed > 0
    /\ tally.deaths > 0 => tally'.deaths > 0
    /\ tally.lost > 0 => tally'.lost > 0

\* A handler that stays at work on one side of the lock.
LEMMA HeldByOne ==
    ASSUME TypeOK, HeldInv, LossesKept, NEW h \in Handlers,
           \A g \in Handlers \ {h} : handler'[g] = handler[g],
           handler'[h].pc # "free", done => done', lock' => lock,
           handler[h].pc \in Handling => handler'[h].pc \in Handling \/ ~lock',
           handler'[h].pc = "marked" => done'
    PROVE  HeldInv'
  <1>1. LockHeld'
    <2> SUFFICES ASSUME lock', ~(tally'.deaths > 0)
                 PROVE  \E g \in Handlers : handler'[g].pc \in Handling
      BY DEF LockHeld
    <2>1. PICK g \in Handlers : handler[g].pc \in Handling
      BY DEF HeldInv, LockHeld, LossesKept
    <2> QED
      BY <2>1
  <1>2. NotForgotten'
    BY DEF NotForgotten
  <1> QED
    BY <1>1, <1>2 DEF HeldInv

\* A handler that leaves while the update is answered for otherwise.
LEMMA HeldByOthers ==
    ASSUME TypeOK, HeldInv, LossesKept, NEW h \in Handlers, Leaves(h),
           done => done', lock' => lock,
           handler[h].pc \in Handling => tally'.deaths > 0 \/ ~lock',
           \/ done \/ tally'.failed > 0 \/ tally'.deaths > 0 \/ tally'.lost > 0
           \/ \E g \in Handlers \ {h} : handler[g].pc # "free"
    PROVE  HeldInv'
  <1>0. /\ handler'[h].pc = "free" /\ \A g \in Handlers \ {h} : handler'[g] = handler[g]
    BY LeavesEffect
  <1>1. LockHeld'
    <2> SUFFICES ASSUME lock', ~(tally'.deaths > 0)
                 PROVE  \E g \in Handlers : handler'[g].pc \in Handling
      BY DEF LockHeld
    <2>1. PICK g \in Handlers : handler[g].pc \in Handling
      BY DEF HeldInv, LockHeld, LossesKept
    <2> QED
      BY <1>0, <2>1
  <1>2. NotForgotten'
    BY <1>0 DEF NotForgotten
  <1>3. \A g \in Handlers : handler'[g].pc = "marked" => done'
    BY <1>0 DEF HeldInv
  <1> QED
    BY <1>1, <1>2, <1>3 DEF HeldInv

\* Nobody comes or goes.
LEMMA HeldBySame ==
    ASSUME TypeOK, HeldInv, LossesKept, handler' = handler, done' = done, lock' => lock
    PROVE  HeldInv'
  BY DEF HeldInv, LockHeld, NotForgotten, LossesKept

LEMMA HeldStep ==
    ASSUME TypeOK, LockInv, HeldInv, [Next]_vars
    PROVE  HeldInv'
  <1>1. ASSUME NEW h \in Handlers, Arrives(h) PROVE HeldInv'
    <2>1. /\ tally'.deaths = tally.deaths /\ UNCHANGED <<done, lock>>
      BY <1>1, CountsEffect DEF Arrives
    <2>2. /\ \A g \in Handlers \ {h} : handler'[g] = handler[g]
          /\ handler[h].pc = "free" /\ handler'[h].pc = "accepted"
      BY <1>1, FreshTypes DEF Arrives, TypeOK
    <2>3. LockHeld'
      BY <2>1, <2>2 DEF HeldInv, LockHeld, Handling
    <2> QED
      BY <2>1, <2>2, <2>3 DEF HeldInv, NotForgotten
  <1>2. ASSUME NEW h \in Handlers, Enqueues(h) PROVE HeldInv'
    <2>1. LossesKept
      BY <1>2 DEF Enqueues, LossesKept
    <2>2. /\ \A g \in Handlers \ {h} : handler'[g] = handler[g]
          /\ handler[h].pc = "accepted" /\ handler'[h].pc = "queued" /\ UNCHANGED <<done, lock>>
      BY <1>2, FreshTypes DEF Enqueues, TypeOK
    <2> QED
      BY <2>1, <2>2, HeldByOne DEF Handling
  <1>3. ASSUME NEW h \in Handlers, NEW g \in Handlers, FallsBackBeside(h, g) PROVE HeldInv'
    <2>1. LossesKept /\ UNCHANGED <<done, lock>>
      BY <1>3, CountsEffect DEF FallsBackBeside, LossesKept
    <2>2. /\ handler[h].pc = "accepted" /\ handler'[h].pc = "queued"
          /\ handler[g].pc = "free" /\ handler'[g].pc = "queued"
          /\ \A f \in Handlers \ {h, g} : handler'[f] = handler[f]
      BY <1>3, FreshTypes DEF FallsBackBeside, TypeOK
    <2>3. LockHeld'
      BY <2>1, <2>2 DEF HeldInv, LockHeld, Handling, LossesKept
    <2> QED
      BY <2>1, <2>2, <2>3 DEF HeldInv, NotForgotten
  <1>4. ASSUME NEW h \in Handlers, FallsBack(h) PROVE HeldInv'
    <2>1. LossesKept
      BY <1>4 DEF FallsBack, LossesKept, TypeOK, Tallies
    <2>2. /\ \A g \in Handlers \ {h} : handler'[g] = handler[g]
          /\ handler'[h].pc \notin {"free", "marked"} /\ done' = done /\ lock' = lock
          /\ handler[h].pc \in Handling => handler'[h].pc \in Handling
      BY <1>4, MovesEffect DEF FallsBack, Handling
    <2> QED
      BY <2>1, <2>2, HeldByOne
  <1>5. ASSUME NEW h \in Handlers, Checks(h) PROVE HeldInv'
    <2>1. LossesKept
      BY <1>5 DEF Checks, LossesKept, TypeOK, Tallies
    <2>2. /\ \A g \in Handlers \ {h} : handler'[g] = handler[g]
          /\ handler'[h].pc \notin {"free", "marked"} /\ done' = done /\ lock' = lock
          /\ handler[h].pc \in Handling => handler'[h].pc \in Handling
      BY <1>5, MovesEffect DEF Checks, Handling
    <2> QED
      BY <2>1, <2>2, HeldByOne
  <1>6. ASSUME NEW h \in Handlers, SkipsDone(h) PROVE HeldInv'
    BY <1>6, HeldByOthers DEF SkipsDone, LossesKept, Handling
  <1>7. ASSUME NEW h \in Handlers, SkipsLocked(h) PROVE HeldInv'
    <2>1. tally.deaths > 0 \/ \E g \in Handlers \ {h} : handler[g].pc \in Handling
      BY <1>7 DEF SkipsLocked, HeldInv, LockHeld, Handling
    <2>2. tally.deaths > 0 \/ \E g \in Handlers \ {h} : handler[g].pc # "free"
      BY <2>1 DEF Handling
    <2> QED
      BY <1>7, <2>2, HeldByOthers DEF SkipsLocked, LossesKept, Handling
  <1>8. ASSUME NEW h \in Handlers, Locks(h) PROVE HeldInv'
    <2>1. /\ handler'[h].pc = "handling" /\ done' = done
          /\ \A g \in Handlers \ {h} : handler'[g] = handler[g]
      BY <1>8, MovesEffect DEF Locks, Handling
    <2>2. LockHeld' /\ NotForgotten'
      BY <2>1 DEF LockHeld, NotForgotten, Handling
    <2> QED
      BY <2>1, <2>2 DEF HeldInv
  <1>9. ASSUME NEW h \in Handlers, MarksDone(h) PROVE HeldInv'
    <2>1. LossesKept
      BY <1>9 DEF MarksDone, LossesKept
    <2>2. /\ \A g \in Handlers \ {h} : handler'[g] = handler[g]
          /\ handler'[h].pc = "marked" /\ done' /\ lock' = lock
      BY <1>9, MovesEffect DEF MarksDone, Handling
    <2> QED
      BY <2>1, <2>2, HeldByOne DEF Handling
  <1>10. ASSUME NEW h \in Handlers, Unlocks(h) PROVE HeldInv'
    BY <1>10, HeldByOthers DEF Unlocks, LossesKept, HeldInv
  <1>11. ASSUME NEW h \in Handlers, UnlocksToRetry(h) PROVE HeldInv'
    <2>1. LossesKept
      BY <1>11 DEF UnlocksToRetry, LossesKept
    <2>2. /\ \A g \in Handlers \ {h} : handler'[g] = handler[g]
          /\ handler'[h].pc = "queued" /\ ~lock' /\ done' = done
      BY <1>11 DEF UnlocksToRetry, TypeOK, Slot
    <2> QED
      BY <2>1, <2>2, HeldByOne
  <1>12. ASSUME NEW h \in Handlers, UnlocksToFail(h) PROVE HeldInv'
    <2>1. LossesKept /\ tally'.failed > 0
      BY <1>12, CountsEffect DEF UnlocksToFail, LossesKept, TypeOK, Tallies
    <2> QED
      BY <1>12, <2>1, HeldByOthers DEF UnlocksToFail
  <1>13. ASSUME NEW h \in Handlers, Refuses(h) PROVE HeldInv'
    <2>1. LossesKept
      BY <1>13, CountsEffect DEF Refuses, LossesKept, TypeOK, Tallies
    <2>2. /\ \A g \in Handlers \ {h} : handler'[g] = handler[g]
          /\ handler'[h].pc \notin {"free", "marked"} /\ done' = done /\ lock' = lock
          /\ handler[h].pc \in Handling => handler'[h].pc \in Handling
      BY <1>13, MovesEffect DEF Refuses, Handling
    <2> QED
      BY <2>1, <2>2, HeldByOne
  <1>14. ASSUME NEW h \in Handlers, FileFails(h) PROVE HeldInv'
    <2>1. LossesKept
      BY <1>14 DEF FileFails, LossesKept
    <2>2. Moves(h, "retrying") \/ Moves(h, "failing")
      BY <1>14 DEF FileFails
    <2>3. /\ \A g \in Handlers \ {h} : handler'[g] = handler[g]
          /\ handler'[h].pc \in {"retrying", "failing"} /\ UNCHANGED <<done, lock>>
      BY <1>14, <2>2, MovesEffect DEF FileFails, Handling
    <2> QED
      BY <2>1, <2>3, HeldByOne DEF Handling
  <1>15. ASSUME NEW h \in Handlers, StoreFails(h) PROVE HeldInv'
    <2>1. LossesKept
      BY <1>15 DEF StoreFails, LossesKept, TypeOK, Tallies
    <2>2. /\ \A g \in Handlers \ {h} : handler'[g] = handler[g]
          /\ handler'[h].pc \notin {"free", "marked"} /\ done' = done /\ lock' = lock
          /\ handler[h].pc \in Handling => handler'[h].pc \in Handling
      BY <1>15, MovesEffect DEF StoreFails, Handling
    <2> QED
      BY <2>1, <2>2, HeldByOne
  <1>16. ASSUME NEW h \in Handlers, FindsRow(h) PROVE HeldInv'
    <2>1. LossesKept
      BY <1>16 DEF FindsRow, LossesKept, TypeOK, Tallies
    <2>2. /\ \A g \in Handlers \ {h} : handler'[g] = handler[g]
          /\ handler'[h].pc \notin {"free", "marked"} /\ done' = done /\ lock' = lock
          /\ handler[h].pc \in Handling => handler'[h].pc \in Handling
      BY <1>16, MovesEffect DEF FindsRow, Handling
    <2> QED
      BY <2>1, <2>2, HeldByOne
  <1>17. ASSUME NEW h \in Handlers, NEW r \in Rows, Stores(h, r) PROVE HeldInv'
    <2>1. LossesKept
      BY <1>17 DEF Stores, LossesKept
    <2>2. /\ handler'[h].pc = "stored" /\ UNCHANGED <<done, lock>>
          /\ \A g \in Handlers \ {h} : handler'[g] = handler[g]
      BY <1>17 DEF Stores, TypeOK, HandlerStates
    <2> QED
      BY <2>1, <2>2, HeldByOne DEF Handling
  <1>18. ASSUME NEW h \in Handlers, Takes(h) PROVE HeldInv'
    <2>1. LossesKept
      BY <1>18 DEF Takes, LossesKept
    <2>2. Moves(h, "taken") \/ Moves(h, "finished")
      BY <1>18 DEF Takes
    <2>3. /\ \A g \in Handlers \ {h} : handler'[g] = handler[g]
          /\ handler'[h].pc \in {"taken", "finished"} /\ UNCHANGED <<done, lock>>
      BY <1>18, <2>2, MovesEffect DEF Takes, Handling
    <2> QED
      BY <2>1, <2>3, HeldByOne DEF Handling
  <1>19. ASSUME NEW h \in Handlers, TakeFails(h) PROVE HeldInv'
    <2>1. LossesKept
      BY <1>19, CountsEffect DEF TakeFails, LossesKept, TypeOK, Tallies
    <2>2. /\ \A g \in Handlers \ {h} : handler'[g] = handler[g]
          /\ handler'[h].pc \notin {"free", "marked"} /\ done' = done /\ lock' = lock
          /\ handler[h].pc \in Handling => handler'[h].pc \in Handling
      BY <1>19, MovesEffect DEF TakeFails, Handling
    <2> QED
      BY <2>1, <2>2, HeldByOne
  <1>20. ASSUME NEW h \in Handlers, Delivers(h) PROVE HeldInv'
    <2>1. LossesKept
      BY <1>20 DEF Delivers, LossesKept, TypeOK, Tallies
    <2>2. /\ \A g \in Handlers \ {h} : handler'[g] = handler[g]
          /\ handler'[h].pc \notin {"free", "marked"} /\ done' = done /\ lock' = lock
          /\ handler[h].pc \in Handling => handler'[h].pc \in Handling
      BY <1>20, MovesEffect DEF Delivers, Handling
    <2> QED
      BY <2>1, <2>2, HeldByOne
  <1>21. ASSUME NEW h \in Handlers, DeliversInline(h) PROVE HeldInv'
    <2>1. LossesKept
      BY <1>21 DEF DeliversInline, LossesKept, TypeOK, Tallies
    <2>2. /\ \A g \in Handlers \ {h} : handler'[g] = handler[g]
          /\ handler'[h].pc \notin {"free", "marked"} /\ done' = done /\ lock' = lock
          /\ handler[h].pc \in Handling => handler'[h].pc \in Handling
      BY <1>21, MovesEffect DEF DeliversInline, Handling
    <2> QED
      BY <2>1, <2>2, HeldByOne
  <1>22. ASSUME NEW h \in Handlers, DeliversTwice(h) PROVE HeldInv'
    <2>1. LossesKept
      BY <1>22, CountsEffect DEF DeliversTwice, LossesKept, TypeOK, Tallies
    <2>2. /\ \A g \in Handlers \ {h} : handler'[g] = handler[g]
          /\ handler'[h].pc \notin {"free", "marked"} /\ done' = done /\ lock' = lock
          /\ handler[h].pc \in Handling => handler'[h].pc \in Handling
      BY <1>22, MovesEffect DEF DeliversTwice, Handling
    <2> QED
      BY <2>1, <2>2, HeldByOne
  <1>23. ASSUME NEW h \in Handlers, Tells(h) PROVE HeldInv'
    <2>1. LossesKept
      BY <1>23 DEF Tells, LossesKept, TypeOK, Tallies
    <2>2. /\ \A g \in Handlers \ {h} : handler'[g] = handler[g]
          /\ handler'[h].pc \notin {"free", "marked"} /\ done' = done /\ lock' = lock
          /\ handler[h].pc \in Handling => handler'[h].pc \in Handling
      BY <1>23, MovesEffect DEF Tells, Handling
    <2> QED
      BY <2>1, <2>2, HeldByOne
  <1>24. ASSUME NEW h \in Handlers, InlineSkips(h) PROVE HeldInv'
    <2>1. LossesKept
      BY <1>24 DEF InlineSkips, LossesKept, TypeOK, Tallies
    <2>2. /\ \A g \in Handlers \ {h} : handler'[g] = handler[g]
          /\ handler'[h].pc \notin {"free", "marked"} /\ done' = done /\ lock' = lock
          /\ handler[h].pc \in Handling => handler'[h].pc \in Handling
      BY <1>24, MovesEffect DEF InlineSkips, Handling
    <2> QED
      BY <2>1, <2>2, HeldByOne
  <1>25. ASSUME NEW h \in Handlers, InlineReads(h) PROVE HeldInv'
    <2>1. LossesKept
      BY <1>25 DEF InlineReads, LossesKept, TypeOK, Tallies
    <2>2. /\ \A g \in Handlers \ {h} : handler'[g] = handler[g]
          /\ handler'[h].pc \notin {"free", "marked"} /\ done' = done /\ lock' = lock
          /\ handler[h].pc \in Handling => handler'[h].pc \in Handling
      BY <1>25, MovesEffect DEF InlineReads, Handling
    <2> QED
      BY <2>1, <2>2, HeldByOne
  <1>26. ASSUME NEW h \in Handlers, InlineUnconfigured(h) PROVE HeldInv'
    <2>1. LossesKept
      BY <1>26 DEF InlineUnconfigured, LossesKept, TypeOK, Tallies
    <2>2. /\ \A g \in Handlers \ {h} : handler'[g] = handler[g]
          /\ handler'[h].pc \notin {"free", "marked"} /\ done' = done /\ lock' = lock
          /\ handler[h].pc \in Handling => handler'[h].pc \in Handling
      BY <1>26, MovesEffect DEF InlineUnconfigured, Handling
    <2> QED
      BY <2>1, <2>2, HeldByOne
  <1>27. ASSUME NEW h \in Handlers, InlinePosts(h) PROVE HeldInv'
    <2>1. LossesKept
      BY <1>27, InlinePostsEffect
         DEF LossesKept, TypeOK, Tallies, RowFrame, TallySame, Shows, Doubts
    <2>2. /\ \A g \in Handlers \ {h} : handler'[g] = handler[g]
          /\ handler'[h].pc \notin {"free", "marked"} /\ done' = done /\ lock' = lock
          /\ handler[h].pc \in Handling => handler'[h].pc \in Handling
      BY <1>27, MovesEffect, InlinePostsEffect
         DEF Handling, RowFrame, TallySame, Shows, Doubts
    <2> QED
      BY <2>1, <2>2, HeldByOne
  <1>28. ASSUME NEW h \in Handlers, InlineNumbers(h) PROVE HeldInv'
    <2>1. LossesKept
      BY <1>28 DEF InlineNumbers, LossesKept, TypeOK, Tallies
    <2>2. /\ \A g \in Handlers \ {h} : handler'[g] = handler[g]
          /\ handler'[h].pc \notin {"free", "marked"} /\ done' = done /\ lock' = lock
          /\ handler[h].pc \in Handling => handler'[h].pc \in Handling
      BY <1>28, MovesEffect DEF InlineNumbers, Handling
    <2> QED
      BY <2>1, <2>2, HeldByOne
  <1>29. ASSUME NEW h \in Handlers, InlineFails(h) PROVE HeldInv'
    <2>1. LossesKept
      BY <1>29, CountsEffect, InlineFailsEffect
         DEF LossesKept, TypeOK, Tallies, RowFrame, TallySame, Shows, Doubts
    <2>2. /\ \A g \in Handlers \ {h} : handler'[g] = handler[g]
          /\ handler'[h].pc \notin {"free", "marked"} /\ done' = done /\ lock' = lock
          /\ handler[h].pc \in Handling => handler'[h].pc \in Handling
      BY <1>29, MovesEffect, InlineFailsEffect
         DEF Handling, RowFrame, TallySame, Shows, Doubts
    <2> QED
      BY <2>1, <2>2, HeldByOne
  <1>30. ASSUME NEW h \in Handlers, HandlerDies(h) PROVE HeldInv'
    <2>1. LossesKept /\ tally'.deaths > 0
      BY <1>30 DEF HandlerDies, LossesKept, TypeOK, Tallies
    <2> QED
      BY <1>30, <2>1, HeldByOthers DEF HandlerDies
  <1>31. ASSUME NEW h \in Handlers, UpdateLost(h) PROVE HeldInv'
    <2>1. LossesKept /\ tally'.lost > 0
      BY <1>31, CountsEffect DEF UpdateLost, LossesKept, TypeOK, Tallies
    <2> QED
      BY <1>31, <2>1, HeldByOthers DEF UpdateLost, Handling
  <1>32. ASSUME NEW r \in Rows, Deliver(r) PROVE HeldInv'
    <2>1. LossesKept
      BY <1>32, DeliverPostsEffect, DeliverFailsEffect
         DEF Deliver, DeliverSkips, DeliverReads, DeliverUnconfigured, DeliverNumbers,
             LossesKept, TallySame
    <2> QED
      BY <1>32, <2>1, HeldBySame, DeliverPostsEffect, DeliverFailsEffect
         DEF Deliver, DeliverSkips, DeliverReads, DeliverUnconfigured, DeliverNumbers,
             RowFrame, TallySame, Shows, Doubts
  <1>33. ASSUME NEW r \in Rows, DeliverDies(r) \/ DeliverLost(r) PROVE HeldInv'
    <2>1. LossesKept
      BY <1>33, CountsEffect DEF DeliverDies, DeliverLost, LossesKept, TypeOK, Tallies
    <2> QED
      BY <1>33, <2>1, HeldBySame DEF DeliverDies, DeliverLost
  <1>34. CASE LockExpires \/ UNCHANGED vars
    BY <1>34, HeldBySame DEF LockExpires, vars, LossesKept
  <1> QED
    BY <1>1, <1>2, <1>3, <1>4, <1>5, <1>6, <1>7, <1>8, <1>9, <1>10, <1>11,
       <1>12, <1>13, <1>14, <1>15, <1>16, <1>17, <1>18, <1>19, <1>20, <1>21,
       <1>22, <1>23, <1>24, <1>25, <1>26, <1>27, <1>28, <1>29, <1>30, <1>31,
       <1>32, <1>33, <1>34
       DEF Next, Handle, Failure

-----------------------------------------------------------------------------
(* The theorems                                                            *)

IInv == TypeOK /\ RetryInv /\ LockInv /\ CountInv /\ TakenInv /\ CopyInv /\ ToldInv
        /\ HeldInv

LEMMA InitIInv ==
    ASSUME Init
    PROVE  IInv
  <1>1. Free \in HandlerStates /\ Free.pc = "free"
    BY FreshTypes DEF Free
  <1>2. 0 \in 0..MaxTries
    BY BoundAssumption
  <1>3. Absent \in RowStates
    BY <1>2 DEF Absent, RowStates
  <1>4. /\ \A h \in Handlers : handler[h] = Free
        /\ \A r \in Rows : row[r] = Absent
    BY DEF Init
  <1>5. tally \in Tallies
    BY DEF Init, Tallies
  <1>6. TypeOK
    BY <1>1, <1>3, <1>5 DEF Init, TypeOK, Unmarked
  <1>7. Stored = {}
    BY <1>4 DEF Stored, Absent
  <1>8. CountInv
    BY <1>7, FS_EmptySet DEF Init, CountInv
  <1>9. CopyInv
    BY <1>1, <1>4 DEF CopyInv, Absent, Fresh, OfTask, OfInline
  <1>10. TakenInv /\ ToldInv
    BY <1>1, <1>4 DEF Init, TakenInv, ToldInv, Absent, Unmarked
  <1>11. RetryInv /\ LockInv
    BY <1>1, <1>4 DEF RetryInv, LockInv, Handling
  <1>12. HeldInv
    BY <1>1, <1>4 DEF Init, HeldInv, LockHeld, NotForgotten
  <1> QED
    BY <1>6, <1>8, <1>9, <1>10, <1>11, <1>12 DEF IInv

LEMMA NextIInv ==
    ASSUME IInv, [Next]_vars
    PROVE  IInv'
  <1>1. /\ TypeOK /\ RetryInv /\ LockInv /\ CountInv /\ TakenInv /\ CopyInv /\ ToldInv
        /\ HeldInv
    BY DEF IInv
  <1>2. StoredInv
    BY <1>1 DEF TakenInv, StoredInv
  <1>3. TypeOK' /\ RetryInv'
    BY <1>1, TypedStep
  <1>4. LockInv'
    BY <1>1, LockStep
  <1>5. CountInv'
    BY <1>1, CountStep
  <1>6. TakenInv'
    BY <1>1, TakenStep
  <1>7. CopyInv'
    BY <1>1, <1>2, CopyStep
  <1>8. ToldInv'
    BY <1>1, ToldStep
  <1>9. HeldInv'
    BY <1>1, HeldStep
  <1> QED
    BY <1>3, <1>4, <1>5, <1>6, <1>7, <1>8, <1>9 DEF IInv

\* The inductive invariant holds of every behaviour.
THEOREM UpdateInductive == Spec => []IInv
  <1>1. Init => IInv
    BY InitIInv
  <1>2. IInv /\ [Next]_vars => IInv'
    BY NextIInv
  <1> QED
    BY <1>1, <1>2, PTL DEF Spec

\* The cache entries, the handlers, the rows and the histories keep their types
\* (webhook_once, process_telegram_update_task, deliver_outbound_message).
THEOREM UpdateTypeCorrect == Spec => []TypeOK
  <1>1. IInv => TypeOK
    BY DEF IInv
  <1> QED
    BY <1>1, UpdateInductive, PTL

\* However often the messenger delivers an update, it leaves one row, but for
\* the two ways through webhook_once that HandledOnce names.
THEOREM UpdateHandledOnce == Spec => []HandledOnce
  <1>1. IInv => HandledOnce
    BY StoredFinite DEF IInv, CountInv, HandledOnce, TypeOK, Tallies
  <1> QED
    BY <1>1, UpdateInductive, PTL

\* An update that webhook_once marks as done has been refused or taken up,
\* unless a handler broke off with its row stored.
THEOREM UpdateTakenUp == Spec => []DoneIsTakenUp
  <1>1. IInv => DoneIsTakenUp
    BY DEF IInv, TakenInv, DoneIsTakenUp, Answered, Stored
  <1> QED
    BY <1>1, UpdateInductive, PTL

\* Whatever deliver_outbound_message retries, the client sees the copies of one
\* POST of a reply, but for those shown with an error and for a row delivered
\* twice over, and one POST shows no more of them than _telegram_urlopen sends.
THEOREM ReplySeenOnce == Spec => []SeenOnce
  <1>1. ASSUME IInv, NEW r \in Rows
        PROVE  row[r].copies <=
                 row[r].doubts + MaxAttempts
                   + (IF row[r].inline /\ row[r].task # "none" THEN MaxAttempts ELSE 0)
    <2>1. row[r].copies \in Nat /\ row[r].doubts \in Nat
      BY <1>1 DEF IInv, TypeOK, RowStates
    <2>2. row[r].copies <= row[r].doubts + OfTask(r) + OfInline(r)
      BY <1>1 DEF IInv, CopyInv
    <2>3. /\ OfTask(r) \in {0, MaxAttempts}
          /\ row[r].task = "none" => OfTask(r) = 0
          /\ OfInline(r) \in {0, MaxAttempts}
          /\ ~row[r].inline => OfInline(r) = 0
      BY DEF OfTask, OfInline
    <2> QED
      BY <2>1, <2>2, <2>3, AttemptsAssumption
  <1>2. IInv => SeenOnce
    BY <1>1 DEF SeenOnce
  <1> QED
    BY <1>2, UpdateInductive, PTL

\* A manager whom submit_staff_reply lets be told that a reply is sent is not
\* deceived: it was shown, it is under way, or it is known why not.
THEOREM ManagerNotDeceived == Spec => []ToldIsUnderway
  <1>1. IInv => ToldIsUnderway
    BY DEF IInv, ToldInv, Reached, ToldIsUnderway
  <1> QED
    BY <1>1, UpdateInductive, PTL

\* An update the webhook took is done, at work, or lost in a way that is known:
\* no copy is skipped for a handler that is not there.
THEOREM UpdateNotForgotten == Spec => []NotForgotten
  <1>1. IInv => NotForgotten
    BY DEF IInv, HeldInv
  <1> QED
    BY <1>1, UpdateInductive, PTL
=============================================================================
