-------------------------- MODULE RatingSync_proofs --------------------------
(***************************************************************************)
(* Proofs about RatingSync, for any set of titles and values, any clock    *)
(* resolution and any number of edits and failures.                        *)
(*                                                                         *)
(* IInv, the invariant of RatingSync, is proved inductive action by        *)
(* action; the theorems at the end are its consequences.                   *)
(***************************************************************************)
EXTENDS RatingSync, TLAPS

USE DEF Never, Stamp

(* A rating may be absent. *)
LEMMA NoRatingType == NoRating \in Rating /\ Values \subseteq Rating
  BY DEF Rating

(* A title without a row has a row of defaults. *)
LEMMA EmptyRowType == EmptyRow \in SyncRow
  BY NoRatingType DEF EmptyRow, SyncRow

(* A rating is matched to the row of a title or of a show. *)
LEMMA MatchedRow ==
  ASSUME TypeOK, NEW t
  PROVE  /\ MatchRating(t) \subseteq Media \union Shows
         /\ \A r \in MatchRating(t) \ Shows : r \in Media
  <1>1. Seasons \subseteq Media
    BY MediaAssumption
  <1> QED BY <1>1 DEF MatchRating, Known, TypeOK

(* What the three updates of a row do. *)
LEMMA QueuedRowFacts ==
  ASSUME TypeOK, NEW row \in SyncRow, NEW v \in Rating
  PROVE  /\ QueuedRow(row, v) \in SyncRow
         /\ QueuedRow(row, v).pending = v
         /\ QueuedRow(row, v).del <=> (v = NoRating)
         /\ QueuedRow(row, v).remoteRating = row.remoteRating
  <1> clock \in Int /\ row.lastRemote \in Int /\ row.remoteRating \in Rating
    BY DEF TypeOK, SyncRow
  <1> QED BY DEF SyncRow, QueuedRow

(* An exchanged rating empties the queue of its title. *)
LEMMA ExchangedRowFacts ==
  ASSUME NEW row \in SyncRow, NEW v \in Rating, NEW at \in Int
  PROVE  /\ ExchangedRow(row, at, v) \in SyncRow
         /\ ExchangedRow(row, at, v).pending = NoRating
         /\ ~ExchangedRow(row, at, v).del
         /\ ExchangedRow(row, at, v).remoteRating = v
  <1> row.lastLocal \in Int
    BY DEF SyncRow
  <1> QED BY NoRatingType DEF SyncRow, ExchangedRow

(* A failed change stays in the queue. *)
LEMMA PutOffRowFacts ==
  ASSUME NEW row \in SyncRow, NEW n \in Nat, NEW at \in Int
  PROVE  /\ PutOffRow(row, n, at) \in SyncRow
         /\ PutOffRow(row, n, at).pending = row.pending
         /\ PutOffRow(row, n, at).del = row.del
         /\ PutOffRow(row, n, at).remoteRating = row.remoteRating
  BY DEF SyncRow, PutOffRow

(* The delay is a natural number of ticks. *)
LEMMA BackoffType ==
  ASSUME NEW a \in Nat \ {0}, NEW r \in Nat
  PROVE  Backoff(a, r) \in Nat
  <1> DEFINE k == IF a < 7 THEN a ELSE 7
             d == <<1, 2, 4, 8, 16, 32, 64>>[k]
  <1>1. k \in 1 .. 7
    OBVIOUS
  <1>2. d \in Nat
    <2> HIDE DEF k
    <2> QED BY <1>1
  <1>3. (IF r > d THEN r ELSE d) \in Nat
    BY <1>2
  <1> HIDE DEF d
  <1>4. TicksPerSecond \in Nat
    BY ClockAssumption
  <1>5. \A x, y \in Nat : x * (IF y > 3600 THEN 3600 ELSE y) \in Nat
    OBVIOUS
  <1> QED
    BY <1>3, <1>4, <1>5 DEF Backoff, d, k

(* What Trakt reports is a stamp. *)
LEMMA WholeSecondType ==
  ASSUME NEW t \in Nat
  PROVE  WholeSecond(t) \in Int
  <1>1. t % TicksPerSecond \in Int
    BY ClockAssumption
  <1> QED BY <1>1 DEF WholeSecond

-----------------------------------------------------------------------------
(* Type correctness, action by action. *)

(* The tables are empty at first. *)
LEMMA TypeInit == Init => TypeOK
  <1> SUFFICES ASSUME Init PROVE TypeOK
    OBVIOUS
  <1>1. trakt \in [Titles -> TraktRating]
    BY NoRatingType DEF Init, TraktRating
  <1> QED BY <1>1, NoRatingType, EmptyRowType DEF Init, TypeOK

(* Every step keeps the types. *)
LEMMA TypeStep ==
  ASSUME TypeOK, [Next]_vars
  PROVE  TypeOK'
  <1> USE DEF TypeOK
  <1>1. CASE Tick
    BY <1>1 DEF Tick, durable, outside
  <1>2. ASSUME NEW m \in Media, NEW v \in Rating, LocalEdit(m, v)
        PROVE  TypeOK'
    <2>1. QueuedRow(sync[m], v) \in SyncRow
      BY QueuedRowFacts
    <2> QED BY <1>2, <2>1 DEF LocalEdit, Counted, Queued, outside
  <1>3. CASE TraktUserEdits
    BY <1>3, WholeSecondType DEF TraktUserEdits, Counted, TraktRating, durable
  <1>4. CASE BeginImportInitial
    BY <1>4 DEF Rating, BeginImportInitial, FetchRatings, RemoteItem, TraktRating, durable, outside
  <1>5. CASE BeginCycle \/ FinishImportInitial
    BY <1>5 DEF BeginCycle, FinishImportInitial, durable, outside
  <1>6. CASE BeginFlush
    <2>1. work' \subseteq WorkItem
      BY <1>6 DEF BeginFlush, WorkItem, SyncRow, Due
    <2> QED BY <1>6, <2>1 DEF BeginFlush, durable, outside
  <1>7. CASE FlushUnidentified \/ ShowRefused
    BY <1>7 DEF FlushUnidentified, ShowRefused, RacedAndDropped, durable, outside
  <1>8. CASE PostAccepted
    BY <1>8, WholeSecondType, MediaAssumption
       DEF PostAccepted, TraktStores, WorkItem, TraktRating, durable
  <1>9. CASE FlushDone
    <2> PICK w \in work : /\ work' = work \ {w}
                          /\ sync' = [sync EXCEPT ![w.media] =
                                         ExchangedRow(@, clock, w.value)]
      BY <1>9 DEF FlushDone
    <2>1. w.media \in Media /\ w.value \in Rating
      BY DEF WorkItem
    <2>2. ExchangedRow(sync[w.media], clock, w.value) \in SyncRow
      BY <2>1, ExchangedRowFacts
    <2> QED BY <1>9, <2>1, <2>2 DEF FlushDone, outside
  <1>10. CASE BeginReconcile
    BY <1>10 DEF Rating, BeginReconcile, FetchRatings, RemoteItem, TraktRating, durable, outside
  <1>11. CASE ApplyRemote
    <2> PICK i \in items : /\ items' = items \ {i}
                           /\ identified' = identified \union MatchRating(i.title)
                           /\ \/ UNCHANGED <<rating, sync, raced, astray>>
                              \/ \E r \in MatchRating(i.title) \ Shows :
                                     Ignore(r, i) \/ Acknowledge(r, i) \/ Adopt(r, i)
      BY <1>11 DEF ApplyRemote
    <2>1. i.value \in Rating /\ i.at \in Int /\ items' \subseteq RemoteItem
      BY NoRatingType DEF RemoteItem
    <2>2. identified' \subseteq Media \union Shows
      BY MatchedRow
    <2>3. rating' \in [Media -> Rating] /\ sync' \in [Media -> SyncRow]
          /\ raced' \in [Media -> BOOLEAN] /\ astray' \in [Media -> BOOLEAN]
      <3>1. CASE UNCHANGED <<rating, sync, raced, astray>>
        BY <3>1
      <3>2. ASSUME NEW r \in MatchRating(i.title) \ Shows,
                   Ignore(r, i) \/ Acknowledge(r, i) \/ Adopt(r, i)
            PROVE  /\ rating' \in [Media -> Rating] /\ sync' \in [Media -> SyncRow]
                   /\ raced' \in [Media -> BOOLEAN] /\ astray' \in [Media -> BOOLEAN]
        <4>1. r \in Media
          BY MatchedRow
        <4>2. ExchangedRow(sync[r], i.at, i.value) \in SyncRow
          BY <2>1, <4>1, ExchangedRowFacts
        <4>3. CASE Ignore(r, i)
          BY <4>3 DEF Ignore
        <4>4. CASE Acknowledge(r, i) \/ Adopt(r, i)
          <5>1. rating' \in [Media -> Rating]
            BY <2>1, <4>1, <4>4 DEF Acknowledge, Adopt
          <5>2. RemoteRecorded(r, i)
            BY <4>4 DEF Acknowledge, Adopt
          <5>3. (i.title # r) \in BOOLEAN
            OBVIOUS
          <5> QED BY <4>1, <4>2, <5>1, <5>2, <5>3 DEF RemoteRecorded
        <4> QED BY <3>2, <4>3, <4>4
      <3> QED BY <3>1, <3>2
    <2> QED BY <1>11, <2>1, <2>2, <2>3 DEF ApplyRemote, outside
  <1>12. CASE FinishReconcile
    BY <1>12 DEF FinishReconcile, durable, outside
  <1>13. CASE PostFails
    <2> PICK w \in work, r \in RetryAfters :
             /\ sync' = [sync EXCEPT ![w.media] =
                            PutOffRow(@, w.attempt + 1, clock + Backoff(w.attempt + 1, r))]
             /\ TraktStores(w) \/ UNCHANGED trakt
      BY <1>13 DEF PostFails
    <2>1. w \in WorkItem /\ r \in Nat
      BY RetryAssumption
    <2>2. Backoff(w.attempt + 1, r) \in Nat
      BY <2>1, BackoffType DEF WorkItem
    <2>3. sync' \in [Media -> SyncRow]
      BY <2>1, <2>2, PutOffRowFacts DEF WorkItem
    <2>4. trakt' \in [Titles -> TraktRating]
      <3>1. w.media \in Media /\ w.value \in Rating /\ WholeSecond(clock) \in Int
        BY <2>1, WholeSecondType DEF WorkItem
      <3>2. [value |-> w.value, at |-> WholeSecond(clock), ours |-> TRUE] \in TraktRating
        BY <3>1 DEF TraktRating
      <3> QED BY <3>1, <3>2, MediaAssumption DEF TraktStores
    <2>5. work' = {} /\ raced' \in [Media -> BOOLEAN] /\ phase' = "idle"
      BY <1>13 DEF PostFails, RacedAndDropped
    <2>6. /\ UNCHANGED <<clock, rating, identified, initialDone, items, historyFails, astray>>
          /\ events' \in Nat
      BY <1>13 DEF PostFails, Counted
    <2> QED BY <2>3, <2>4, <2>5, <2>6
  <1>14. CASE Abort
    BY <1>14 DEF Abort, Counted, RacedAndDropped, durable, outside
  <1>15. CASE HistoryChanges
    BY <1>15 DEF HistoryChanges, Counted, durable
  <1>16. CASE UNCHANGED vars
    BY <1>16 DEF vars, durable, outside
  <1> QED
    BY <1>1, <1>2, <1>3, <1>4, <1>5, <1>6, <1>7, <1>8, <1>9, <1>10, <1>11, <1>12,
       <1>13, <1>14, <1>15, <1>16 DEF Next, Cycle, SetLocal, DeleteLocal, Rating

(* Every reachable state is well typed. *)
THEOREM TypeCorrect == Spec => []TypeOK
  BY TypeInit, TypeStep, PTL DEF Spec

-----------------------------------------------------------------------------
(* The invariant.  CycleInv is what relates the snapshot a flush works from  *)
(* and the list a reconciliation works from to the tables they were read     *)
(* from, which edits keep changing.                                         *)

USE DEF CycleInv, PendingIsCurrent, OnlyOverlapLosesAChange, Acknowledged,
        DeliveredIsShown

(* The inductive invariant holds in the empty tables. *)
LEMMA InvInit == Init => IInv
  <1> SUFFICES ASSUME Init PROVE IInv
    OBVIOUS
  <1>1. TypeOK
    BY TypeInit
  <1>2. \A m \in Media : ~HasPending(m)
    BY DEF Init, HasPending, EmptyRow
  <1>3. CycleInv /\ PendingIsCurrent
    BY DEF Init, EmptyRow
  <1>4. OnlyOverlapLosesAChange /\ DeliveredIsShown
    BY <1>2, MediaAssumption DEF Init, EmptyRow
  <1> QED BY <1>1, <1>3, <1>4 DEF IInv

(* A step that leaves the tables, the queues and Trakt alone. *)
LEMMA InvUnchanged ==
  ASSUME IInv, UNCHANGED <<rating, sync, raced, astray, trakt, phase, work, items>>
  PROVE  CycleInv' /\ PendingIsCurrent' /\ OnlyOverlapLosesAChange' /\ DeliveredIsShown'
  BY DEF IInv, HasPending, NextWork

(* A step that ends the cycle and at most changes what Trakt holds of a      *)
(* title that is still pending.                                             *)
LEMMA InvCycleEnds ==
  ASSUME IInv, phase' = "idle", work' = {}, items' = {}, UNCHANGED <<rating, astray>>,
         raced' = RacedAndDropped,
         \A m \in Media : /\ sync'[m].pending = sync[m].pending
                          /\ sync'[m].del = sync[m].del
                          /\ sync'[m].remoteRating = sync[m].remoteRating,
         \A m \in Media : trakt'[m] # trakt[m] => HasPending(m)
  PROVE  CycleInv' /\ PendingIsCurrent' /\ OnlyOverlapLosesAChange' /\ DeliveredIsShown'
  <1>1. \A m \in Media : HasPending(m)' <=> HasPending(m)
    BY DEF HasPending
  <1>2. \A m \in Media : ~HasPending(m) => raced'[m] = raced[m]
    BY DEF RacedAndDropped, IInv, TypeOK
  <1>3. CycleInv' /\ PendingIsCurrent'
    BY DEF IInv
  <1>4. OnlyOverlapLosesAChange'
    BY <1>1, <1>2 DEF IInv
  <1>5. DeliveredIsShown'
    BY <1>1, <1>2 DEF IInv
  <1> QED BY <1>3, <1>4, <1>5

(* Every step keeps the inductive invariant. *)
LEMMA InvStep ==
  ASSUME IInv, [Next]_vars
  PROVE  CycleInv' /\ PendingIsCurrent' /\ OnlyOverlapLosesAChange' /\ DeliveredIsShown'
  <1> DEFINE Goal == CycleInv' /\ PendingIsCurrent' /\ OnlyOverlapLosesAChange'
                     /\ DeliveredIsShown'
  <1> TypeOK /\ CycleInv /\ PendingIsCurrent /\ OnlyOverlapLosesAChange /\ DeliveredIsShown
    BY DEF IInv
  <1>1. CASE Tick
    BY <1>1, InvUnchanged DEF Tick, durable, outside
  <1>2. ASSUME NEW m \in Media, NEW v \in Rating, LocalEdit(m, v)
        PROVE  Goal
    <2> USE <1>2 DEF LocalEdit, outside
    <2>1. /\ sync'[m].pending = v
          /\ sync'[m].del <=> (v = NoRating)
          /\ rating'[m] = v
          /\ HasPending(m)'
      BY QueuedRowFacts DEF TypeOK, HasPending
    <2>2. \A n \in Media \ {m} : /\ sync'[n] = sync[n] /\ rating'[n] = rating[n]
                                 /\ raced'[n] = raced[n] /\ astray'[n] = astray[n]
                                 /\ HasPending(n)' = HasPending(n)
      BY DEF TypeOK, HasPending
    <2>3. \A w \in work : w.media = m => raced'[m]
      BY DEF Queued, TypeOK
    <2>4. \A w \in work : HasPending(w.media)' /\ (raced'[w.media] \/ rating'[w.media] = w.value)
      BY <2>1, <2>2, <2>3 DEF TypeOK, WorkItem
    <2>5. CycleInv'
      BY <2>4 DEF NextWork
    <2>6. PendingIsCurrent'
      BY <2>1, <2>2
    <2>7. OnlyOverlapLosesAChange' /\ DeliveredIsShown'
      BY <2>1, <2>2
    <2> QED BY <2>5, <2>6, <2>7
  <1>3. CASE TraktUserEdits
    <2> PICK t \in Titles, v \in Rating :
             trakt' = [trakt EXCEPT ![t] = [value |-> v, at |-> WholeSecond(clock), ours |-> FALSE]]
      BY <1>3 DEF TraktUserEdits
    <2> USE <1>3 DEF TraktUserEdits, durable
    <2>1. \A u \in Titles : trakt'[u].ours => trakt'[u] = trakt[u]
      BY DEF TypeOK
    <2>2. Media \subseteq Titles
      BY MediaAssumption
    <2>3. CycleInv'
      BY <2>1, <2>2 DEF NextWork, HasPending, TypeOK, WorkItem, RemoteItem
    <2>4. PendingIsCurrent' /\ OnlyOverlapLosesAChange'
      BY DEF HasPending
    <2>5. DeliveredIsShown'
      BY <2>1, <2>2 DEF HasPending
    <2> QED BY <2>3, <2>4, <2>5
  <1>4. CASE BeginImportInitial \/ BeginReconcile
    <2> USE <1>4 DEF BeginImportInitial, BeginReconcile, durable, outside
    <2>1. \A i \in items' : trakt[i.title].value = i.value
      BY DEF FetchRatings
    <2>2. work = {}
      OBVIOUS
    <2>3. CycleInv'
      BY <2>1, <2>2
    <2>4. PendingIsCurrent' /\ OnlyOverlapLosesAChange' /\ DeliveredIsShown'
      BY DEF HasPending
    <2> QED BY <2>3, <2>4
  <1>5. CASE BeginCycle \/ FinishImportInitial \/ FinishReconcile
    <2> USE <1>5 DEF BeginCycle, FinishImportInitial, FinishReconcile, durable, outside
    <2>1. CycleInv'
      OBVIOUS
    <2>2. PendingIsCurrent' /\ OnlyOverlapLosesAChange' /\ DeliveredIsShown'
      BY DEF HasPending
    <2> QED BY <2>1, <2>2
  <1>6. CASE BeginFlush
    <2> USE <1>6 DEF BeginFlush, durable, outside
    <2>1. \A w \in work' : /\ w.media \in Media /\ HasPending(w.media)
                           /\ w = [media |-> w.media, value |-> sync[w.media].pending,
                                   del |-> sync[w.media].del,
                                   attempt |-> sync[w.media].attempt]
      BY DEF Due
    <2>2. \A w \in work' : rating[w.media] = w.value
      BY <2>1 DEF HasPending
    <2>3. CycleInv'
      BY <2>1, <2>2 DEF HasPending
    <2>4. PendingIsCurrent' /\ OnlyOverlapLosesAChange' /\ DeliveredIsShown'
      BY DEF HasPending
    <2> QED BY <2>3, <2>4
  <1>7. CASE FlushUnidentified \/ ShowRefused
    <2>1. work' = {} /\ items' = {}
      BY <1>7 DEF FlushUnidentified, ShowRefused
    <2> QED BY <1>7, <2>1, InvCycleEnds DEF FlushUnidentified, ShowRefused, durable, outside
  <1>8. CASE PostAccepted
    <2> PICK w \in work : NextWork(w) /\ TraktStores(w)
      BY <1>8 DEF PostAccepted
    <2> USE <1>8 DEF PostAccepted, durable
    <2>1. w.media \in Media /\ HasPending(w.media)
      BY DEF TypeOK, WorkItem
    <2>2. trakt'[w.media].value = w.value
      BY <2>1, MediaAssumption DEF TraktStores, TypeOK
    <2>3. \A x \in work : NextWork(x) => x = w
      <3> SUFFICES ASSUME NEW x \in work, NextWork(x) PROVE x = w
        OBVIOUS
      <3>1. x.media \in Nat /\ w.media \in Nat
        BY MediaAssumption DEF TypeOK, WorkItem
      <3>2. x.media <= w.media /\ w.media <= x.media
        BY DEF NextWork
      <3>3. x.media = w.media
        BY <3>1, <3>2
      <3> QED BY <3>3
    <2>4. CycleInv'
      BY <2>2, <2>3 DEF NextWork, HasPending
    <2>5. \A n \in Media : trakt'[n] # trakt[n] => HasPending(n)
      BY <2>1, MediaAssumption DEF TraktStores, TypeOK
    <2>6. PendingIsCurrent' /\ OnlyOverlapLosesAChange'
      BY DEF HasPending
    <2>7. DeliveredIsShown'
      BY <2>5 DEF HasPending
    <2> QED BY <2>4, <2>6, <2>7
  <1>9. CASE FlushDone
    <2> PICK w \in work : /\ NextWork(w)
                          /\ work' = work \ {w}
                          /\ sync' = [sync EXCEPT ![w.media] =
                                         ExchangedRow(@, clock, w.value)]
      BY <1>9 DEF FlushDone
    <2> USE <1>9 DEF FlushDone, outside
    <2>1. w.media \in Media /\ w.value \in Rating /\ clock \in Int
      BY DEF TypeOK, WorkItem
    <2>2. /\ sync'[w.media].pending = NoRating /\ ~sync'[w.media].del
          /\ sync'[w.media].remoteRating = w.value
      BY <2>1, ExchangedRowFacts DEF TypeOK
    <2>3. \A n \in Media \ {w.media} :
              sync'[n] = sync[n] /\ astray'[n] = astray[n] /\ HasPending(n)' = HasPending(n)
      <3>1. \A n \in Media \ {w.media} : sync'[n] = sync[n]
        BY <2>1 DEF TypeOK
      <3>2. \A n \in Media \ {w.media} : astray'[n] = astray[n]
        <4> PICK x \in work : NextWork(x) /\ astray' = [astray EXCEPT ![x.media] = FALSE]
          OBVIOUS
        <4>1. x.media \in Nat /\ w.media \in Nat
          BY MediaAssumption DEF TypeOK, WorkItem
        <4>2. x.media <= w.media /\ w.media <= x.media
          BY DEF NextWork
        <4>3. x.media = w.media
          <5>1. \A a, b \in Nat : a <= b /\ b <= a => a = b
            OBVIOUS
          <5> HIDE <1>9
          <5> QED BY <4>1, <4>2, <5>1
        <4> QED BY <4>3 DEF TypeOK
      <3> QED BY <3>1, <3>2 DEF HasPending
    <2>4. raced[w.media] \/ rating[w.media] = w.value
      OBVIOUS
    <2>5. trakt[w.media].ours => trakt[w.media].value = w.value
      OBVIOUS
    <2>6. \A x \in work' : HasPending(x.media)'
      BY <2>1, <2>3 DEF TypeOK, WorkItem
    <2>7. CycleInv'
      BY <2>6
    <2>8. PendingIsCurrent'
      BY <2>1, <2>2, <2>3
    <2>9. OnlyOverlapLosesAChange'
      BY <2>1, <2>2, <2>3, <2>4
    <2>10. DeliveredIsShown'
      <3>1. ASSUME NEW n \in Media, n # w.media, (trakt[n].ours /\ ~HasPending(n) /\ ~raced[n]
                                                /\ ~astray[n])'
            PROVE  trakt[n].value = rating[n]
        BY <2>3, <3>1
      <3> QED BY <2>4, <2>5, <3>1
    <2> QED BY <2>7, <2>8, <2>9, <2>10
  <1>10. CASE ApplyRemote
    <2> PICK i \in items : /\ items' = items \ {i}
                           /\ \/ UNCHANGED <<rating, sync, raced, astray>>
                              \/ \E r \in MatchRating(i.title) \ Shows :
                                     Ignore(r, i) \/ Acknowledge(r, i) \/ Adopt(r, i)
      BY <1>10 DEF ApplyRemote
    <2> USE <1>10 DEF ApplyRemote, outside
    <2>1. i.value \in Rating /\ i.at \in Int /\ i.value # NoRating
      BY NoRatingType, ValuesAssumption DEF TypeOK, RemoteItem
    <2>2. work = {}
      OBVIOUS
    <2>3. CycleInv'
      BY <2>2
    <2>4. ASSUME UNCHANGED <<rating, sync, raced, astray>>
          PROVE  Goal
      <3>1. PendingIsCurrent' /\ OnlyOverlapLosesAChange' /\ DeliveredIsShown'
        BY <2>4 DEF HasPending
      <3> QED BY <2>3, <3>1
    <2>5. ASSUME NEW r \in MatchRating(i.title) \ Shows, Acknowledge(r, i) \/ Adopt(r, i)
          PROVE  Goal
      <3>1. r \in Media
        BY MatchedRow
      <3>2. RemoteRecorded(r, i) /\ rating'[r] = i.value
        BY <2>1, <2>5, <3>1 DEF Acknowledge, Adopt, TypeOK
      <3>3. /\ sync'[r].pending = NoRating /\ ~sync'[r].del
            /\ sync'[r].remoteRating = i.value
            /\ astray'[r] = (i.title # r)
        BY <2>1, <3>1, <3>2, ExchangedRowFacts DEF RemoteRecorded, TypeOK
      <3>4. \A n \in Media \ {r} :
                /\ sync'[n] = sync[n] /\ rating'[n] = rating[n] /\ astray'[n] = astray[n]
                /\ raced'[n] = raced[n] /\ HasPending(n)' = HasPending(n)
        <4>1. \A n \in Media \ {r} :
                  sync'[n] = sync[n] /\ raced'[n] = raced[n] /\ astray'[n] = astray[n]
          BY <3>1, <3>2 DEF RemoteRecorded, TypeOK
        <4>2. \A n \in Media \ {r} : rating'[n] = rating[n]
          BY <2>5, <3>1 DEF Acknowledge, Adopt, TypeOK
        <4> QED BY <4>1, <4>2 DEF HasPending
      <3>5. trakt[i.title].ours => trakt[i.title].value = i.value
        OBVIOUS
      <3>6. PendingIsCurrent'
        BY <3>2, <3>3, <3>4
      <3>7. OnlyOverlapLosesAChange'
        BY <3>2, <3>3, <3>4
      <3>8. DeliveredIsShown'
        <4>1. ASSUME NEW n \in Media, n # r, (trakt[n].ours /\ ~HasPending(n) /\ ~raced[n]
                                             /\ ~astray[n])'
              PROVE  trakt[n].value = rating'[n]
          BY <3>4, <4>1
        <4>2. ~astray'[r] /\ trakt[r].ours => trakt[r].value = rating'[r]
          BY <3>2, <3>3, <3>5
        <4> QED BY <4>1, <4>2
      <3> QED BY <2>3, <3>6, <3>7, <3>8
    <2> QED BY <2>4, <2>5 DEF Ignore
  <1>11. CASE PostFails
    <2> PICK w \in work, r \in RetryAfters :
             /\ sync' = [sync EXCEPT ![w.media] =
                            PutOffRow(@, w.attempt + 1, clock + Backoff(w.attempt + 1, r))]
             /\ TraktStores(w) \/ UNCHANGED trakt
      BY <1>11 DEF PostFails
    <2> USE <1>11 DEF PostFails
    <2>1. w.media \in Media /\ w.attempt \in Nat /\ HasPending(w.media)
      BY DEF TypeOK, WorkItem
    <2>2. clock + Backoff(w.attempt + 1, r) \in Int
      <3>1. w.attempt + 1 \in Nat \ {0} /\ r \in Nat /\ clock \in Nat
        BY <2>1, RetryAssumption DEF TypeOK
      <3>2. Backoff(w.attempt + 1, r) \in Nat
        BY <3>1, BackoffType
      <3> QED BY <3>1, <3>2
    <2>3. \A m \in Media : /\ sync'[m].pending = sync[m].pending
                           /\ sync'[m].del = sync[m].del
                           /\ sync'[m].remoteRating = sync[m].remoteRating
      <3> DEFINE row == sync[w.media]
                 next == clock + Backoff(w.attempt + 1, r)
      <3>1. row \in SyncRow /\ w.attempt + 1 \in Nat /\ next \in Int
        BY <2>1, <2>2 DEF TypeOK
      <3>2. /\ PutOffRow(row, w.attempt + 1, next).pending = row.pending
            /\ PutOffRow(row, w.attempt + 1, next).del = row.del
            /\ PutOffRow(row, w.attempt + 1, next).remoteRating = row.remoteRating
        <4> HIDE DEF row, next
        <4> QED BY <3>1, PutOffRowFacts
      <3> QED BY <2>1, <3>2 DEF TypeOK
    <2>4. \A m \in Media : trakt'[m] # trakt[m] => HasPending(m)
      BY <2>1, MediaAssumption DEF TraktStores, TypeOK
    <2>5. items = {}
      OBVIOUS
    <2> QED BY <2>3, <2>4, <2>5, InvCycleEnds
  <1>12. CASE Abort
    BY <1>12, InvCycleEnds DEF Abort, durable, outside
  <1>13. CASE HistoryChanges
    BY <1>13, InvUnchanged DEF HistoryChanges, durable
  <1>14. CASE UNCHANGED vars
    BY <1>14, InvUnchanged DEF vars, durable, outside
  <1> HIDE DEF Goal
  <1> QED
    BY <1>1, <1>2, <1>3, <1>4, <1>5, <1>6, <1>7, <1>8, <1>9, <1>10, <1>11, <1>12, <1>13,
       <1>14 DEF Goal, Next, Cycle, SetLocal, DeleteLocal, Rating

(* The inductive invariant, from the two facts above. *)
LEMMA Invariant == Spec => []IInv
  <1>1. IInv /\ [Next]_vars => IInv'
    BY TypeStep, InvStep DEF IInv
  <1> QED BY <1>1, InvInit, PTL DEF Spec

(* The queue and the rating table are in step in every reachable state.      *)
THEOREM QueueIsCurrent == Spec => []PendingIsCurrent
  <1>1. IInv => PendingIsCurrent
    BY DEF IInv
  <1> QED BY <1>1, Invariant, PTL

(* A change is lost only if its title was edited during its own flush: every *)
(* other interleaving of edits, failures and restarts keeps it pending until *)
(* the two sides have exchanged it.                                         *)
THEOREM ChangesAreKept == Spec => []OnlyOverlapLosesAChange
  <1>1. IInv => OnlyOverlapLosesAChange
    BY DEF IInv
  <1> QED BY <1>1, Invariant, PTL

(* A rating WatchWeaver wrote to Trakt and still stands there is the one it  *)
(* shows, whatever answers were lost and whatever was sent twice, unless     *)
(* the title was edited during its own flush or its row has since taken over *)
(* the rating of another title, of another kind and of the same number.     *)
THEOREM DeliveryAgrees == Spec => []DeliveredIsShown
  <1>1. IInv => DeliveredIsShown
    BY DEF IInv
  <1> QED BY <1>1, Invariant, PTL

-----------------------------------------------------------------------------
(* The refinement.  Each step of RatingSync is a step of the outbox or       *)
(* leaves it alone.                                                         *)

USE DEF Outbox!Next

(* The state of the outbox, as RatingSync keeps it. *)
AgreedView == [m \in Media |-> sync[m].remoteRating]
OutboxView == {m \in Media : HasPending(m)}
SendingView == {[media |-> w.media, value |-> w.value] : w \in work}

(* The empty tables are an empty outbox. *)
LEMMA OutboxInit == Init => Outbox!Init
  BY DEF Init, Outbox!Init, EmptyRow, HasPending

(* A step that leaves the ratings, the queues and the snapshot alone. *)
LEMMA OutboxStutters ==
  ASSUME UNCHANGED <<rating, sync, work>>
  PROVE  UNCHANGED Outbox!vars
  BY DEF Outbox!vars, HasPending

(* A cycle that ends gives its copies up. *)
LEMMA OutboxGivesUp ==
  ASSUME TypeOK, work' = {}, UNCHANGED rating, sync' \in [Media -> SyncRow],
         \A m \in Media : /\ sync'[m].pending = sync[m].pending
                          /\ sync'[m].del = sync[m].del
                          /\ sync'[m].remoteRating = sync[m].remoteRating
  PROVE  Outbox!GiveUp
  <1>1. AgreedView' = AgreedView
    BY DEF AgreedView
  <1>2. OutboxView' = OutboxView
    BY DEF OutboxView, HasPending
  <1> QED BY <1>1, <1>2 DEF Outbox!GiveUp, AgreedView, OutboxView

(* An exchange changes the queue and the agreed rating of one title. *)
LEMMA OneExchange ==
  ASSUME TypeOK, NEW m \in Media, NEW v \in Rating, NEW at \in Int,
         sync' = [sync EXCEPT ![m] = ExchangedRow(@, at, v)]
  PROVE  /\ AgreedView' = [AgreedView EXCEPT ![m] = v]
         /\ OutboxView' = OutboxView \ {m}
  <1>1. /\ sync'[m].pending = NoRating /\ ~sync'[m].del
        /\ sync'[m].remoteRating = v
    BY ExchangedRowFacts DEF TypeOK
  <1>2. \A n \in Media \ {m} : sync'[n] = sync[n]
    BY DEF TypeOK
  <1>3. AgreedView' = [AgreedView EXCEPT ![m] = v]
    <2>1. \A n \in Media : AgreedView'[n] = IF n = m THEN v ELSE AgreedView[n]
      BY <1>1, <1>2 DEF AgreedView
    <2>2. AgreedView' \in [Media -> {AgreedView'[n] : n \in Media}]
      BY DEF AgreedView
    <2>3. AgreedView \in [Media -> {AgreedView[n] : n \in Media}]
      BY DEF AgreedView
    <2> QED BY <2>1, <2>2, <2>3
  <1>4. ~HasPending(m)' /\ \A n \in Media \ {m} : HasPending(n)' = HasPending(n)
    BY <1>1, <1>2 DEF HasPending
  <1>5. OutboxView' = OutboxView \ {m}
    <2> SUFFICES ASSUME NEW n \in Media
                 PROVE  HasPending(n)' <=> HasPending(n) /\ n # m
      BY DEF OutboxView
    <2> QED BY <1>4
  <1> QED BY <1>3, <1>5

(* Every step of the synchronisation is a step of the outbox. *)
LEMMA OutboxStep ==
  ASSUME IInv, [Next]_vars
  PROVE  [Outbox!Next]_(Outbox!vars)
  <1> TypeOK /\ CycleInv
    BY DEF IInv
  <1>1. CASE \/ Tick \/ TraktUserEdits \/ HistoryChanges \/ BeginCycle \/ BeginImportInitial
             \/ FinishImportInitial \/ PostAccepted \/ BeginReconcile \/ FinishReconcile
    <2>1. UNCHANGED <<rating, sync, work>>
      BY <1>1 DEF Tick, TraktUserEdits, HistoryChanges, BeginCycle, BeginImportInitial,
                  FinishImportInitial, PostAccepted, BeginReconcile, FinishReconcile, durable
    <2> QED BY <2>1, OutboxStutters
  <1>2. ASSUME NEW m \in Media, NEW v \in Rating, LocalEdit(m, v)
        PROVE  Outbox!Next
    <2> USE <1>2 DEF LocalEdit
    <2>1. /\ sync'[m].pending = v
          /\ sync'[m].del <=> (v = NoRating)
          /\ sync'[m].remoteRating = sync[m].remoteRating
      BY QueuedRowFacts DEF TypeOK
    <2>2. \A n \in Media \ {m} : sync'[n] = sync[n]
      BY DEF TypeOK
    <2>3. AgreedView' = AgreedView
      BY <2>1, <2>2 DEF AgreedView
    <2>4. OutboxView' = OutboxView \union {m}
      BY <2>1, <2>2 DEF OutboxView, HasPending
    <2>5. SendingView' = SendingView
      BY DEF SendingView
    <2>6. Outbox!Change(m, v)
      BY <2>3, <2>4, <2>5 DEF Outbox!Change, AgreedView, OutboxView, SendingView
    <2> QED BY <2>6 DEF Rating
  <1>3. CASE BeginFlush
    <2> USE <1>3 DEF BeginFlush, durable
    <2> PICK titles \in SUBSET Media : titles = {m \in Media : Due(m)}
      OBVIOUS
    <2>1. work = {}
      OBVIOUS
    <2>2. \A m \in titles : HasPending(m) /\ sync[m].pending = rating[m]
      BY DEF Due, HasPending, IInv
    <2>3. SendingView' = {[media |-> m, value |-> rating[m]] : m \in titles}
      <3>1. \A w \in work' : w.media \in titles /\ w.value = rating[w.media]
        BY <2>2
      <3>2. \A m \in titles : \E w \in work' : w.media = m
        <4> SUFFICES ASSUME NEW m \in titles PROVE \E w \in work' : w.media = m
          OBVIOUS
        <4> DEFINE r == [media |-> m, value |-> sync[m].pending, del |-> sync[m].del,
                         attempt |-> sync[m].attempt]
        <4>1. r \in work'
          OBVIOUS
        <4> QED BY <4>1
      <3> QED BY <3>1, <3>2 DEF SendingView
    <2>4. SendingView = {} /\ titles \subseteq OutboxView
      BY <2>1, <2>2 DEF SendingView, OutboxView
    <2>5. UNCHANGED <<AgreedView, OutboxView>>
      BY DEF AgreedView, OutboxView, HasPending
    <2>6. Outbox!Take(titles)
      BY <2>3, <2>4, <2>5
         DEF Outbox!Take, Outbox!Copy, AgreedView, OutboxView, SendingView
    <2> QED BY <2>6
  <1>4. CASE FlushUnidentified \/ ShowRefused \/ Abort
    <2>1. work' = {} /\ UNCHANGED <<rating, sync>>
      BY <1>4 DEF FlushUnidentified, ShowRefused, Abort, durable
    <2> QED BY <2>1, OutboxGivesUp DEF TypeOK
  <1>5. CASE FlushDone
    <2> PICK w \in work : /\ work' = work \ {w}
                          /\ sync' = [sync EXCEPT ![w.media] =
                                         ExchangedRow(@, clock, w.value)]
      BY <1>5 DEF FlushDone
    <2> DEFINE c == [media |-> w.media, value |-> w.value]
    <2>1. w.media \in Media /\ w.value \in Rating /\ clock \in Int
      BY DEF TypeOK, WorkItem
    <2>2. /\ AgreedView' = [AgreedView EXCEPT ![w.media] = w.value]
          /\ OutboxView' = OutboxView \ {w.media}
      BY <2>1, OneExchange
    <2>3. \A x \in work : x # w => x.media # w.media
      OBVIOUS
    <2>4. SendingView' = SendingView \ {c} /\ c \in SendingView
      BY <2>3 DEF SendingView
    <2>5. rating' = rating
      BY <1>5 DEF FlushDone
    <2>6. Outbox!Deliver(c)
      BY <2>2, <2>4, <2>5 DEF Outbox!Deliver, AgreedView, OutboxView, SendingView
    <2> QED BY <2>4, <2>6 DEF SendingView
  <1>6. CASE ApplyRemote
    <2> PICK i \in items : \/ UNCHANGED <<rating, sync, raced, astray>>
                           \/ \E r \in MatchRating(i.title) \ Shows :
                                  Ignore(r, i) \/ Acknowledge(r, i) \/ Adopt(r, i)
      BY <1>6 DEF ApplyRemote
    <2> USE <1>6 DEF ApplyRemote
    <2>1. /\ i.value \in Rating /\ i.at \in Int
          /\ i.value \in Values /\ i.value # NoRating
      BY NoRatingType, ValuesAssumption DEF TypeOK, RemoteItem
    <2>2. ASSUME UNCHANGED <<rating, sync, raced, astray>>
          PROVE  UNCHANGED Outbox!vars
      BY <2>2, OutboxStutters
    <2>3. ASSUME NEW r \in MatchRating(i.title) \ Shows, Acknowledge(r, i) \/ Adopt(r, i)
          PROVE  Outbox!Next
      <3>1. r \in Media
        BY MatchedRow
      <3>2. RemoteRecorded(r, i) /\ rating' = [rating EXCEPT ![r] = i.value]
        BY <2>1, <2>3, <3>1 DEF Acknowledge, Adopt, TypeOK, IInv
      <3>3. /\ AgreedView' = [AgreedView EXCEPT ![r] = i.value]
            /\ OutboxView' = OutboxView \ {r}
        BY <2>1, <3>1, <3>2, OneExchange DEF RemoteRecorded
      <3>4. SendingView = {} /\ SendingView' = {}
        BY DEF SendingView
      <3>5. Outbox!AdoptRating(r, i.value)
        BY <3>2, <3>3, <3>4 DEF Outbox!AdoptRating, AgreedView, OutboxView, SendingView
      <3> QED BY <2>1, <3>1, <3>5
    <2> QED BY <2>2, <2>3 DEF Ignore
  <1>7. CASE PostFails
    <2> PICK w \in work, r \in RetryAfters :
             sync' = [sync EXCEPT ![w.media] =
                         PutOffRow(@, w.attempt + 1, clock + Backoff(w.attempt + 1, r))]
      BY <1>7 DEF PostFails
    <2> DEFINE row == sync[w.media]
               next == clock + Backoff(w.attempt + 1, r)
    <2>1. w.media \in Media /\ w.attempt + 1 \in Nat \ {0} /\ r \in Nat /\ clock \in Nat
      BY RetryAssumption DEF TypeOK, WorkItem
    <2>2. row \in SyncRow /\ next \in Int
      <3>1. Backoff(w.attempt + 1, r) \in Nat
        BY <2>1, BackoffType
      <3> QED BY <2>1, <3>1 DEF TypeOK
    <2>3. /\ PutOffRow(row, w.attempt + 1, next).pending = row.pending
          /\ PutOffRow(row, w.attempt + 1, next).del = row.del
          /\ PutOffRow(row, w.attempt + 1, next).remoteRating = row.remoteRating
      <3> HIDE DEF row, next
      <3> QED BY <2>1, <2>2, PutOffRowFacts
    <2>4. \A m \in Media : /\ sync'[m].pending = sync[m].pending
                           /\ sync'[m].del = sync[m].del
                           /\ sync'[m].remoteRating = sync[m].remoteRating
      BY <2>1, <2>3 DEF TypeOK
    <2>5. sync' \in [Media -> SyncRow]
      BY TypeStep DEF TypeOK
    <2>6. work' = {} /\ UNCHANGED rating
      BY <1>7 DEF PostFails
    <2> QED BY <2>4, <2>5, <2>6, OutboxGivesUp
  <1>8. CASE UNCHANGED vars
    BY <1>8, OutboxStutters DEF vars, durable
  <1> QED
    BY <1>1, <1>2, <1>3, <1>4, <1>5, <1>6, <1>7, <1>8
       DEF Next, Cycle, SetLocal, DeleteLocal, Rating

(* The synchronisation is an outbox, for every number of titles, edits and   *)
(* failures and every clock: its timestamps decide when a change leaves the  *)
(* queue, but never that one leaves it without an exchange.                 *)
THEOREM RefinesOutbox == Spec => ImplementsOutbox
  <1>1. IInv /\ [Next]_vars => [Outbox!Next]_(Outbox!vars)
    BY OutboxStep
  <1> QED BY <1>1, OutboxInit, Invariant, PTL DEF Spec, ImplementsOutbox, Outbox!Spec

=============================================================================
