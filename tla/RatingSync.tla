----------------------------- MODULE RatingSync -----------------------------
(***************************************************************************)
(* Two-way rating synchronisation between WatchWeaver and Trakt.           *)
(*                                                                         *)
(* HTTP handlers write ratings at any time (SetLocal, DeleteLocal); one    *)
(* synchronisation cycle at a time (SyncManager's running flag) imports    *)
(* the ratings Trakt holds, sends the pending local changes and            *)
(* reconciles, once it has imported the watch history.  The cycle is a     *)
(* sequence of HTTP calls and short database transactions, so edits on     *)
(* either side fall between any two of its steps, and it can be cut        *)
(* anywhere by a failed call or a restart: only the variables rating,      *)
(* sync, identified and initialDone are durable.                           *)
(*                                                                         *)
(* Trakt numbers movies, shows, seasons and episodes apart; the table      *)
(* external_ids does not, and a rating of one title may be taken for one   *)
(* of another, or be refused because its number is that of a show.         *)
(***************************************************************************)
EXTENDS Integers, FiniteSets

CONSTANTS
    Titles,          \* what is rated on Trakt: movies, seasons and episodes
    Media,           \* the titles with a row in media_items, by the row's id
    Seasons,         \* the seasons among them
    Shows,           \* the rows of shows, which are not rated
    NumberOf,        \* the number Trakt gives a title or a show
    Values,          \* rating values
    NoRating,        \* SQL NULL in a rating column, or no row at all
    NoTraktId,       \* rows stored without a Trakt id: seasons of imported episodes
    TicksPerSecond,  \* the clock's resolution
    RetryAfters,     \* Retry-After values Trakt may send, in seconds; 0 for none
    MaxTime,         \* bound: last tick of the clock
    MaxEvents,       \* bound: edits on either side, failed calls and restarts
    MaxNumbers       \* bound: numbers under which Trakt's user rates titles at a time

ASSUME MediaAssumption == Media \subseteq Nat \intersect Titles /\ Seasons \subseteq Media
ASSUME ShowsAssumption == Shows \intersect Titles = {}
ASSUME ValuesAssumption == NoRating \notin Values
ASSUME NoTraktIdAssumption == NoTraktId \subseteq Media
ASSUME UniqueNumberAssumption ==  \* the unique index of external_ids
    \A r, s \in (Media \ NoTraktId) \union Shows : NumberOf[r] = NumberOf[s] => r = s
ASSUME ClockAssumption == TicksPerSecond \in Nat \ {0} /\ MaxTime \in Nat
ASSUME RetryAssumption == RetryAfters \subseteq Nat

VARIABLES
    clock,        \* wall clock shared with Trakt, in ticks
    rating,       \* table ratings: the rating WatchWeaver shows for a title
    sync,         \* table rating_sync_state
    identified,   \* rows of media_items with a Trakt number in table external_ids
    initialDone,  \* integration_state: initial_ratings_complete
    phase,        \* where the synchronisation cycle is
    work,         \* what is left of FlushPending's snapshot of pending changes
    items,        \* what is left of the ratings Reconcile has fetched
    trakt,        \* the ratings Trakt holds
    historyFails, \* the import of the history, which comes first, cannot succeed
    raced,        \* history: the last edit of the title overlapped its own flush
    astray,       \* history: the row last took over a rating of another title
    events        \* how many edits, failures and restarts there were

durable == <<rating, sync, identified, initialDone>>
outside == <<trakt, historyFails>>
vars == <<clock, durable, phase, work, items, outside, raced, astray, events>>

Never == -1
Rating == Values \union {NoRating}
Time == 0 .. MaxTime
Stamp == Int

SyncRow ==
    [lastLocal: Stamp, lastRemote: Stamp, remoteRating: Rating,
     pending: Rating, del: BOOLEAN, attempt: Nat, next: Stamp]

(* A title without a row behaves as one whose columns have their defaults. *)
EmptyRow ==
    [lastLocal |-> Never, lastRemote |-> Never, remoteRating |-> NoRating,
     pending |-> NoRating, del |-> FALSE, attempt |-> 0, next |-> Never]

WorkItem == [media: Media, value: Rating, del: BOOLEAN, attempt: Nat]
RemoteItem == [title: Titles, value: Values, at: Stamp]
TraktRating == [value: Rating, at: Stamp, ours: BOOLEAN]

-----------------------------------------------------------------------------
(* Timestamps are compared as the strings RFC3339Nano produces.  It drops a *)
(* zero fraction and 'Z' sorts after '.', so that among the stamps of one   *)
(* second the whole second is the greatest.                                 *)
StampRank(t) ==
    LET fraction == t % TicksPerSecond
    IN  (t - fraction) + (IF fraction = 0 THEN TicksPerSecond ELSE fraction)

After(s, t) == StampRank(s) > StampRank(t)

(* Trakt reports rated_at to the second. *)
WholeSecond(t) == t - (t % TicksPerSecond)

HasPending(m) == sync[m].pending # NoRating \/ sync[m].del

(* Mutant of Due: a change that failed once is not tried again. *)
DueOnce(m) == HasPending(m) /\ sync[m].attempt = 0

Due(m) == HasPending(m) /\ (sync[m].next = Never \/ ~After(sync[m].next, clock))

(* The three updates of a row: a local change is queued; the two sides have  *)
(* exchanged a rating; a failed change is put off.                          *)
(* Mutant of QueuedRow: a removal queues nothing. *)
QueuedRowForgetsRemoval(row, v) ==
    [row EXCEPT !.lastLocal = clock, !.pending = v, !.attempt = 0, !.next = clock]

QueuedRow(row, v) ==
    [lastLocal |-> clock, lastRemote |-> row.lastRemote, remoteRating |-> row.remoteRating,
     pending |-> v, del |-> (v = NoRating), attempt |-> 0, next |-> clock]

(* Mutant of ExchangedRow: the change stays in the queue. *)
ExchangedRowKeepsQueue(row, at, v) == [row EXCEPT !.lastRemote = at, !.remoteRating = v]

ExchangedRow(row, at, v) ==
    [lastLocal |-> row.lastLocal, lastRemote |-> at, remoteRating |-> v,
     pending |-> NoRating, del |-> FALSE, attempt |-> 0, next |-> Never]

(* Mutant of PutOffRow: a failed change is dropped from the queue. *)
PutOffRowDrops(row, attempt, next) ==
    [row EXCEPT !.attempt = attempt, !.next = next, !.pending = NoRating, !.del = FALSE]

PutOffRow(row, attempt, next) == [row EXCEPT !.attempt = attempt, !.next = next]

Queued(m) == \E w \in work : w.media = m

(* FlushPending sends in the order of media_id. *)
NextWork(w) == w \in work /\ \A other \in work : w.media <= other.media

(* The delay before a change is tried again: doubled by each attempt up to   *)
(* 64 seconds, at least what Trakt asks for, at most an hour.               *)
Backoff(attempt, retryAfter) ==
    LET doubled == <<1, 2, 4, 8, 16, 32, 64>>[IF attempt < 7 THEN attempt ELSE 7]
        delay == IF retryAfter > doubled THEN retryAfter ELSE doubled
    IN  TicksPerSecond * (IF delay > 3600 THEN 3600 ELSE delay)

-----------------------------------------------------------------------------
Init ==
    /\ clock = 0
    /\ rating = [m \in Media |-> NoRating]
    /\ sync = [m \in Media |-> EmptyRow]
    /\ identified = (Media \ NoTraktId) \union Shows
    /\ initialDone = FALSE
    /\ phase = "idle"
    /\ work = {}
    /\ items = {}
    /\ trakt = [t \in Titles |-> [value |-> NoRating, at |-> Never, ours |-> FALSE]]
    /\ historyFails = FALSE
    /\ raced = [m \in Media |-> FALSE]
    /\ astray = [m \in Media |-> FALSE]
    /\ events = 0

Tick ==
    /\ clock < MaxTime
    /\ clock' = clock + 1
    /\ UNCHANGED <<durable, phase, work, items, outside, raced, astray, events>>

(* Edits, failures and restarts happen in any mixture, up to the bound.      *)
Counted == events < MaxEvents /\ events' = events + 1

-----------------------------------------------------------------------------
(* The user edits a rating in WatchWeaver: one transaction writes the rating *)
(* and queues the change, whatever was queued before.                       *)
LocalEdit(m, v) ==
    /\ Counted
    /\ rating' = [rating EXCEPT ![m] = v]
    /\ sync' = [sync EXCEPT ![m] = QueuedRow(@, v)]
    /\ raced' = [raced EXCEPT ![m] = Queued(m)]
    /\ astray' = [astray EXCEPT ![m] = FALSE]
    /\ UNCHANGED <<clock, identified, initialDone, phase, work, items, outside>>

SetLocal == \E m \in Media, v \in Values : LocalEdit(m, v)

DeleteLocal == \E m \in Media : LocalEdit(m, NoRating)

RatedByUser == {t \in Titles : trakt[t].value # NoRating /\ ~trakt[t].ours}

(* Trakt's user edits or removes a rating on Trakt itself. *)
TraktUserEdits ==
    /\ Counted
    /\ \E t \in Titles, v \in Rating :
           /\ trakt[t].value # v
           /\ trakt' = [trakt EXCEPT ![t] = [value |-> v, at |-> WholeSecond(clock),
                                             ours |-> FALSE]]
    /\ Cardinality({NumberOf[t] : t \in RatedByUser'}) <= MaxNumbers
    /\ UNCHANGED <<clock, durable, phase, work, items, historyFails, raced, astray>>

(* The history gets an event that cannot be stored (HistoryImport's           *)
(* PersistFails), or the account is disconnected; or that is over.  Only a   *)
(* cycle that begins notices.                                               *)
HistoryChanges ==
    /\ phase = "idle"
    /\ historyFails' = ~historyFails
    /\ \/ historyFails /\ UNCHANGED events
       \/ Counted
    /\ UNCHANGED <<clock, durable, phase, work, items, trakt, raced, astray>>

-----------------------------------------------------------------------------
(* The cycle: the import of the history, then of the ratings (ImportInitial) *)
(* if it has never been done, then FlushPending, then Reconcile.            *)

(* A history update for a step that ends a cycle: a title whose change is    *)
(* still pending no longer has it in a flush.                               *)
RacedAndDropped == [m \in Media |-> raced[m] /\ ~HasPending(m)]

(* A call fails, the request's context ends, or the process restarts. *)
Abort ==
    /\ phase # "idle"
    /\ Counted
    /\ phase' = "idle"
    /\ work' = {}
    /\ items' = {}
    /\ raced' = RacedAndDropped
    /\ UNCHANGED <<clock, durable, outside, astray>>

(* A cycle that has no token or whose import of the history fails ends       *)
(* before it comes to the ratings, and leaves them as they are.             *)
BeginCycle ==
    /\ phase = "idle"
    /\ ~historyFails
    /\ phase' = "ready"
    /\ UNCHANGED <<clock, durable, work, items, outside, raced, astray, events>>

(* Mutant of FetchRatings: a title without a rating is taken for one of      *)
(* rating 0, which Reconcile's range check drops.                           *)
FetchEverything ==
    items' = {[title |-> t, value |-> trakt[t].value, at |-> trakt[t].at] : t \in Titles}

FetchRatings ==
    items' = {[title |-> t, value |-> trakt[t].value, at |-> trakt[t].at] :
                  t \in {u \in Titles : trakt[u].value # NoRating}}

BeginImportInitial ==
    /\ phase = "ready"
    /\ ~initialDone
    /\ phase' = "import"
    /\ FetchRatings
    /\ UNCHANGED <<clock, durable, work, outside, raced, astray, events>>

FinishImportInitial ==
    /\ phase = "import"
    /\ items = {}
    /\ initialDone' = TRUE
    /\ phase' = "ready"
    /\ UNCHANGED <<clock, rating, sync, identified, work, items, outside, raced, astray,
                   events>>

(* Mutant of BeginFlush: the snapshot takes every title. *)
BeginFlushTakesAll ==
    /\ phase = "ready"
    /\ initialDone
    /\ phase' = "flush"
    /\ work' = {[media |-> m, value |-> sync[m].pending, del |-> sync[m].del,
                 attempt |-> sync[m].attempt] : m \in Media}
    /\ UNCHANGED <<clock, durable, items, outside, raced, astray, events>>

(* FlushPending reads the due changes once, before it sends the first. *)
BeginFlush ==
    /\ phase = "ready"
    /\ initialDone
    /\ phase' = "flush"
    /\ work' = {[media |-> m, value |-> sync[m].pending, del |-> sync[m].del,
                 attempt |-> sync[m].attempt] : m \in {n \in Media : Due(n)}}
    /\ UNCHANGED <<clock, durable, items, outside, raced, astray, events>>

(* outboundIdentity finds no Trakt id: the flush and the cycle end here, and *)
(* the row is not touched.                                                  *)
FlushUnidentified ==
    /\ phase = "flush"
    /\ \E w \in work : NextWork(w) /\ w.media \notin identified
    /\ phase' = "idle"
    /\ work' = {}
    /\ raced' = RacedAndDropped
    /\ UNCHANGED <<clock, durable, items, outside, astray, events>>

(* Trakt stores what it is sent under its own time. *)
TraktStores(w) ==
    trakt' = [trakt EXCEPT ![w.media] =
                 [value |-> w.value, at |-> WholeSecond(clock), ours |-> TRUE]]

PostAccepted ==
    /\ phase = "flush"
    /\ \E w \in work : NextWork(w) /\ w.media \in identified /\ TraktStores(w)
    /\ phase' = "acked"
    /\ UNCHANGED <<clock, durable, work, items, historyFails, raced, astray, events>>

(* The POST fails, though Trakt may have stored the rating: recordFailure    *)
(* counts the attempt the snapshot saw and puts the next one off.           *)
PostFails ==
    /\ phase = "flush"
    /\ Counted
    /\ \E w \in work, retryAfter \in RetryAfters :
           LET m == w.media
               attempt == w.attempt + 1
               next == clock + Backoff(attempt, retryAfter)
           IN  /\ NextWork(w)
               /\ m \in identified
               /\ next <= MaxTime
               /\ sync' = [sync EXCEPT ![m] = PutOffRow(@, attempt, next)]
               /\ TraktStores(w) \/ UNCHANGED trakt
    /\ phase' = "idle"
    /\ work' = {}
    /\ raced' = RacedAndDropped
    /\ UNCHANGED <<clock, rating, identified, initialDone, items, historyFails, astray>>

(* flushOne marks the title as sent, without looking at what is pending now. *)
FlushDone ==
    /\ phase = "acked"
    /\ phase' = "flush"
    /\ \E w \in work :
           /\ NextWork(w)
           /\ work' = work \ {w}
           /\ sync' = [sync EXCEPT ![w.media] = ExchangedRow(@, clock, w.value)]
           /\ astray' = [astray EXCEPT ![w.media] = FALSE]
    /\ UNCHANGED <<clock, rating, identified, initialDone, items, outside, raced, events>>

BeginReconcile ==
    /\ phase = "flush"
    /\ work = {}
    /\ phase' = "reconcile"
    /\ FetchRatings
    /\ UNCHANGED <<clock, durable, work, outside, raced, astray, events>>

(* matchRating: the row that has the title's number, whatever either is of;  *)
(* or a season's row by its show and number, which is given the number then. *)
Known(t) == {r \in identified : NumberOf[r] = NumberOf[t]}

MatchRating(t) == IF Known(t) # {} THEN Known(t) ELSE {t} \intersect Seasons

(* Mutant of SeenBefore: a row is looked at until its first exchange. *)
SeenOnce(r, i) == sync[r].lastRemote # Never

(* applyRemote, for one fetched rating i and the row r it was matched to. *)
SeenBefore(r, i) == sync[r].lastRemote # Never /\ ~After(i.at, sync[r].lastRemote)

LocalIsNewer(r, i) == sync[r].lastLocal # Never /\ ~After(i.at, sync[r].lastLocal)

RemoteRecorded(r, i) ==
    /\ sync' = [sync EXCEPT ![r] = ExchangedRow(@, i.at, i.value)]
    /\ raced' = [raced EXCEPT ![r] = FALSE]
    /\ astray' = [astray EXCEPT ![r] = (i.title # r)]

Ignore(r, i) ==
    /\ \/ SeenBefore(r, i)
       \/ LocalIsNewer(r, i) /\ sync[r].pending # i.value
    /\ UNCHANGED <<rating, sync, raced, astray>>

Acknowledge(r, i) ==
    /\ ~SeenBefore(r, i)
    /\ LocalIsNewer(r, i)
    /\ sync[r].pending = i.value
    /\ RemoteRecorded(r, i)
    /\ UNCHANGED rating

Adopt(r, i) ==
    /\ ~SeenBefore(r, i)
    /\ ~LocalIsNewer(r, i)
    /\ rating' = [rating EXCEPT ![r] = i.value]
    /\ RemoteRecorded(r, i)

(* A rating for which there is no row is passed over. *)
ApplyRemote ==
    /\ phase \in {"import", "reconcile"}
    /\ \E i \in items :
           /\ items' = items \ {i}
           /\ identified' = identified \union MatchRating(i.title)
           /\ \/ MatchRating(i.title) = {} /\ UNCHANGED <<rating, sync, raced, astray>>
              \/ \E r \in MatchRating(i.title) \ Shows :
                     Ignore(r, i) \/ Acknowledge(r, i) \/ Adopt(r, i)
    /\ UNCHANGED <<clock, initialDone, phase, work, outside, events>>

(* The table of ratings refuses one for a show's row; the cycle ends.        *)
ShowRefused ==
    /\ phase \in {"import", "reconcile"}
    /\ \E i \in items : MatchRating(i.title) \intersect Shows # {}
    /\ phase' = "idle"
    /\ items' = {}
    /\ raced' = RacedAndDropped
    /\ UNCHANGED <<clock, durable, work, outside, astray, events>>

FinishReconcile ==
    /\ phase = "reconcile"
    /\ items = {}
    /\ phase' = "idle"
    /\ UNCHANGED <<clock, durable, work, items, outside, raced, astray, events>>

-----------------------------------------------------------------------------
Cycle ==
    \/ BeginCycle \/ BeginImportInitial \/ FinishImportInitial
    \/ BeginFlush \/ FlushUnidentified \/ PostAccepted \/ FlushDone
    \/ BeginReconcile \/ ApplyRemote \/ ShowRefused \/ FinishReconcile

Next ==
    \/ Tick
    \/ SetLocal \/ DeleteLocal \/ TraktUserEdits \/ HistoryChanges
    \/ Cycle \/ PostFails \/ Abort

(* The goroutine that runs the cycle is scheduled, its timer fires for ever, *)
(* and a call to Trakt ends, with an answer or an error; nobody has to edit  *)
(* a rating, and nothing has to fail.                                       *)
Spec == Init /\ [][Next]_vars /\ WF_vars(Cycle) /\ WF_vars(Tick)

-----------------------------------------------------------------------------
TypeOK ==
    /\ clock \in Nat
    /\ rating \in [Media -> Rating]
    /\ sync \in [Media -> SyncRow]
    /\ identified \subseteq Media \union Shows
    /\ initialDone \in BOOLEAN
    /\ phase \in {"idle", "ready", "import", "flush", "acked", "reconcile"}
    /\ work \subseteq WorkItem
    /\ items \subseteq RemoteItem
    /\ trakt \in [Titles -> TraktRating]
    /\ historyFails \in BOOLEAN
    /\ raced \in [Media -> BOOLEAN] /\ astray \in [Media -> BOOLEAN]
    /\ events \in Nat

(* A queued change is the title's current rating, and a queued removal means *)
(* there is none: SetLocal, DeleteLocal and applyRemote keep the two tables  *)
(* in step, whichever of them interleave.                                   *)
PendingIsCurrent ==
    \A m \in Media :
        /\ sync[m].pending # NoRating => rating[m] = sync[m].pending /\ ~sync[m].del
        /\ sync[m].del => rating[m] = NoRating

(* A title with nothing queued shows the rating last exchanged with Trakt.   *)
Acknowledged(m) == ~HasPending(m) => rating[m] = sync[m].remoteRating

(* An acknowledged change is never lost unless the title was edited while it *)
(* was itself being flushed: no failure, restart, retry or remote edit makes *)
(* WatchWeaver forget a change before it has exchanged a rating for the row. *)
OnlyOverlapLosesAChange == \A m \in Media : raced[m] \/ Acknowledged(m)

(* What Trakt holds from WatchWeaver is what WatchWeaver shows, once nothing *)
(* is queued: lost answers and repeated requests leave the two in agreement. *)
(* Excepted are a title edited during its own flush, and one whose row last  *)
(* took over the rating of another title that has the same number.          *)
DeliveredIsShown ==
    \A m \in Media :
        trakt[m].ours /\ ~HasPending(m) /\ ~raced[m] /\ ~astray[m]
            => trakt[m].value = rating[m]

(* What makes the two properties above inductive.  Outside a flush nothing   *)
(* is in the snapshot, and outside a reconciliation nothing is fetched; a    *)
(* title is in the snapshot once, is pending as long as it is there, and     *)
(* shows what will be sent unless it was edited meanwhile; what Trakt holds  *)
(* from WatchWeaver is the change just accepted, or the rating just fetched. *)
CycleInv ==
    /\ phase \notin {"flush", "acked"} => work = {}
    /\ phase \notin {"import", "reconcile"} => items = {}
    /\ \A w1, w2 \in work : w1.media = w2.media => w1 = w2
    /\ \A w \in work : HasPending(w.media) /\ (raced[w.media] \/ rating[w.media] = w.value)
    /\ phase = "acked" =>
           \A w \in work : NextWork(w) /\ trakt[w.media].ours => trakt[w.media].value = w.value
    /\ \A i \in items : trakt[i.title].ours => trakt[i.title].value = i.value

IInv ==
    TypeOK /\ CycleInv /\ PendingIsCurrent /\ OnlyOverlapLosesAChange /\ DeliveredIsShown

(* docs/trakt.md: a rating changed in WatchWeaver is written to Trakt. *)
NoChangeIsLost == \A m \in Media : Acknowledged(m)

(* A due change waits behind a title of smaller id that Trakt cannot be told *)
(* about.                                                                   *)
Blocked(m) == \E n \in Media : n <= m /\ HasPending(n) /\ n \notin identified

(* A rating that Trakt holds is matched to the row of a show, which ends the *)
(* import of the ratings, and every reconciliation, until it is removed.    *)
Refused == \E t \in Titles : trakt[t].value # NoRating /\ MatchRating(t) \intersect Shows # {}

(* Every queued change leaves the queue, through failures and restarts,      *)
(* unless a title without a Trakt id blocks it, the history cannot be        *)
(* imported, or the ratings have never been and are refused.                *)
DrainsUnlessBlocked ==
    \A m \in Media :
        HasPending(m)
            ~> \/ ~HasPending(m)
               \/ Blocked(m) \/ historyFails \/ (~initialDone /\ Refused)

(* A rating its user gave on Trakt that is newer than every change and every *)
(* exchange of the title is shown at last, unless it is changed on Trakt or  *)
(* sent over once more, the cycle is kept from reconciling by one of the     *)
(* obstacles above, or the number is another title's too: then the rating    *)
(* may go to the other's row, or the other's be taken for it and the rating  *)
(* for one seen before.  Excepted are also a rating given while a change of  *)
(* the title is in the snapshot of a flush, because the acknowledgement is   *)
(* then stored as the later one, and one given in the second of a rating     *)
(* already fetched.                                                         *)
GivenOnTrakt(m, v) ==
    /\ trakt[m].value = v /\ ~trakt[m].ours
    /\ After(trakt[m].at, sync[m].lastRemote)
    /\ After(trakt[m].at, sync[m].lastLocal)
    /\ ~Queued(m)
    /\ \A i \in items : i.title = m => i.value = v

TraktRatingIsAdopted ==
    \A m \in Media, v \in Values :
        GivenOnTrakt(m, v)
            ~> \/ rating[m] = v
               \/ trakt[m].ours \/ trakt[m].value # v
               \/ historyFails \/ Refused \/ \E n \in Media : Blocked(n)
               \/ astray[m] \/ m \notin MatchRating(m)

(* docs/trakt.md: pending outbound work is durable and synchronisation       *)
(* resumes, so that a queued change of a title Trakt knows is sent.         *)
IdentifiedChangeIsSent ==
    \A m \in Media \ NoTraktId : HasPending(m) ~> ~HasPending(m)

-----------------------------------------------------------------------------
(* The cycle seen as an outbox: the queue is the outbox, and the snapshot of *)
(* a flush the copies that are being sent.                                  *)
Outbox == INSTANCE RatingOutbox WITH
    shown <- rating,
    agreed <- [m \in Media |-> sync[m].remoteRating],
    outbox <- {m \in Media : HasPending(m)},
    sending <- {[media |-> w.media, value |-> w.value] : w \in work}

(* Whatever the clocks say, however often a call fails or is repeated and    *)
(* wherever the cycle is cut, the synchronisation is such an outbox: a       *)
(* change leaves the queue only when a copy of it was delivered or a rating  *)
(* was taken over, and no rating is taken over while copies are being sent.  *)
ImplementsOutbox == Outbox!Spec

=============================================================================
