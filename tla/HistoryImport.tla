---------------------------- MODULE HistoryImport ----------------------------
(***************************************************************************)
(* Import of the Trakt watch history: the initial import, which marks what *)
(* it finds as the baseline, and the poller, which looks back from a       *)
(* checkpoint.                                                             *)
(*                                                                         *)
(* Both read the history page by page, newest event first, and persist     *)
(* each event in a transaction of its own, while events arrive on Trakt    *)
(* and are removed from it.  The transaction also stores the titles of the *)
(* event that are not known yet, and fails if it cannot.  An import can    *)
(* end at any point in a failure or a restart; the tables survive.  The    *)
(* ratings that are synchronised between two imports give Trakt ids to the *)
(* seasons, which the import has stored without.                           *)
(***************************************************************************)
EXTENDS Integers, FiniteSets, FiniteSetsExt, Sequences, Functions

CONSTANTS
    Events,         \* Trakt history ids
    InitialHistory, \* the events Trakt holds before WatchWeaver is connected
    Histories,      \* what the events may be watches of: functions from Events
    PageSize,       \* events in a page
    Overlap,        \* how far a poll looks back from the checkpoint
    MaxRetries,     \* attempts of one poll
    Delays,         \* bound: how long after it was watched an event reaches Trakt
    MaxTime,        \* bound: last tick of the clock
    MaxRemovals,    \* bound: events removed from Trakt
    MaxFailures     \* bound: failed imports and restarts

ASSUME EventsAssumption ==
    Events \subseteq Nat /\ InitialHistory \subseteq Events /\ IsFiniteSet(InitialHistory)
ASSUME HistoriesAssumption ==
    \A h \in Histories : \A e \in Events : h[e].kind \in {"movie", "episode", "invalid"}
ASSUME PageAssumption == PageSize \in Nat \ {0} /\ MaxRetries \in Nat \ {0}
ASSUME TimeAssumption == Overlap \in Nat /\ Delays \subseteq Nat /\ MaxTime \in Nat

VARIABLES
    clock,
    present,      \* the events Trakt holds
    watched,      \* when an event was watched
    subject,      \* what an event is a watch of
    late,         \* history: events that reached Trakt after more than the overlap
    imported,     \* table watch_events
    baseline,     \* the imported events with is_baseline = 1
    titles,       \* table media_items, with the Trakt ids they were stored with
    seasonIds,    \* table external_ids: the Trakt ids that seasons were given later
    recorded,     \* watch_events.media_id: the title an event is recorded against
    initialDone,  \* integration_state: initial_history_complete
    checkpoint,   \* integration_state: history_poll_checkpoint
    phase,        \* what the synchronisation cycle does
    page, pages,  \* importAll: last page fetched, page count it reported
    pageItems,    \* importAll: events of that page still to be persisted
    since,        \* importAll: start of the period asked for
    attempt,      \* Poll: number of this attempt
    newcomers,    \* history: events that arrived since the first page was fetched
    history,      \* history: what Trakt held when an initial import began
    shifted,      \* history: events a removal may have moved to a page already read
    missedFirst,  \* history: what the first poll to succeed did not look back to
    outrun,       \* history: newcomers of a poll that went on for too long after
    removals, failures

import == <<page, pages, pageItems, since, attempt, newcomers>>
media == <<titles, seasonIds>>
events == <<imported, baseline, media, recorded>>
excuses == <<missedFirst, outrun>>
tables == <<events, initialDone, checkpoint>>
traktVars == <<present, watched, subject, late, shifted, removals>>
vars == <<clock, traktVars, tables, phase, import, history, excuses, failures>>

Never == -1
NoId == 0
NoRow == [kind |-> "none"]

-----------------------------------------------------------------------------
(* What Trakt answers: the events of a period newest first, cut into pages   *)
(* as the list is when the page is asked for.                               *)
Newer(e, f) == watched[e] > watched[f] \/ (watched[e] = watched[f] /\ e > f)

Listed(start) == {e \in present : watched[e] >= start}

PageOf(n, start) ==
    {e \in Listed(start) :
        Cardinality({f \in Listed(start) : Newer(f, e)}) \div PageSize = n - 1}

PageCount(start) ==
    LET full == (Cardinality(Listed(start)) + PageSize - 1) \div PageSize
    IN  IF full = 0 THEN 1 ELSE full

(* Poller.checkpoint: without a stored one, the latest event imported, and   *)
(* without any the present.                                                 *)
Checkpoint ==
    IF checkpoint # Never THEN checkpoint
    ELSE IF imported # {} THEN Max({watched[e] : e \in imported})
    ELSE clock

(* Mutant of LookBack: a poll starts at the checkpoint. *)
NoLookBack == Checkpoint

LookBack == Checkpoint - Overlap

(* Mutant of AllRead: one page is enough. *)
FirstPageRead == page >= 1 /\ pageItems = {}

AllRead == page >= pages /\ pageItems = {}

-----------------------------------------------------------------------------
(* The titles of an event, as rows that hold their parent.  A movie or a     *)
(* show of which Trakt gives no id gets a new row with every event; the      *)
(* season of an episode is stored without an id.                            *)
Row(kind, parent, number, trakt) ==
    [kind |-> kind, parent |-> parent, number |-> number, trakt |-> trakt]

Apart(e, trakt) == IF trakt = NoId THEN e ELSE 0

MovieRow(e) == Row("movie", NoRow, Apart(e, subject[e].trakt), subject[e].trakt)
ShowRow(e) == Row("show", NoRow, Apart(e, subject[e].show), subject[e].show)
SeasonRow(e, show) == Row("season", show, subject[e].season, NoId)
EpisodeRow(e, season) == Row("episode", season, subject[e].number, subject[e].trakt)

(* Trakt numbers movies, shows, seasons and episodes apart; external_ids,    *)
(* where a row is looked up by its Trakt id, does not.                      *)
Known(rows, trakt) ==
    {x \in rows : trakt # NoId /\ (x.trakt = trakt \/ <<x, trakt>> \in seasonIds)}

(* Mutant of Numbered: the season of any show will do. *)
NumberedAnywhere(rows, r) ==
    {x \in rows : r.kind \in {"season", "episode"} /\ x.kind = r.kind /\ x.number = r.number}

(* The unique indexes on the numbers of seasons and episodes. *)
Numbered(rows, r) ==
    {x \in rows : /\ r.kind \in {"season", "episode"} /\ x.kind = r.kind
                  /\ x.parent = r.parent /\ x.number = r.number}

(* The trigger that validates the parent of a new row. *)
ParentFits(r) ==
    /\ r.kind = "season" => r.parent.kind = "show"
    /\ r.kind = "episode" => r.parent.kind = "season"

(* The row found for r, or r to be inserted, or none if it cannot be. *)
EnsureMediaItem(rows, r) ==
    IF Known(rows, r.trakt) # {} THEN Known(rows, r.trakt)
    ELSE IF Numbered(rows, r) # {} THEN Numbered(rows, r)
    ELSE {x \in {r} : ParentFits(x)}

(* The rows an event needs: a movie, or a show, a season and an episode, the *)
(* last of them being its own; no such sequence when one cannot be stored.   *)
EnsureMedia(e) ==
    CASE subject[e].kind = "movie" ->
             {<<movie>> : movie \in EnsureMediaItem(titles, MovieRow(e))}
      [] subject[e].kind = "episode" ->
             UNION {UNION {{<<show, season, episode>> :
                 episode \in EnsureMediaItem(titles \union {show, season},
                                             EpisodeRow(e, season))} :
                 season \in EnsureMediaItem(titles \union {show}, SeasonRow(e, show))} :
                 show \in EnsureMediaItem(titles, ShowRow(e))}
      [] OTHER -> {}

Unstorable(e) == EnsureMedia(e) = {}

-----------------------------------------------------------------------------
Init ==
    /\ clock = 0
    /\ present = InitialHistory
    /\ watched = [e \in Events |-> IF e \in InitialHistory THEN 0 ELSE Never]
    /\ subject \in Histories
    /\ late = {}
    /\ titles = {}
    /\ seasonIds = {}
    /\ recorded = [e \in Events |-> NoRow]
    /\ imported = {}
    /\ baseline = {}
    /\ initialDone = FALSE
    /\ checkpoint = Never
    /\ phase = "idle"
    /\ page = 0
    /\ pages = 1
    /\ pageItems = {}
    /\ since = 0
    /\ attempt = 0
    /\ newcomers = {}
    /\ history = {}
    /\ shifted = {}
    /\ missedFirst = {}
    /\ outrun = {}
    /\ removals = 0
    /\ failures = 0

Tick ==
    /\ clock < MaxTime
    /\ clock' = clock + 1
    /\ UNCHANGED <<traktVars, tables, phase, import, history, excuses, failures>>

(* An event reaches Trakt, which numbers them in that order, at once or      *)
(* later; it is late when the overlap does not make up for the delay.        *)
Arrive ==
    /\ \E e \in Events, delay \in {d \in Delays : d <= clock} :
           /\ watched[e] = Never
           /\ \A f \in Events : f < e => watched[f] # Never
           /\ present' = present \union {e}
           /\ watched' = [watched EXCEPT ![e] = clock - delay]
           /\ late' = late \union {x \in {e} : delay > Overlap}
           /\ newcomers' = newcomers \union (IF page = 0 THEN {} ELSE {e})
    /\ UNCHANGED <<clock, subject, tables, phase, page, pages, pageItems, since, attempt,
                   history, shifted, excuses, removals, failures>>

(* The user removes an event from Trakt: what follows it moves up. *)
Remove ==
    /\ removals < MaxRemovals
    /\ removals' = removals + 1
    /\ \E e \in present : present' = present \ {e}
    /\ shifted' = shifted \union (IF page = 0 THEN {} ELSE present \ imported)
    /\ UNCHANGED <<clock, watched, subject, late, tables, phase, import, history, excuses,
                   failures>>

-----------------------------------------------------------------------------
(* importAll starts at the first page of the period from start. *)
StartImport(start) ==
    /\ page' = 0
    /\ pages' = 1
    /\ pageItems' = {}
    /\ since' = start
    /\ newcomers' = {}

(* It ends, and what it has persisted stays. *)
StopImport(next) ==
    /\ phase' = next
    /\ StartImport(0)
    /\ attempt' = 0

(* The initial import reads the whole history, a failed one again. *)
BeginInitial ==
    /\ phase = "idle"
    /\ ~initialDone
    /\ phase' = "initial"
    /\ StartImport(0)
    /\ history' = history \union present
    /\ UNCHANGED <<clock, traktVars, tables, attempt, excuses, failures>>

FetchPage ==
    /\ phase \in {"initial", "poll"}
    /\ pageItems = {}
    /\ page < pages
    /\ page' = page + 1
    /\ pages' = PageCount(since)
    /\ pageItems' = PageOf(page + 1, since)
    /\ UNCHANGED <<clock, traktVars, tables, phase, since, attempt, newcomers, history,
                   excuses, failures>>

(* Mutant of Flagged: only the first page is taken for the baseline. *)
FlaggedOnFirstPage(e) == IF phase = "initial" /\ page = 1 THEN {e} ELSE {}

Flagged(e) == IF phase = "initial" THEN {e} ELSE {}

NewestOnPage(e) == e \in pageItems /\ \A f \in pageItems \ {e} : Newer(e, f)

StoreEvent(e) ==
    \E rows \in EnsureMedia(e) :
        /\ titles' = titles \union Range(rows)
        /\ recorded' = [recorded EXCEPT ![e] = rows[Len(rows)]]

(* One event of the page, in a transaction of its own; one imported before   *)
(* is left as it is.                                                        *)
PersistNewest ==
    /\ phase \in {"initial", "poll"}
    /\ \E e \in pageItems :
           /\ NewestOnPage(e)
           /\ pageItems' = pageItems \ {e}
           /\ \/ e \in imported /\ UNCHANGED events
              \/ /\ e \notin imported
                 /\ StoreEvent(e)
                 /\ UNCHANGED seasonIds
                 /\ imported' = imported \union {e}
                 /\ baseline' = baseline \union Flagged(e)
    /\ UNCHANGED <<clock, traktVars, initialDone, checkpoint, phase, page, pages, since,
                   attempt, newcomers, history, excuses, failures>>

FinishInitial ==
    /\ phase = "initial"
    /\ AllRead
    /\ initialDone' = TRUE
    /\ phase' = "ready"
    /\ UNCHANGED <<clock, traktVars, events, checkpoint, import, history, excuses, failures>>

(* Poll computes the period once, for all its attempts. *)
BeginPoll ==
    /\ \/ phase = "idle" /\ initialDone
       \/ phase = "ready"
    /\ phase' = "poll"
    /\ StartImport(LookBack)
    /\ attempt' = 1
    /\ UNCHANGED <<clock, traktVars, tables, history, excuses, failures>>

(* Mutant of AttemptsLeft: one attempt too many. *)
OneMoreAttempt == attempt <= MaxRetries

AttemptsLeft == attempt < MaxRetries

(* Another attempt is made after a while, unless this was the last. *)
AttemptEnds ==
    \/ /\ AttemptsLeft
       /\ phase' = "sleep"
       /\ UNCHANGED import
    \/ /\ ~AttemptsLeft
       /\ StopImport("idle")

AttemptFails ==
    /\ phase = "poll"
    /\ failures < MaxFailures
    /\ failures' = failures + 1
    /\ AttemptEnds
    /\ UNCHANGED <<clock, traktVars, tables, history, excuses>>

(* An event that cannot be stored ends the import, and leaves the events     *)
(* that follow it unread.                                                   *)
PersistFails ==
    /\ \E e \in pageItems \ imported : NewestOnPage(e) /\ Unstorable(e)
    /\ \/ phase = "initial" /\ StopImport("idle")
       \/ phase = "poll" /\ AttemptEnds
    /\ UNCHANGED <<clock, traktVars, tables, history, excuses, failures>>

RetryAttempt ==
    /\ phase = "sleep"
    /\ phase' = "poll"
    /\ StartImport(since)
    /\ attempt' = attempt + 1
    /\ UNCHANGED <<clock, traktVars, tables, history, excuses, failures>>

(* The checkpoint is the time at which the poll ended. *)
FinishPoll ==
    /\ phase = "poll"
    /\ AllRead
    /\ checkpoint' = clock
    /\ missedFirst' = IF checkpoint # Never THEN missedFirst
                      ELSE {e \in present \ imported : watched[e] < since}
    /\ outrun' = outrun \union {e \in newcomers \ imported : watched[e] < clock - Overlap}
    /\ StopImport("ratings")
    /\ UNCHANGED <<clock, traktVars, events, initialDone, history, failures>>

(* The cycle goes on with the ratings.  A rating of a season whose row has   *)
(* no Trakt id yet gives it one, if the table has no such id already.        *)
IdentifySeason ==
    /\ phase = "ratings"
    /\ \E e \in Events, x \in titles :
           /\ subject[e].kind = "episode" /\ subject[e].show # NoId
           /\ x.kind = "season" /\ x.number = subject[e].season
           /\ x.parent.trakt = subject[e].show
           /\ subject[e].seasonId # NoId /\ Known(titles, subject[e].seasonId) = {}
           /\ \A y \in seasonIds : y[1] # x
           /\ seasonIds' = seasonIds \union {<<x, subject[e].seasonId>>}
    /\ UNCHANGED <<clock, traktVars, imported, baseline, titles, recorded, initialDone,
                   checkpoint, phase, import, history, excuses, failures>>

FinishRatings ==
    /\ phase = "ratings"
    /\ phase' = "idle"
    /\ UNCHANGED <<clock, traktVars, tables, import, history, excuses, failures>>

(* A failed call outside a poll, the end of the context, or a restart. *)
Abort ==
    /\ phase # "idle"
    /\ failures < MaxFailures
    /\ failures' = failures + 1
    /\ StopImport("idle")
    /\ UNCHANGED <<clock, traktVars, tables, history, excuses>>

-----------------------------------------------------------------------------
Importer ==
    \/ BeginInitial \/ FetchPage \/ PersistNewest \/ PersistFails \/ FinishInitial
    \/ BeginPoll \/ RetryAttempt \/ FinishPoll \/ IdentifySeason \/ FinishRatings

Next == Tick \/ Arrive \/ Remove \/ Importer \/ AttemptFails \/ Abort

(* The cycle's goroutine runs for ever; Trakt's user does as he likes. *)
Spec == Init /\ [][Next]_vars /\ WF_vars(Importer)

-----------------------------------------------------------------------------
TypeOK ==
    /\ clock \in Nat
    /\ present \subseteq Events
    /\ watched \in [Events -> Int] /\ late \subseteq Events
    /\ imported \subseteq Events /\ baseline \subseteq imported
    /\ initialDone \in BOOLEAN
    /\ checkpoint \in Int
    /\ subject \in Histories
    /\ \A r \in titles : r.parent \in titles \union {NoRow}
    /\ seasonIds \subseteq titles \X {subject[e].seasonId : e \in Events}
    /\ recorded \in [Events -> titles \union {NoRow}]
    /\ phase \in {"idle", "initial", "ready", "poll", "sleep", "ratings"}
    /\ page \in Nat /\ pages \in Nat \ {0} /\ pageItems \subseteq Events
    /\ since \in Int
    /\ attempt \in 0 .. MaxRetries
    /\ history \subseteq Events /\ shifted \subseteq Events /\ newcomers \subseteq Events
    /\ missedFirst \subseteq Events /\ outrun \subseteq Events
    /\ removals \in Nat /\ failures \in Nat

Excused == late \union missedFirst \union shifted \union outrun

(* Once a poll has succeeded, the next one looks back to every event not yet *)
(* imported: no failure, retry, restart or page that moved while it was read *)
(* lets the checkpoint pass an event, but for the late ones, those that the  *)
(* first poll did not ask for, those a removal moved up, and those that      *)
(* arrived while an attempt of a poll was reading, which then went on for    *)
(* longer than the overlap makes up for.                                    *)
NothingFallsBehind ==
    checkpoint # Never =>
        \A e \in present \ imported : e \in Excused \/ watched[e] >= checkpoint - Overlap

(* What Trakt held when the initial import began is never taken for a new    *)
(* watch, though the import may have been cut and begun again.              *)
BaselineIsHistory == \A e \in imported \ baseline : e \notin history \/ e \in shifted

(* A watch is recorded against the title it is of, and two watches of a      *)
(* title against the same row, whichever of them was imported first and      *)
(* whether Trakt has numbered the episode anew meanwhile; excepted are       *)
(* titles of two kinds to which Trakt gives the same number, and, from the   *)
(* second half, an episode whose number it also gives to another place, and  *)
(* a movie or a show to which it gives none.                                *)
TitlesOf(s) ==
    CASE s.kind = "movie" -> {<<"movie", s.trakt>>}
      [] s.kind = "episode" ->
             {<<"show", s.show>>, <<"season", s.seasonId>>, <<"episode", s.trakt>>}
      [] OTHER -> {}

SharesId(e) ==
    \E f \in Events, x \in TitlesOf(subject[e]) : \E y \in TitlesOf(subject[f]) :
        x[2] # NoId /\ x[2] = y[2] /\ x[1] # y[1]

HasNoId(e) ==
    \/ subject[e].kind = "movie" /\ subject[e].trakt = NoId
    \/ subject[e].kind = "episode" /\ subject[e].show = NoId

HasTwoPlaces(e) ==
    \E f \in Events :
        /\ subject[e].kind = "episode" /\ subject[f].kind = "episode"
        /\ subject[f].trakt = subject[e].trakt /\ subject[e].trakt # NoId
        /\ \/ subject[f].show # subject[e].show
           \/ subject[f].season # subject[e].season
           \/ subject[f].number # subject[e].number

AtPlaceOf(r, e) ==
    /\ r.number = subject[e].number
    /\ r.parent.number = subject[e].season /\ r.parent.parent = ShowRow(e)

IsTitleOf(r, e) ==
    /\ r.kind = subject[e].kind
    /\ \/ subject[e].trakt # NoId /\ r.trakt = subject[e].trakt
       \/ subject[e].kind = "movie" /\ r = MovieRow(e)
       \/ subject[e].kind = "episode" /\ AtPlaceOf(r, e)

WatchIsOfItsTitle ==
    \A e \in imported :
        \/ SharesId(e)
        \/ /\ IsTitleOf(recorded[e], e)
           /\ \/ HasTwoPlaces(e) \/ HasNoId(e)
              \/ \A f \in imported : subject[f] = subject[e] => recorded[f] = recorded[e]

(* Every event Trakt holds is imported in the end, unless one that cannot be *)
(* stored, and that no later import will get past either, is listed before   *)
(* it.                                                                      *)
Behind(e) == \E f \in present \ imported : ~Newer(e, f) /\ Unstorable(f)

TimelyEventIsImported ==
    \A e \in Events :
        e \in present ~> (e \in imported \/ e \notin present \/ e \in Excused \/ Behind(e))

(* docs/trakt.md: a restart is safe at any point of the polling cycle.  Once  *)
(* the initial import is done, the next poll looks back to every event that  *)
(* no import has read.                                                      *)
NothingIsLeftBehind ==
    initialDone /\ phase = "idle" => \A e \in present \ imported : watched[e] >= LookBack

=============================================================================
