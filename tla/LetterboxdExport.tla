--------------------------- MODULE LetterboxdExport ---------------------------
(***************************************************************************)
(* Export of movie watches, ratings and reviews to Letterboxd in batches   *)
(* the user imports and confirms.                                          *)
(*                                                                         *)
(* A batch is put together by reading the watches, then, for each movie    *)
(* and day, the rating, the review, their revisions and what was confirmed,*)
(* each in a statement of its own, and only stored in a transaction.       *)
(* Watches, edits and confirmations come between any two statements.       *)
(***************************************************************************)
EXTENDS Integers, FiniteSets, Sequences, SequencesExt, FiniteSetsExt

CONSTANTS
    Events,      \* watch events
    Movies,
    Instants,    \* when movies are watched
    Days,        \* calendar days
    Zones,       \* timezones: functions from instants to days
    Values,      \* ratings and review texts
    NoValue,     \* no rating, no review
    NoWatch,     \* an event that has not been imported
    HeaderSize,  \* bytes of a file's header
    MaxBytes,    \* a file stays below so many bytes
    MaxEdits,    \* bound: ratings and reviews written or removed
    MaxBatches   \* bound: batches generated

ASSUME DaysAssumption ==
    /\ Days \subseteq Nat /\ Instants \subseteq Nat
    /\ Zones \subseteq [Instants -> Days]
    /\ \A z \in Zones : \A i, j \in Instants : i <= j => z[i] <= z[j]
ASSUME SizeAssumption == HeaderSize \in Nat /\ MaxBytes \in Nat
ASSUME ValuesAssumption == NoValue \notin Values
ASSUME NoWatchAssumption == NoWatch \notin (Movies \X Days) \union (Movies \X Instants)

VARIABLES
    watch,    \* table watch_events: movie and time of an event
    zone,     \* app_settings: timezone
    current,  \* tables ratings and reviews
    changes,  \* table letterboxd_media_changes: revisions
    batches,  \* tables letterboxd_batches, _rows and _events
    confirmations,  \* how often a batch was confirmed: orders confirmed_at
    diary,    \* history: what the user has imported into Letterboxd
    torn,     \* history: movies exported with a value older than its revision
    at,       \* Generate: its next statement
    todo,     \* Generate: movies and days still to be looked at
    location, \* Generate: the timezone it works in
    watched,  \* Generate: the watches it has loaded, by movie and day
    row,      \* Generate: the row it puts together
    rows,     \* Generate: the rows of the batch
    edits

generator == <<at, location, todo, watched, row, rows>>
tables == <<watch, zone, current, changes, batches, confirmations, diary, torn>>
vars == <<tables, generator, edits>>

Kinds == {"rating", "review"}
Value == Values \union {NoValue}
Keys == Movies \X Days

Nothing == [k \in Kinds |-> NoValue]
Unrevised == [k \in Kinds |-> 0]

(* An export row; seen is history: the revision of each value when it was    *)
(* read.                                                                    *)
Row ==
    [key: Keys, events: SUBSET Events, values: [Kinds -> Value],
     revision: [Kinds -> Nat], seen: [Kinds -> Nat]]

Batch == [zone: Zones, rows: Seq(Row), files: Seq(Seq(Row)), confirmed: Nat]

-----------------------------------------------------------------------------
(* The watches as they fall on the days of a timezone. *)
WatchedIn(z) ==
    [e \in Events |-> IF watch[e] = NoWatch THEN NoWatch ELSE <<watch[e][1], z[watch[e][2]]>>]

EventsOn(w, key) == {e \in Events : w[e] = key}

KeysOf(w) == {w[e] : e \in Events} \ {NoWatch}

(* The latest day on which a movie was watched carries its rating and its    *)
(* review.                                                                  *)
(* Mutant of IsLatest: every day does. *)
IsAnyDay(w, key) == key \in KeysOf(w)

IsLatest(w, key) == \A other \in KeysOf(w) : other[1] = key[1] => other[2] <= key[2]

NewRow(w, key) ==
    [key |-> key, events |-> EventsOn(w, key), values |-> Nothing,
     revision |-> Unrevised, seen |-> Unrevised]

RowsOf(m, b) == {i \in DOMAIN batches[b].rows : batches[b].rows[i].key[1] = m}

Confirmed(b) == batches[b].confirmed > 0

Unconfirmed(e) ==
    \A b \in DOMAIN batches : Confirmed(b) =>
        \A i \in DOMAIN batches[b].rows : e \notin batches[b].rows[i].events

(* The batches that hold a movie, and the row of it confirmed last. *)
ConfirmedWith(m) == {b \in DOMAIN batches : Confirmed(b) /\ RowsOf(m, b) # {}}

(* Mutant of LastRow: of the batch generated last. *)
LastGeneratedRow(m) ==
    LET b == Max(ConfirmedWith(m)) IN batches[b].rows[Max(RowsOf(m, b))]

LastRow(m) ==
    LET b == CHOOSE x \in ConfirmedWith(m) :
                 \A y \in ConfirmedWith(m) : batches[y].confirmed <= batches[x].confirmed
    IN  batches[b].rows[Max(RowsOf(m, b))]

(* Mutant of MetadataPending: only a change of both counts. *)
BothRevised(r) ==
    /\ \E k \in Kinds : r.revision[k] > 0
    /\ ConfirmedWith(r.key[1]) # {} =>
           \A k \in Kinds : r.revision[k] > LastRow(r.key[1]).revision[k]

MetadataPending(r) ==
    /\ \E k \in Kinds : r.revision[k] > 0
    /\ ConfirmedWith(r.key[1]) # {} =>
           \E k \in Kinds : r.revision[k] > LastRow(r.key[1]).revision[k]

IsPending(r) == (\E e \in r.events : Unconfirmed(e)) \/ MetadataPending(r)

-----------------------------------------------------------------------------
(* The files of a batch.  A row takes a byte, and one for each value.  A row *)
(* that would fill the open file begins the next one.                       *)
Size(r) == 1 + Cardinality({k \in Kinds : r.values[k] # NoValue})

FileSize(file) ==
    LET size[i \in 0 .. Len(file)] ==
            IF i = 0 THEN HeaderSize ELSE size[i - 1] + Size(file[i])
    IN  size[Len(file)]

TooLarge(s) == \E i \in DOMAIN s : HeaderSize + Size(s[i]) >= MaxBytes

(* Mutant of AddRow: the row that does not fit is left out. *)
DropRow(files, r) ==
    IF FileSize(Append(Last(files), r)) >= MaxBytes
    THEN Append(files, <<>>)
    ELSE Append(Front(files), Append(Last(files), r))

AddRow(files, r) ==
    IF FileSize(Append(Last(files), r)) >= MaxBytes
    THEN Append(files, <<r>>)
    ELSE Append(Front(files), Append(Last(files), r))

ChunkCSV(s) ==
    LET files[i \in 0 .. Len(s)] == IF i = 0 THEN <<<<>>>> ELSE AddRow(files[i - 1], s[i])
    IN  files[Len(s)]

-----------------------------------------------------------------------------
Init ==
    /\ watch = [e \in Events |-> NoWatch]
    /\ zone \in Zones
    /\ current = [m \in Movies |-> Nothing]
    /\ changes = [m \in Movies |-> Unrevised]
    /\ batches = <<>>
    /\ confirmations = 0
    /\ diary = [key \in Keys |-> Nothing]
    /\ torn = {}
    /\ at = "idle"
    /\ location = <<>>
    /\ todo = {}
    /\ watched = watch
    /\ row = <<>>
    /\ rows = <<>>
    /\ edits = 0

(* The importer stores a watch, of whatever time. *)
ImportWatch ==
    /\ \E e \in Events, m \in Movies, i \in Instants :
           /\ watch[e] = NoWatch
           /\ watch' = [watch EXCEPT ![e] = <<m, i>>]
    /\ UNCHANGED <<zone, current, changes, batches, confirmations, diary, torn, generator,
                   edits>>

(* The user moves: what is exported from then on is dated otherwise. *)
SetTimezone ==
    /\ zone' \in Zones \ {zone}
    /\ UNCHANGED <<watch, current, changes, batches, confirmations, diary, torn, generator,
                   edits>>

(* The triggers count what is written to the ratings or reviews of a title. *)
Written(m, k, v) ==
    /\ current' = [current EXCEPT ![m][k] = v]
    /\ changes' = [changes EXCEPT ![m][k] = @ + 1]

(* A rating or a review is set or removed. *)
Edit ==
    /\ edits < MaxEdits
    /\ edits' = edits + 1
    /\ \E m \in Movies, k \in Kinds, v \in Value :
           /\ v # NoValue \/ current[m][k] # NoValue
           /\ Written(m, k, v)
    /\ UNCHANGED <<watch, zone, batches, confirmations, diary, torn, generator>>

-----------------------------------------------------------------------------
(* Generate, statement by statement. *)
Done ==
    /\ at' = "idle"
    /\ location' = <<>>
    /\ todo' = {}
    /\ watched' = [e \in Events |-> NoWatch]
    /\ row' = <<>>
    /\ rows' = <<>>

LoadWatches ==
    /\ at = "idle"
    /\ Len(batches) < MaxBatches
    /\ at' = "row"
    /\ location' = zone
    /\ watched' = WatchedIn(zone)
    /\ todo' = KeysOf(watched')
    /\ UNCHANGED <<tables, row, rows, edits>>

(* Movies and days are taken in the order of the watches. *)
NextKey(key) == key \in todo /\ \A other \in todo : key[2] <= other[2]

BeginRow ==
    /\ at = "row"
    /\ \E key \in todo :
           /\ NextKey(key)
           /\ todo' = todo \ {key}
           /\ row' = NewRow(watched, key)
           /\ at' = IF IsLatest(watched, key) THEN "rating" ELSE "decide"
    /\ UNCHANGED <<tables, location, watched, rows, edits>>

LoadValue(k, next) ==
    /\ at = k
    /\ row' = [row EXCEPT !.values[k] = current[row.key[1]][k],
                          !.seen[k] = changes[row.key[1]][k]]
    /\ at' = next
    /\ UNCHANGED <<tables, location, todo, watched, rows, edits>>

LoadRevisions ==
    /\ at = "revisions"
    /\ row' = [row EXCEPT !.revision = changes[row.key[1]]]
    /\ at' = "decide"
    /\ UNCHANGED <<tables, location, todo, watched, rows, edits>>

DecideRow ==
    /\ at = "decide"
    /\ rows' = IF IsPending(row) THEN Append(rows, row) ELSE rows
    /\ at' = "row"
    /\ row' = <<>>
    /\ UNCHANGED <<tables, location, todo, watched, edits>>

TornIn(s) ==
    {s[i].key[1] : i \in {j \in DOMAIN s : \E k \in Kinds : s[j].seen[k] < s[j].revision[k]}}

StoreBatch ==
    /\ at = "row" /\ todo = {} /\ rows # <<>>
    /\ ~TooLarge(rows)
    /\ batches' = Append(batches, [zone |-> location, rows |-> rows,
                                   files |-> ChunkCSV(rows), confirmed |-> 0])
    /\ torn' = torn \union TornIn(rows)
    /\ Done
    /\ UNCHANGED <<watch, zone, current, changes, confirmations, diary, edits>>

(* No batch is stored: there is no row, or one that no file can hold. *)
NoBatch ==
    /\ at = "row" /\ todo = {}
    /\ rows = <<>> \/ TooLarge(rows)
    /\ Done
    /\ UNCHANGED <<tables, edits>>

Interrupted ==
    /\ at # "idle"
    /\ Done
    /\ UNCHANGED <<tables, edits>>

(* The user imports a batch into Letterboxd, which updates the entries of    *)
(* its movies and days, and confirms it.                                    *)
(* Mutant of MayConfirm: a batch may be confirmed again. *)
MayConfirmAgain(b) == TRUE

MayConfirm(b) == ~Confirmed(b)

ImportAndConfirm ==
    /\ \E b \in DOMAIN batches :
           LET s == FlattenSeq(batches[b].files)
               entries == {s[i].key : i \in DOMAIN s}
               entry(key) == s[CHOOSE i \in DOMAIN s : s[i].key = key]
           IN  /\ MayConfirm(b)
               /\ batches' = [batches EXCEPT ![b].confirmed = confirmations + 1]
               /\ diary' = [key \in Keys |->
                               IF key \in entries THEN entry(key).values ELSE diary[key]]
    /\ confirmations' = confirmations + 1
    /\ UNCHANGED <<watch, zone, current, changes, torn, generator, edits>>

-----------------------------------------------------------------------------
Generate ==
    \/ LoadWatches \/ BeginRow
    \/ LoadValue("rating", "review") \/ LoadValue("review", "revisions")
    \/ LoadRevisions \/ DecideRow \/ StoreBatch \/ NoBatch

Next == ImportWatch \/ SetTimezone \/ Edit \/ Generate \/ Interrupted \/ ImportAndConfirm

Spec == Init /\ [][Next]_vars

-----------------------------------------------------------------------------
TypeOK ==
    /\ watch \in [Events -> (Movies \X Instants) \union {NoWatch}]
    /\ zone \in Zones /\ location \in Zones \union {<<>>}
    /\ current \in [Movies -> [Kinds -> Value]]
    /\ changes \in [Movies -> [Kinds -> Nat]]
    /\ \A b \in DOMAIN batches :
           batches[b].confirmed \in 0 .. confirmations /\ batches[b].rows # <<>>
    /\ confirmations \in 0 .. Len(batches)
    /\ diary \in [Keys -> [Kinds -> Value]]
    /\ torn \subseteq Movies
    /\ at \in {"idle", "row", "rating", "review", "revisions", "decide"}
    /\ todo \subseteq Keys
    /\ watched \in [Events -> Keys \union {NoWatch}]
    /\ edits \in Nat

(* What an export begun now would put into its row for a movie and a day. *)
Today == WatchedIn(zone)

RowNow(key) ==
    IF IsLatest(Today, key)
    THEN [NewRow(Today, key) EXCEPT !.values = current[key[1]], !.revision = changes[key[1]]]
    ELSE NewRow(Today, key)

KeysNow(m) == {key \in KeysOf(Today) : key[1] = m}

NothingPendingOf(m) == \A key \in KeysNow(m) : ~IsPending(RowNow(key))

UpToDate(m) ==
    NothingPendingOf(m) => \A key \in KeysNow(m) : IsLatest(Today, key) => diary[key] = current[m]

(* When nothing of a movie is pending, its latest diary entry shows its      *)
(* rating and review: whichever batches were generated, dropped, confirmed   *)
(* late or out of order, unless a row was torn by an edit, or the movie was  *)
(* confirmed under the days of another timezone.                            *)
MovedOf(m) == \E b \in ConfirmedWith(m) : batches[b].zone # zone

NothingPendingIsUpToDate == \A m \in Movies : m \in torn \/ MovedOf(m) \/ UpToDate(m)

(* Even after a change of the timezone a movie of which nothing is pending   *)
(* has an entry with its rating and review, though perhaps on a day on which *)
(* it is no longer counted as watched.                                      *)
CurrentIsInTheDiary ==
    \A m \in Movies :
        NothingPendingOf(m) /\ KeysNow(m) # {} /\ m \notin torn
            => \E key \in Keys : key[1] = m /\ diary[key] = current[m]

(* A batch attaches a movie's rating and review to one day only. *)
OneDayCarriesTheRating ==
    \A b \in DOMAIN batches :
        \A i, j \in DOMAIN batches[b].rows :
            LET r == batches[b].rows[i]
                s == batches[b].rows[j]
            IN  r.values # Nothing /\ s.values # Nothing /\ r.key[1] = s.key[1] => i = j

(* The files of a batch, taken together, are its rows in their order, and    *)
(* each is one that Letterboxd accepts.                                     *)
FilesHoldTheBatch ==
    \A b \in DOMAIN batches :
        LET files == batches[b].files
        IN  /\ FlattenSeq(files) = batches[b].rows
            /\ \A i \in DOMAIN files : files[i] # <<>> /\ FileSize(files[i]) < MaxBytes

(* docs/letterboxd.md: a rating or review changed after a confirmed import   *)
(* makes the latest row need another export.                                *)
ChangesAreReExported == \A m \in Movies : UpToDate(m)

=============================================================================
