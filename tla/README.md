# WatchWeaver in TLA+

WatchWeaver imports what its user watched from Trakt, asks for ratings, keeps
those in step with Trakt, exports movies to Letterboxd and reminds of Serializd.
It is one Go process on one SQLite database. What is hard in it is not one
algorithm but that HTTP handlers, the synchronisation goroutine and the Discord
notifier read and write the same rows in several statements, with calls to other
services in between, each of which may fail, answer late or be cut by a restart.

The modules here model that: one module for each component, its statements as
actions, the calls split into "asked" and "answered".

## Inventory

| Component (code) | State it keeps | Operations | Interacts by | What is hard |
|---|---|---|---|---|
| Rating synchronisation (`trakt/ratings.go`, `ratings/service.go`) | tables `ratings`, `rating_sync_state`; flag `initial_ratings_complete` | `SetLocal`, `DeleteLocal`, `ImportInitial`, `FlushPending`, `Reconcile` | tables shared by HTTP handlers and the cycle; Trakt's API | a snapshot flushed while its titles are edited; lost answers; retries; timestamps compared as strings; ratings matched to rows by a number that is not theirs alone |
| History import, poller (`trakt/history.go`, `trakt/poller.go`) | `watch_events`, baseline flags, `media_items`, `external_ids`, checkpoint, initial flag | `ImportInitial`, `Poll`, `importAll`, `persistItem`, `ensureMedia`, `checkpoint` | pages of Trakt's history, which moves | cuts between pages, a checkpoint that is a clock reading, events that arrive late or disappear, titles looked up by a number that is not theirs alone, seasons that get theirs later |
| Serializd checkpoint (`serializd/service.go`) | one row of `serializd_checkpoint`, the log `serializd_changes` (triggers) | `Status`, `MarkSynced`, `MarkReminderAnnounced` | row shared by requests and notifier | `Status` reads, counts and writes in four statements |
| Discord notifier (`discord/notifier.go`) | `discord_task_notifications`, next attempt of the reminder | `Poll`, `pollTasks`, `pollSerializd`, `Configure`, failures | Discord's webhook, prompt tasks, Serializd service | announcing and marking are two steps; a failure of the tasks ends the poll before the reminder |
| Rating prompts (`prompts/rules.go`, `prompts/service.go`) | `prompt_tasks` | `Evaluate`, `Apply`, completion, skipping, snoozing | watches in, tasks out | order of releases, watches and batches |
| Letterboxd export (`letterboxd/service.go`) | batches, their rows and events, revisions counted by triggers | `Generate`, `Confirm`, `pendingRowsAt` | tables of watches, ratings, reviews | generation reads in many statements, confirmation in any order, a timezone that changes, rows split into files |
| Trakt authorization (`trakt/auth.go`, `server/integration_config.go`) | `Service.cfg`, `pending`, mutex; `encrypted_credentials` | `Start`, `Poll`, `Configure`, `persistToken`, PUT and DELETE of the credentials | mutex held through HTTP calls; table written outside it | overlapping changes, removal during a poll |
| Synchronisation manager (`trakt/sync_manager.go`) | `running`, channel `wake`, timer, status texts | `Run`, `Trigger`, `SyncNow`, `cycle` | runs import, poll and ratings; woken by requests | who runs a cycle; early ends |
| HTTP API (`server/api.go`, `integration_config.go`) | none of its own, `app_settings` | handlers, among them PUT of the settings, PUT and DELETE of the Discord webhook | calls all services | handlers of several statements that overlap |
| Persistence (`persistence/`) | schema, `schema_migrations`, triggers, backups | `RunMigrations`, `Backup` | triggers used by Serializd and Letterboxd; two processes on one volume | a check outside its transaction, a copy in two steps |
| Credential store (`credentials/store.go`) | key file, encrypted rows | `Open`, `loadOrCreateKey`, `migrateLegacy`, `Get`, `Update`, `DeleteIntegration`, `BackupKey` | tables, backups | a key file created before it is written; old tokens |
| Process, configuration (`cmd/`, `config/`, `server/server.go`) | what it has loaded | start-up, the `backup` command, stop | starts the goroutines, loads the credentials | killed at any point, two processes at once |
| Web interface (`web/`) | browser state | client of the API | HTTP | no state the server depends on |

What makes each correct is stated in its module and below. The hazards, with the
line where each one bites and the property that watches over it, are in
`PROJECT.json`; those without a property say why.

## Modules

Each component's module is parameterised by CONSTANTS with named assumptions; the
`MC` module of the same name only names it for TLC; `_proofs` modules hold theorems, and
**FiniteOrders** the lemmas about finite sets of numbers that several of them need.
Operators written as mutants (`... Mutant of X`) are plausible bugs of the code,
used to show that a property notices them; no specification uses them.

**RatingSync** — `rating` is table `ratings`, `sync[m]` a row of
`rating_sync_state`. The cycle's local variables are `phase`, `work` (the rows
`FlushPending` has read) and `items` (what `fetchRatings` returned), so that an
edit (`SetLocal`, `DeleteLocal`) comes between any read and the write it leads to.
`PostAccepted` is Trakt storing a rating, `FlushDone` the code noting it; a failure
or lost answer between them is `PostFails`, which includes what `recordFailure`
writes. `Abort` is a restart or a cancelled context. A cycle begins with the import of the
history and ends there when that fails (`BeginCycle`, `historyFails`), and it ends at a
rating that the table refuses (`ShowRefused`). What Trakt rates are `Titles`, the rows
that WatchWeaver has are `Media` and `Shows`: `MatchRating` finds a row by Trakt's number
alone, whatever its kind, as `matchRating` does, and gives a season's row its number in
`identified` when it finds it by its show. `QueuedRow`, `ExchangedRow`
and `PutOffRow` are the three UPSERTs of a row; `StampRank` is the order of
`RFC3339Nano` strings, in which a whole second sorts after its fractions.

**RatingOutbox** — what RatingSync promises, without clocks, stamps, ids and
attempts: a change is shown at once and stays in the outbox until the copy taken of
it has been delivered or a rating of the other side has been adopted. `RatingSync`
maps its tables to it (`Outbox == INSTANCE RatingOutbox WITH ...`) and implements it:
`ImplementsOutbox`.

**HistoryImport** — Trakt's history is `present` and `watched`; `imported`, `baseline`,
`initialDone` and `checkpoint` are durable, the rest is the importer's. One action reads a
page, one persists the newest event of it that is left, one ends an attempt, a poll or the
initial import. Events arrive with a delay and are removed at any time. `titles` are the
rows of `media_items` with their Trakt numbers, `EnsureMedia` the rows one event needs: each
is looked up by its Trakt number, then by its place in its parent, and else inserted, which
the trigger on parents may refuse; a movie or a show without a number gets a new row every
time. An event whose rows cannot be stored ends the import there (`PersistFails`). After a
poll the cycle goes on with the ratings, which may give a season's row the number that Trakt
has for it (`seasonIds`, `IdentifySeason`); the next import finds rows by that number too.

**SerializdReminder** — `row` is the one row of the checkpoint. Requests and the
notifier are processes that hold what they have read in `local`; `ReadRow`,
`CountChanges` and `StoreDue` are the statements of `Status`, `ReadHighWater` and
`AdvanceCheckpoint` those of `MarkSynced`. The notifier's poll announces the tasks
first (`tasks` says only whether there are some) and comes to the reminder when that has
not failed; `SendAccepted`, `SendFails` and `MarkReminderAnnounced` are its steps then. The
webhook may be removed and configured again between any two of them.

**LetterboxdExport** — `Generate` loads the watches, then for each movie and day the
rating, the review, the revisions and what was confirmed; `StoreBatch` is its transaction.
`ImportAndConfirm` is the user importing a stored batch and confirming it, in any order of
batches; `diary` is what Letterboxd then shows. A watch has a time, which falls on a day
of the timezone in force when the batch is generated (`zone`, `SetTimezone`). `ChunkCSV`
cuts the rows into files by their sizes, one row after the other (`AddRow`).

**PromptTasks** — `Evaluate` is `Decisions`, evaluated for the topics it may ask about
(not those of a baseline, of an ignored title or show, of a season with unknown inventory,
or switched off in the settings), `Apply` is `ApplyBatch` with the open-task
check of `insertDecision`. `SelectTasks`, `SendAccepted`, `MarkSent`, `PutOff` are the
notifier's statements.

**TraktSession** — `table` is what `encrypted_credentials` holds for Trakt, `memory`,
`pending` and `lock` are the fields of `trakt.Service`, `running` and `wake` those of
`SyncManager`. A PUT is `PutConfig`, `StoreConfig`, `Configure`; a DELETE is `DeleteConfig`,
`Configure`. The requests of `Ask` and those that `Configure` wait for the mutex as a step
of its own; `Start` and `Poll` then keep it until Trakt has answered and the token is
stored. The steps of `Answered` are those that Trakt has to make possible. A cycle is
claimed (`SyncNow`), reads its token and client and ends; what it does then is RatingSync
and HistoryImport, which rely on cycles not overlapping.

**Configuration** — the two kinds of requests that change the configuration of a
running server in several statements: PUT and DELETE of the Discord webhook (the row of
the table, the preference, the notifier's copy) and PUT of the settings (loaded, merged,
written back). `request[r]` is what a request has done and read so far.

**Installation** — extends Configuration by the volume and the processes on it: the
server's start (migrations, key, legacy tokens, webhook), the command `watchweaver backup`
beside it, each killed at any step, Docker's restart and the operator's restore. `schema`
counts the migrations applied; `keyfile` may be missing, empty or a key; a cipher text is
represented by the key it was made with, since that is all that decides whether it can be
read.

## Runs

| Run | Distinct states | Question |
|---|---|---|
| `ratings` | 208,398 | do the two tables and Trakt stay in step though titles share numbers, does every change leave the queue, is every rating of Trakt's adopted, is it all an outbox |
| `ratings_lost`, `ratings_blocked` | counterexamples | two statements of `docs/trakt.md` the code does not keep |
| `history` | 530,509 | does the checkpoint never pass an event that was in time, and is a watch stored under its own title |
| `history_first` | counterexample | is a restart safe at any point of the polling |
| `serializd` | 1,025,931 | which repeated announcements there can be, and is what is due announced |
| `serializd_once` | counterexample | one announcement for one due state |
| `letterboxd` | 739,768 (symmetry) | is the diary up to date when nothing is pending, do the files hold the batch |
| `letterboxd_torn` | counterexample | is a changed rating or review exported again |
| `prompts` | 545,004 | which tasks are made, are they announced, once |
| `session` | 199,174 | do cycles exclude each other, do memory and table agree, whom does a call that never ends hold up |
| `installation` | 798,548 | are secrets kept and backups usable, does the server come up, do changes of the configuration keep what they leave out |

What the counterexamples show (each is a finding in `PROJECT.json`):

- `ratings_lost`: `flushOne` clears `pending_rating` after Trakt's answer without
  looking at it again; a rating changed during the call is taken for sent.
- `ratings_blocked`: a season without a Trakt id ends every flush before it comes
  to titles of greater id.
- `history_first`: without a checkpoint the poll starts from the newest event
  imported, which a poll that was cut has moved past those it had not read.
- `serializd_once`: a `Status` that began before the announcement writes back the
  row it had read.
- `letterboxd_torn`: value and revision of a row are read in separate statements.

Further behaviour that the models show and that is not a run of its own:

- The queue is flushed before Trakt's ratings are read, so that an older local change
  replaces a newer rating on Trakt (`docs/trakt.md:81` lets the newer one win).
  `TraktRatingIsAdopted` therefore excuses titles with a queued change.
- `external_ids` is searched by number alone, by the import (`history.go:257`) and for the
  ratings (`ratings.go:225`): two titles of two kinds with one number share a row, or make
  an event that cannot be stored (`SharesId`, `Behind`); a rating goes to the other title's
  row, replaces or drops what is queued there (`astray`), or, when that row is a show's,
  ends every reconciliation (`Refused`). The rating that Trakt has for the row itself, when
  it is no newer than the other's, counts as seen before and is never taken over, though
  `docs/trakt.md:81` says the newer one wins: without `astray`, `TraktRatingIsAdopted`
  fails in its run.
- An event that cannot be stored ends every cycle before the ratings: as long as it is in
  the history no rating is sent or taken over (`historyFails`).
- A poll sets the checkpoint to the time at which it ends. What arrives while it reads, and
  is older by then than the overlap, is never asked for (`outrun`): a poll has to go on for
  longer than the ten minutes of overlap, which no timeout forbids.
- A call for a code or a token that never ends makes every other request that needs the
  mutex wait for ever, and one of a cycle's calls keeps all later cycles away (`HeldUp`,
  `TokenIsUsed`).
- An empty key file is the only state of a volume that keeps the server down for good:
  `ServerComesUp` and `SecretsSurvive` hold but for it.
- Of two migrations at once the second fails and ends its process; Docker's
  restart makes up for it.
- Overlapping PUTs or DELETEs of the webhook can leave the notifier with another one than
  the tables until the next restart (`mixed`).
- Nothing returns a snoozed task to pending when its time has come (`api.go:367`;
  `docs/rating-rules.md:121` says it does): in PromptTasks a snoozed task stays so.

For the same reason the passing properties name their exceptions: a title edited
during its own flush (`raced`), a row that took over another title's rating (`astray`),
events that come later than the overlap (`late`) or during a poll that outlasts it
(`outrun`),
torn rows (`torn`), announcements left unmarked (`unmarked`), overlapping changes
(`overlapped`, `mixed`, a request that is not `alone`), a movie confirmed under another
timezone (`MovedOf`). Each exception is a history variable set only at the step that
causes it, so that the property says that nothing else does. In particular
`RemovalRemovesToken` shows that a DELETE of the credentials may be followed by a token,
but only by a poll that was under way (`revived`).

### Properties

| Module | Safety | Liveness |
|---|---|---|
| RatingSync | `PendingIsCurrent`, `OnlyOverlapLosesAChange`, `DeliveredIsShown`, `ImplementsOutbox` (refinement) | `DrainsUnlessBlocked`, `TraktRatingIsAdopted` |
| HistoryImport | `NothingFallsBehind`, `BaselineIsHistory`, `WatchIsOfItsTitle` | `TimelyEventIsImported` |
| SerializdReminder | `AnnouncedIsDue`, `RepeatsAreExplained` | `DueIsAnnounced` |
| LetterboxdExport | `NothingPendingIsUpToDate`, `CurrentIsInTheDiary`, `OneDayCarriesTheRating`, `FilesHoldTheBatch` | — |
| PromptTasks | `OneOpenTask`, `SeasonIsAskedForWhenComplete`, `EpisodeIsAskedForWhenCaughtUp` (an action property), `AnnouncedOnce` | `TaskIsAnnounced` |
| TraktSession | `OneCycleAtATime`, `OnlyOverlapDiverges`, `CodeIsForClient`, `RemovalRemovesToken` | `RequestsEnd`, `TokenIsUsed` |
| Installation | `NotifierFollowsTheTable`, `SecretsSurvive`, `WorkingBackupRestores`, `UpdatesKeepOtherSettings` (an action property) | `ServerComesUp` |

### Bounds

Counters named `Max...` bound edits, failures, toggles, requests and the clock; each
is a guard of the action it bounds, so liveness is checked on complete behaviours.

- Two rows, one without a Trakt id: the order of a flush and the blocking of one by the
  other need two. Two more titles have no row, one the number of a row and one that of a
  show. `MaxEvents` counts edits on both sides, failed calls, restarts and obstacles to the
  import of the history together: three of them in any mixture reach each pair of
  overlapping steps, two edits around a flush and a rating on Trakt, ratings of both titles
  of a number in either order, and a failure with its retry. `MaxNumbers` lets Trakt's user
  rate titles of one number at a time, next to what was delivered. Two ticks a second show
  the order of fractions. What does not occur in the run is a season whose number is
  another row's, or a rating that is not taken over because another one is refused first;
  the invariants are proved for both.
- Two events with pages of one: everything between two pages can happen; three events for
  the cut first poll. Six histories say what the events are watches of: two shows, an
  episode numbered anew, a movie and a show of one number, a movie and the season of an
  episode of one number, movies without a number, an event that cannot be stored before and
  after another. Two attempts show the retry. A poll may take any time; the overlap is one
  tick and the delays up to two, so that events are in time, late and outrun.
- One request besides the notifier for Serializd: a second one multiplies the states by
  fifteen and adds no pair of statements. Two changes make a reminder due, a third one
  stays behind it. There are tasks to announce once, and one failure of either message.
- One movie watched at up to three of two times, which fall on two days in one timezone
  and on one in the other: a rating belongs to the latest day. Two batches can be
  confirmed in either order, or one of them never. A file holds one large or two small
  rows, and none that carries both a rating and a review.
- Two normal episodes and a special, announcements of one task each: a season may be
  complete, caught up or in arrears. Each batch is evaluated for any of the topics
  switched on.
- Two requests and the manager, two applications, three requests in all: an authorization
  (start, poll) with a change of the credentials in the middle, or three overlapping
  changes.
- Two requests and two migrations for the installation: the second migration is the one
  that makes the table of the credentials, the first stands for those before it. Two keys
  tell a key made anew from that of a backup, and two backups the newest from another.
  Two fields of the settings show what one PUT does to the field of another.

### Fairness

`WF` on the cycle, the poll or the importer: the goroutines `SyncManager.Run` and
`Notifier.Run` loop for ever on a timer and are scheduled. `WF_vars(Tick)` where a delay
must pass. For TraktSession it is on the steps of a request or of the manager that need
nothing of Trakt, and on the manager's timer: a call of `Start`, `Poll` or a cycle may never
end, since `http.DefaultClient` has no timeout (`trakt/auth.go:73`), and the two properties
say whom it holds up. Weak fairness is enough for a request that waits for the mutex,
because the requests are bounded; in the process a `sync.Mutex` hands itself to the longest
waiter after a millisecond. For Installation `WF` on the server's start-up and on Docker's
restart of it (`restart: unless-stopped` in `compose.yaml`); requests and backups may end
anywhere. RatingSync and HistoryImport assume that a call to Trakt ends, with an answer or
an error, which their clients do not enforce either: what one that does not end means for a
cycle is what TraktSession says of it. SerializdReminder and PromptTasks assume the same of
Discord. Nothing is assumed of users: no edit, request, release or confirmation has to
happen, and a failure never has to stop happening other than by its bound.

## Proofs

TLC checks small instances; the theorems hold for every value of the constants
under the modules' named assumptions.

**RatingSync_proofs** proves `TypeOK`, `PendingIsCurrent`, `OnlyOverlapLosesAChange`,
`DeliveredIsShown` and, with `RefinesOutbox`, that every behaviour is one of RatingOutbox:
each action is mapped to an action of the outbox or to a stutter, from `CycleInv` below.
`OnlyOverlapLosesAChange` and `DeliveredIsShown` are not inductive: that a flushed title
agrees with Trakt depends on what the snapshot held when Trakt answered. `CycleInv` adds
this: outside its phases the snapshot and the fetched ratings are empty; a title is in the
snapshot once, is still pending, and shows the value to be sent unless it was edited
(`raced`); after an answer Trakt holds that value; a fetched rating is what Trakt holds
unless the user changed it there. The numbers of the titles are arbitrary but for the unique
index on those of the rows; a row that was given the rating of another title is excused
(`astray`) until the next edit, delivery or rating of its own. `IInv` is their conjunction,
proved action by action (`InvStep`).

**TraktSession_proofs** proves `TypeOK` (with who holds the mutex),
`OneCycleAtATime`, `OnlyOverlapDiverges`, `CodeIsForClient` and
`RemovalRemovesToken`. Two parts make them inductive. `StepInv`: the manager
never takes a request's step, and a code is asked for only while the service is
configured, because the mutex keeps `Configure` out. `ChangeInv`: of each change
under way, that it is the only one or has been overlapped, and in the first case
that what it will give to the service is what the table holds or will hold. Memory
and table agree again only through it.

**SerializdReminder_proofs** proves `TypeOK`, `AnnouncedIsDue` and
`RepeatsAreExplained`. The second is inductive by itself: a write that changes whether the
row is due clears the mark. The third needs `ToldInv`: once a due state has been announced
and no mark was lost, the notifier is not about to announce, the row is settled (marked,
or not due) unless the notifier is just about to mark it, and so is the copy of the row
that the notifier holds between the statements of `Status`.

**Installation_proofs** proves `TypeOK`, `SecretsSurvive`, `WorkingBackupRestores`,
`UpdatesKeepOtherSettings` and `NotifierFollowsTheTable`, for any number of migrations,
keys, backups and requests. `SecretsInv` adds to `SecretsSurvive` that nothing is
encrypted while the key file has been created and not written; that the running process
encrypts with the key of the key file is part of `TypeOK`. `BackupsInv` follows a backup
from the copy of the database to that of the key. `SettingsInv`: what a PUT that is still
`alone` will write differs from the table only in the fields it names. `DiscordInv`: a
change of the webhook that is still `alone` is the only one under way, and what it will
give to the notifier is what the tables will say.

**HistoryImport_proofs** proves `TypeOK`, `NothingFallsBehind`, `BaselineIsHistory` and
`WatchIsOfItsTitle`, for any events, page sizes, delays and overlap, and polls of any
duration. The heart of it is `ReadInv`: an event that the running import has to store, and
has not, is on the page at hand or on one still to be asked for, because an arrival moves
the rest of the list to later pages only and a removal is recorded (`shifted`); its place is
the number of newer events, which is finite and counted. `PhaseInv` relates the checkpoint
and the start of the list to the phase, `HistoryInv` what is stored to whether the initial
import is done. For what Trakt held when a poll fetched its first page nothing depends on
how long it takes; what arrived later (`newcomers`) is either recent enough at its end for
the next poll, or `outrun`. `TitleInv` says where each row of `media_items` comes from: from
which event, with which number or place in its parent, and that only seasons get a number
later, which Trakt has for a season. The first attempt at the last theorem failed, rightly:
a title that Trakt lists in two places of a show can be recorded in two rows, which the
bounded histories did not contain; the property names that exception now (`HasTwoPlaces`).
It also names titles of two kinds that share a number (`SharesId`), seasons among them, for
which nothing is claimed, and a movie or a show without a number, which gets a row with
every event.

**PromptTasks_proofs** proves `TypeOK`, `OneOpenTask`, `SeasonIsAskedForWhenComplete`,
`AnnouncedOnce` and the action property `EpisodeIsAskedForWhenCaughtUp`, for a season and
batches of any size. `ReleaseInv` and `WatchedInv`: what is released is the beginning of the
season, and a normal episode that is watched is released unless it was watched `early`;
so the newest released one and "nothing before it is left" mean what the rule intends.
`BatchInv` and `ToldInv` say what the notifier holds: never a task that is marked, and one
that was announced is marked or is about to be.

**LetterboxdExport_proofs** proves `TypeOK`, `NothingPendingIsUpToDate`,
`CurrentIsInTheDiary`, `OneDayCarriesTheRating` and `FilesHoldTheBatch`, for any movies,
watches, timezones, sizes, and any number of edits and batches. The invariant has a part
for each stage:

- a row (`Read`, `Revised`, `Placed`): its values are the current ones unless a revision
  was counted since they were read; its revisions are not before what was read nor after
  what is counted; its movie and day are those of the watches it stands for;
- the row being put together and those of the batch at hand (`MakingInv`, `MadeInv`): they
  come in the order of their days, only a latest day carries something, and what it
  carries is no older than any row stored before (`Surpasses`), since a stored row cannot
  be ahead of the count;
- two batches, the one generated after the other (`OvertakenInv`, `RevisionInv`): a day
  that an earlier batch has overtaken carries nothing, and a day that is still the latest
  carries revisions that no earlier batch surpasses;
- confirmations (`ConfirmedInv`, `CountInv`, `DiaryInv`): they are numbered, as many as
  batches confirmed, and the diary shows the last one confirmed of each movie and day.

`NothingPendingIsUpToDate` follows by comparing the batch that the diary shows for the
latest day with the one whose row `metadataPending` compares to. If they are the same the
two rows are; if the one the diary shows is the earlier it was overtaken, so there is no
revision at all; if it is the later its revisions are not surpassed. In each case every
revision is in the row shown, and as it is not torn its values are the current ones.
`ChunkFacts` is what `FilesHoldTheBatch` rests on: `ChunkCSV` neither loses nor repeats
nor moves a row and every file it makes is accepted.

**FiniteOrders** holds the lemmas these three share: that a finite set of numbers has a
greatest element, which is what `Max` chooses, that it can be listed in increasing order,
how pages are counted. The provers cannot instantiate an induction rule, which takes a
predicate; the lemmas use sets instead. A nonempty set of natural numbers has a least one
(`LeastNatural`, from the well-foundedness of `<`), so a set that holds 0, and i + 1 with
each i below n, holds all of `0 .. n` (`UpTo`), and a recursion whose steps are given as
functions can be followed to its end (`RecursionExists`). That is how `ChunkCSV`,
`FileSize` and `FlattenSeq`, which are recursive functions, are reasoned about. For the
same reason PromptTasks says by `InOrder` what order the new tasks come in, instead of
sorting a set with a fold.

Every safety invariant, action property and refinement that a passing run checks is a
theorem as well. Only model-checked are the liveness properties (`DrainsUnlessBlocked`,
`TraktRatingIsAdopted`, `TimelyEventIsImported`, `DueIsAnnounced`, `TaskIsAnnounced`,
`RequestsEnd`, `TokenIsUsed`, `ServerComesUp`), since fairness, and whether an action is
enabled, are beyond the prover; and what the counterexamples and the mutants show.

## What is abstracted, and what is left out

- RatingSync: what the import of the history needs is one flag (`historyFails`), since its
  steps are HistoryImport's; a row's kind matters only for seasons and shows. A stamp and
  the transaction it is stored by are one step; `fetchRatings` is one read;
  `ratings.source`, `local_updated_at` and the text of errors are dropped. A title without a
  row is one with the defaults of its columns. A failed change is put off only when its next
  attempt falls within `MaxTime` (a bound).
- HistoryImport: events of one time are listed by id. A malformed event is one whose
  titles cannot be stored (`Unstorable`): either ends the import in the same place.
  Titles' names and years, and identifiers of other services, are dropped.
- SerializdReminder: time is counted in days; the notifier's delay is a flag; of the
  tasks only whether there are some to announce.
- LetterboxdExport: `hasUnconfirmedEvents` and `metadataPending` are read together in
  `DecideRow`; the text of a record is represented by its size; downloads are left out.
  There is one `Generate` at a time: the page that asks for it disables its button until
  the answer is there (`busy` in `web/src/App.tsx`). The handler itself does not exclude
  a second one, from another page; two that overlap are not modelled, and `RevisionInv`,
  that a later batch is not older than an earlier one, rests on it.
- PromptTasks: completed and skipped are one state (`resolved`); one movie and one
  season, since no rule relates two seasons; episodes are released in the order of their
  numbers. Nothing in the process calls `prompts.Service.Apply` yet; its caller is
  modelled as an environment that gives batches of watches.
- TraktSession: encryption, overrides by the environment, `Refresh` (only tests call it)
  and the re-authorization flag are left out; a PUT reads id and secret in one step; the
  texts of phase and status are dropped. `history_sync.go` is not used by the process and
  not modelled.
- Configuration, Installation: a migration is its number, and what its statements say is
  in the components' modules; a cipher text is its key; overrides by the environment are
  modelled for the webhook only. `persistence.Backup` is one step, since it is one
  transaction of SQLite; a copy cut short is a backup without a database. Deliberate
  removal of the key file or of the volume is not modelled.
- Not modelled: the HTTP server, its readiness flag and shutdown, static files, listings
  and the validation of requests, the texts of the operational status, the web interface:
  sequential code and I/O, or no state of their own.

## Plan

Done, in this order: RatingSync and its proofs, HistoryImport, SerializdReminder,
LetterboxdExport, PromptTasks, TraktSession and its proofs; then RatingOutbox and the
refinement, the titles of HistoryImport, the whole poll of the notifier in
SerializdReminder, timezones and files in LetterboxdExport, what PromptTasks asks nothing
about, Configuration and Installation with their proofs, the proofs of SerializdReminder;
FiniteOrders and the proofs of HistoryImport, PromptTasks and LetterboxdExport.

After that, what rests on Trakt's numbers and on calls that need not end: the matching of
ratings to rows, seasons that are given numbers, polls of any duration, and what a call
without an end holds up.

Next, the model: the cycle of TraktSession composed with the phases of RatingSync and
HistoryImport, where a change of the account comes between two of its parts; two
`Generate` at once.

Next, the proofs: of what the runs check only liveness is left. A refinement of each
component that others rely on (what a cycle promises to TraktSession, what a notifier's
poll promises to PromptTasks and SerializdReminder) would let the composed cycle be
proved from its parts.
