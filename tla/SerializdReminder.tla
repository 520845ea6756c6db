-------------------------- MODULE SerializdReminder --------------------------
(***************************************************************************)
(* The Serializd checkpoint and the Discord reminder that it is due.       *)
(*                                                                         *)
(* Nothing is stored about being due but the row of serializd_checkpoint.  *)
(* Status reads that row, counts the changes behind it, and writes what it *)
(* found in statements of their own; web requests and the notifier all run *)
(* it, while triggers append changes, MarkSynced advances the checkpoint   *)
(* and the notifier waits for Discord's answer.  The notifier's poll looks *)
(* at the rating tasks first and gets to the reminder only if announcing   *)
(* them has not failed; which tasks there are is PromptTasks' business.    *)
(***************************************************************************)
EXTENDS Integers, Sequences

CONSTANTS
    Requests,         \* web requests that may be served at once
    Notifier,         \* the notifier's goroutine
    ReminderChanges,  \* setting: so many changes make a reminder due; 0 for never
    ReminderDays,     \* setting: so many days make it due; 0 for never
    MaxChanges,       \* bound: changes recorded
    MaxTime,          \* bound: last day of the clock
    MaxMarks,         \* bound: confirmations by the user
    MaxToggles,       \* bound: times the integration is switched on or off
    MaxFailures       \* bound: failed calls to Discord and restarts

ASSUME NotifierAssumption == Notifier \notin Requests
ASSUME ReminderAssumption == ReminderChanges \in Nat /\ ReminderDays \in Nat

VARIABLES
    clock,     \* the day
    changes,   \* table serializd_changes: the day of each change, by its id
    row,       \* the one row of table serializd_checkpoint
    enabled,   \* app_settings: serializd_enabled
    webhook,   \* the notifier has a webhook
    tasks,     \* what there is to announce of the rating tasks
    holdOff,   \* integration_state: serializd_next_attempt_at is in the future
    local,     \* what each request and the notifier hold between statements
    told,      \* history: announcements since it last became due or stopped to be
    unmarked,  \* history: one of them left the row without its mark
    marks, toggles, failures

budget == <<marks, toggles, failures>>
discord == <<webhook, tasks, holdOff>>
vars == <<clock, changes, row, enabled, discord, local, told, unmarked, budget>>

Never == -1
Processes == Requests \union {Notifier}

CheckpointRow == [last: Nat, confirmed: Int, due: BOOLEAN, announced: BOOLEAN]
FirstRow == [last |-> 0, confirmed |-> Never, due |-> FALSE, announced |-> FALSE]

Local ==
    [at: {"idle", "mark", "advance", "status", "row", "counted", "tasks", "send", "sent"},
     enabled: BOOLEAN, high: Nat, row: CheckpointRow, due: BOOLEAN]
Idle == [at |-> "idle", enabled |-> FALSE, high |-> 0, row |-> FirstRow, due |-> FALSE]

-----------------------------------------------------------------------------
(* Is a reminder due for a checkpoint?  The days count from its confirmation *)
(* or, before the first, from the oldest change behind it.                  *)
Pending(r) == Len(changes) - r.last

Reference(r) == IF r.confirmed # Never THEN r.confirmed ELSE changes[r.last + 1]

DueFor(r, on) ==
    /\ on
    /\ Pending(r) > 0
    /\ \/ ReminderChanges > 0 /\ Pending(r) >= ReminderChanges
       \/ ReminderDays > 0 /\ clock >= Reference(r) + ReminderDays

TrulyDue == DueFor(row, enabled)

(* History updates for a step that may start or end a due state. *)
DueStateMayChange ==
    IF TrulyDue' = TrulyDue
    THEN UNCHANGED <<told, unmarked>>
    ELSE told' = 0 /\ unmarked' = FALSE

-----------------------------------------------------------------------------
Init ==
    /\ clock = 0
    /\ changes = <<>>
    /\ row = FirstRow
    /\ enabled = TRUE
    /\ webhook = TRUE
    /\ tasks = "none"
    /\ holdOff = FALSE
    /\ local = [p \in Processes |-> Idle]
    /\ told = 0
    /\ unmarked = FALSE
    /\ marks = 0
    /\ toggles = 0
    /\ failures = 0

Tick ==
    /\ clock < MaxTime
    /\ clock' = clock + 1
    /\ UNCHANGED <<changes, row, enabled, discord, local, budget>>
    /\ DueStateMayChange

(* The triggers on watch_events and ratings record a change of an episode. *)
RecordChange ==
    /\ Len(changes) < MaxChanges
    /\ changes' = Append(changes, clock)
    /\ UNCHANGED <<clock, row, enabled, discord, local, budget>>
    /\ DueStateMayChange

(* The user switches the integration on or off. *)
Toggle ==
    /\ toggles < MaxToggles
    /\ toggles' = toggles + 1
    /\ enabled' = ~enabled
    /\ UNCHANGED <<clock, changes, row, discord, local, marks, failures>>
    /\ DueStateMayChange

-----------------------------------------------------------------------------
(* A process goes on from one statement to the next. *)
At(p, step) == local[p].at = step

Goes(p, to) == local' = [local EXCEPT ![p].at = to]

GetStatus(p) ==
    /\ p \in Requests
    /\ At(p, "idle")
    /\ local' = [local EXCEPT ![p] = [Idle EXCEPT !.at = "status", !.enabled = enabled]]
    /\ UNCHANGED <<clock, changes, row, enabled, discord, told, unmarked, budget>>

(* MarkSynced: the user confirms that he has run the importer. *)
MarkSynced(p) ==
    /\ p \in Requests
    /\ At(p, "idle")
    /\ marks < MaxMarks
    /\ marks' = marks + 1
    /\ local' = [local EXCEPT ![p] = [Idle EXCEPT !.at = "mark", !.enabled = enabled]]
    /\ UNCHANGED <<clock, changes, row, enabled, discord, told, unmarked, toggles, failures>>

(* Mutant of HighWater: the id of the next change. *)
NextChange == Len(changes) + 1

HighWater == Len(changes)

ReadHighWater(p) ==
    /\ At(p, "mark")
    /\ local' = [local EXCEPT ![p].at = "advance", ![p].high = HighWater]
    /\ UNCHANGED <<clock, changes, row, enabled, discord, told, unmarked, budget>>

AdvanceCheckpoint(p) ==
    /\ At(p, "advance")
    /\ row' = [last |-> local[p].high, confirmed |-> clock, due |-> FALSE, announced |-> FALSE]
    /\ Goes(p, "status")
    /\ UNCHANGED <<clock, changes, enabled, discord, budget>>
    /\ DueStateMayChange

(* Status, statement by statement. *)
ReadRow(p) ==
    /\ At(p, "status")
    /\ local' = [local EXCEPT ![p].at = "row", ![p].row = row]
    /\ UNCHANGED <<clock, changes, row, enabled, discord, told, unmarked, budget>>

CountChanges(p) ==
    /\ At(p, "row")
    /\ local' = [local EXCEPT ![p].at = "counted",
                              ![p].due = DueFor(local[p].row, local[p].enabled)]
    /\ UNCHANGED <<clock, changes, row, enabled, discord, told, unmarked, budget>>

(* Mutant of AnnouncementPending: an announcement made before is not looked at. *)
AnnouncementPendingAnyway(l) == l.due

(* Mutant of AnnouncementPending: only the Status that finds it due announces. *)
AnnouncedByFinder(l) == l.due /\ ~l.row.due

AnnouncementPending(l) == l.due /\ (l.row.due => ~l.row.announced)

(* The row is written when its due flag was found to differ; the mark of an  *)
(* announcement is cleared whichever way it differs.                        *)
StoreDue(p) ==
    LET l == local[p]
        stored == l.due # l.row.due
    IN  /\ At(p, "counted")
        /\ row' = IF stored THEN [row EXCEPT !.due = l.due, !.announced = FALSE] ELSE row
        /\ unmarked' = (unmarked \/ (stored /\ told > 0))
        /\ local' = [local EXCEPT ![p] =
                        IF p = Notifier /\ AnnouncementPending(l)
                        THEN [Idle EXCEPT !.at = "send"] ELSE Idle]
        /\ UNCHANGED <<clock, changes, enabled, discord, told, budget>>

-----------------------------------------------------------------------------
(* The webhook is removed or configured again, and the next message sent     *)
(* accordingly.                                                             *)
ConfigureWebhook ==
    /\ toggles < MaxToggles
    /\ toggles' = toggles + 1
    /\ webhook' = ~webhook
    /\ UNCHANGED <<clock, changes, row, enabled, tasks, holdOff, local, told, unmarked,
                   marks, failures>>

(* A rating task is made, once. *)
MakeTask ==
    /\ tasks = "none"
    /\ tasks' = "new"
    /\ UNCHANGED <<clock, changes, row, enabled, webhook, holdOff, local, told, unmarked, budget>>

(* The reminder is looked at, unless an earlier failure put it off. *)
PollSerializd ==
    local' = [local EXCEPT ![Notifier] =
                 IF holdOff THEN Idle ELSE [Idle EXCEPT !.at = "status", !.enabled = enabled]]

(* The poll begins with the tasks that are not put off. *)
Poll ==
    /\ At(Notifier, "idle")
    /\ webhook
    /\ IF tasks = "new" THEN Goes(Notifier, "tasks") ELSE PollSerializd
    /\ UNCHANGED <<clock, changes, row, enabled, discord, told, unmarked, budget>>

TasksAccepted ==
    /\ At(Notifier, "tasks")
    /\ webhook
    /\ tasks' = "announced"
    /\ PollSerializd
    /\ UNCHANGED <<clock, changes, row, enabled, webhook, holdOff, told, unmarked, budget>>

(* A message fails without a webhook, and may fail with one. *)
SendingFails ==
    IF webhook THEN failures < MaxFailures /\ failures' = failures + 1
    ELSE UNCHANGED failures

(* The tasks are put off, and the poll ends. *)
TasksFail ==
    /\ At(Notifier, "tasks")
    /\ SendingFails
    /\ tasks' = "off"
    /\ local' = [local EXCEPT ![Notifier] = Idle]
    /\ UNCHANGED <<clock, changes, row, enabled, webhook, holdOff, told, unmarked, marks, toggles>>

TasksRetryDue ==
    /\ tasks = "off"
    /\ tasks' = "new"
    /\ UNCHANGED <<clock, changes, row, enabled, webhook, holdOff, local, told, unmarked, budget>>

SendAccepted ==
    /\ At(Notifier, "send")
    /\ webhook
    /\ told' = told + 1
    /\ Goes(Notifier, "sent")
    /\ UNCHANGED <<clock, changes, row, enabled, discord, unmarked, budget>>

(* The call to Discord fails, though the message may have arrived. *)
SendFails ==
    /\ At(Notifier, "send")
    /\ SendingFails
    /\ \/ UNCHANGED <<told, unmarked>>
       \/ webhook /\ told' = told + 1 /\ unmarked' = TRUE
    /\ holdOff' = TRUE
    /\ local' = [local EXCEPT ![Notifier] = Idle]
    /\ UNCHANGED <<clock, changes, row, enabled, webhook, tasks, marks, toggles>>

RetryDue ==
    /\ holdOff
    /\ holdOff' = FALSE
    /\ UNCHANGED <<clock, changes, row, enabled, webhook, tasks, local, told, unmarked, budget>>

(* Mutant of CanBeMarked: the row is marked whether or not it is due. *)
CanBeMarkedAnyway == TRUE

CanBeMarked == row.due

(* Without a due row the mark is refused, and the poll ends in an error. *)
MarkReminderAnnounced ==
    /\ At(Notifier, "sent")
    /\ \/ /\ CanBeMarked
          /\ row' = [row EXCEPT !.announced = TRUE]
          /\ UNCHANGED unmarked
       \/ /\ ~CanBeMarked
          /\ unmarked' = (told > 0)
          /\ UNCHANGED row
    /\ local' = [local EXCEPT ![Notifier] = Idle]
    /\ UNCHANGED <<clock, changes, enabled, discord, told, budget>>

(* The process restarts: only the tables remain. *)
Restart ==
    /\ failures < MaxFailures
    /\ failures' = failures + 1
    /\ \E p \in Processes : ~At(p, "idle")
    /\ local' = [p \in Processes |-> Idle]
    /\ unmarked' = (unmarked \/ (At(Notifier, "sent") /\ told > 0))
    /\ UNCHANGED <<clock, changes, row, enabled, discord, told, marks, toggles>>

-----------------------------------------------------------------------------
Status(p) == ReadRow(p) \/ CountChanges(p) \/ StoreDue(p)

NotifierRuns ==
    \/ Poll \/ TasksAccepted \/ Status(Notifier) \/ SendAccepted \/ MarkReminderAnnounced
    \/ ~webhook /\ (TasksFail \/ SendFails)

WebRequest ==
    \E p \in Requests :
        GetStatus(p) \/ MarkSynced(p) \/ ReadHighWater(p) \/ AdvanceCheckpoint(p) \/ Status(p)

Next ==
    \/ Tick \/ RecordChange \/ Toggle \/ ConfigureWebhook \/ MakeTask
    \/ WebRequest \/ NotifierRuns \/ TasksFail \/ SendFails \/ Restart
    \/ TasksRetryDue \/ RetryDue

(* The notifier polls for ever, and what is put off is due again after a     *)
(* while; requests come or do not.                                          *)
Spec ==
    /\ Init /\ [][Next]_vars
    /\ WF_vars(NotifierRuns) /\ WF_vars(TasksRetryDue) /\ WF_vars(RetryDue)

-----------------------------------------------------------------------------
TypeOK ==
    /\ clock \in Nat
    /\ changes \in Seq(Nat)
    /\ row \in CheckpointRow
    /\ row.last <= Len(changes)
    /\ tasks \in {"none", "new", "off", "announced"}
    /\ enabled \in BOOLEAN /\ webhook \in BOOLEAN /\ holdOff \in BOOLEAN
    /\ local \in [Processes -> Local]
    /\ told \in Nat /\ unmarked \in BOOLEAN
    /\ marks \in Nat /\ toggles \in Nat /\ failures \in Nat

(* A reminder marked as announced is due, whoever wrote the row last and     *)
(* from whatever it had read before.                                        *)
AnnouncedIsDue == row.announced => row.due

(* A due state is announced again only when an announcement left the row     *)
(* without its mark: its answer was lost, the process restarted before it    *)
(* was marked, the mark was refused, a Status begun earlier overwrote it, or *)
(* the user confirmed what does not end the due state.                      *)
RepeatsAreExplained == told > 1 => unmarked

(* The mark was set, though nothing has been announced since it became due:  *)
(* the announcement was for an earlier due state.                           *)
Overtaken == row.announced /\ told = 0

(* What is due is announced, through failures and restarts and whatever       *)
(* happens to the tasks announced before it, unless it stops being due, is   *)
(* overtaken or there is no webhook.                                        *)
DueIsAnnounced == TrulyDue ~> (told > 0 \/ ~TrulyDue \/ Overtaken \/ ~webhook)

(* docs/serializd.md: at most one announcement per unchanged due state.      *)
AnnouncedAtMostOnce == told <= 1

=============================================================================
