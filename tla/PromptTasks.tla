----------------------------- MODULE PromptTasks -----------------------------
(***************************************************************************)
(* The tasks that ask the user to rate what was watched: which watches     *)
(* make one (the rules), how it is stored once, resolved by the user, and  *)
(* announced by the Discord notifier.                                      *)
(*                                                                         *)
(* The rules are modelled for one movie and one season whose episodes are  *)
(* released one by one.  Each batch of new watches is evaluated after it   *)
(* has been stored; of the baseline, of ignored titles and of a season     *)
(* whose episodes are not known it asks nothing.  The notifier selects tasks, calls Discord and marks   *)
(* them in separate statements, while the user resolves the same tasks.    *)
(***************************************************************************)
EXTENDS Integers, Sequences, FiniteSets, FiniteSetsExt

CONSTANTS
    Episodes,     \* numbers of the season's episodes
    Specials,     \* those that are not normal episodes
    Movie,        \* media id of the movie
    Season,       \* media id of the season; an episode's is its number
    Limit,        \* tasks announced by one message
    MaxBatches,   \* bound: batches of new watches
    MaxToggles,   \* bound: times prompts are switched on or off
    MaxFailures   \* bound: failed calls to Discord and restarts

ASSUME EpisodesAssumption == Episodes \subseteq Nat \ {0} /\ Specials \subseteq Episodes
(* Media ids in the order in which Evaluate sorts its decisions by kind. *)
ASSUME MediaAssumption ==
    /\ Movie \in Nat /\ Season \in Nat /\ Movie < Season
    /\ \A e \in Episodes : e < Movie
ASSUME LimitAssumption == Limit \in Nat \ {0}

VARIABLES
    released,   \* episodes Trakt lists as released
    watched,    \* episodes watched so far
    enabled,    \* app_settings: prompt_movies_enabled, prompt_tv_enabled
    tasks,      \* table prompt_tasks, by id
    notes,      \* table discord_task_notifications: nothing, "retry", "due" or "sent"
    step,       \* the notifier's next statement
    ids,        \* the tasks it has selected
    told,       \* history: announcements of a task
    unmarked,   \* history: tasks whose announcement was not marked
    early,      \* history: a normal episode was watched before its release
    muted,      \* history: one was first watched while nothing was asked about it
    given, toggles, failures

world == <<released, watched, early, muted>>
notifier == <<notes, step, ids, told, unmarked>>
budget == <<given, toggles, failures>>
vars == <<world, enabled, tasks, notifier, budget>>

Topics == {"movies", "tv"}
Normal == Episodes \ Specials
Media == Episodes \union {Movie, Season}
Open(t) == tasks[t].state \in {"pending", "snoozed"}

-----------------------------------------------------------------------------
(* Evaluate, for the episodes just watched and those watched before.         *)
Newest(r) == Max(r \intersect Normal)

FirstWatched(new, before) == (new \ before) \intersect Normal

(* Mutant of AllReleased: the season's last episodes are not waited for. *)
SomeReleased(r) == r \intersect Normal # {}

AllReleased(r) == Normal \subseteq r

CaughtUp(r, w) == r \intersect Normal \subseteq w

SeasonDecisions(r, new, before) ==
    IF AllReleased(r) /\ CaughtUp(r, before \union new) /\ FirstWatched(new, before) # {}
    THEN {Season} ELSE {}

(* Mutant of NewestIsNew: a rewatch counts. *)
NewestIsWatched(r, new, before) == Newest(r) \in new

NewestIsNew(r, new, before) == Newest(r) \in FirstWatched(new, before)

EpisodeDecisions(r, new, before) ==
    IF /\ r \intersect Normal # {}
       /\ ~AllReleased(r)
       /\ CaughtUp(r, before \union new)
       /\ NewestIsNew(r, new, before)
    THEN {Newest(r)} ELSE {}

(* Evaluate leaves out a baseline, ignored titles and a season it does not   *)
(* know, Apply what the user has switched off, and media that have an open   *)
(* task.                                                                    *)
Decisions(r, new, before, movie, asked) ==
    {m \in {Movie} : movie /\ "movies" \in asked}
        \union {m \in SeasonDecisions(r, new, before) \union EpisodeDecisions(r, new, before) :
                  "tv" \in asked}

(* Mutant of HasTask: a snoozed task is not looked at. *)
HasPendingTask(m) == \E t \in DOMAIN tasks : tasks[t].media = m /\ tasks[t].state = "pending"

HasTask(m) == \E t \in DOMAIN tasks : tasks[t].media = m /\ Open(t)

InOrder(S) ==
    CHOOSE s \in [1 .. Cardinality(S) -> S] :
        \A i, j \in 1 .. Cardinality(S) : i < j => s[i] < s[j]

NewTasks(decisions) ==
    LET chosen == InOrder({m \in decisions : ~HasTask(m)})
    IN  [i \in DOMAIN chosen |-> [media |-> chosen[i], state |-> "pending"]]

-----------------------------------------------------------------------------
Init ==
    /\ released = {}
    /\ watched = {}
    /\ enabled = Topics
    /\ tasks = <<>>
    /\ notes = <<>>
    /\ step = "idle"
    /\ ids = {}
    /\ told = <<>>
    /\ unmarked = {}
    /\ early = FALSE
    /\ muted = FALSE
    /\ given = 0
    /\ toggles = 0
    /\ failures = 0

(* Episodes are released in the order of their numbers. *)
Release ==
    /\ \E e \in Episodes \ released :
           /\ \A f \in Episodes \ released : e <= f
           /\ released' = released \union {e}
    /\ UNCHANGED <<watched, early, muted, enabled, tasks, notifier, budget>>

TogglePrompts ==
    /\ toggles < MaxToggles
    /\ toggles' = toggles + 1
    /\ \E topic \in Topics :
           enabled' = IF topic \in enabled THEN enabled \ {topic} ELSE enabled \union {topic}
    /\ UNCHANGED <<world, tasks, notifier, given, failures>>

(* A batch of new watches: episodes, again or for the first time, and the    *)
(* movie, with the topics it is evaluated for.  Trakt may list an episode as *)
(* released only after it was watched.                                      *)
ApplyBatch ==
    /\ given < MaxBatches
    /\ given' = given + 1
    /\ \E new \in SUBSET Episodes, movie \in BOOLEAN, asked \in SUBSET enabled :
           LET created == NewTasks(Decisions(released, new, watched, movie, asked))
               untold == [i \in DOMAIN created |-> 0]
           IN  /\ new # {} \/ movie
               /\ watched' = watched \union new
               /\ early' = (early \/ ~(FirstWatched(new, watched) \subseteq released))
               /\ muted' = (muted \/ ("tv" \notin asked /\ FirstWatched(new, watched) # {}))
               /\ tasks' = tasks \o created
               /\ notes' = notes \o [i \in DOMAIN created |-> "none"]
               /\ told' = told \o untold
    /\ UNCHANGED <<released, enabled, step, ids, unmarked, toggles, failures>>

(* The user completes or skips an open task, or snoozes it; nothing tells a  *)
(* completed task from a skipped one afterwards.                            *)
Resolve ==
    /\ \E t \in DOMAIN tasks, state \in {"resolved", "snoozed"} :
           /\ Open(t)
           /\ tasks[t].state # state
           /\ tasks' = [tasks EXCEPT ![t].state = state]
    /\ UNCHANGED <<world, enabled, notifier, budget>>

-----------------------------------------------------------------------------
(* pollTasks takes the open tasks that are neither announced nor put off.     *)
(* Mutant of Announceable: the mark of an announcement is not looked at. *)
AnnounceableAgain(t) == Open(t) /\ notes[t] # "retry"

(* Mutant of Announceable: a task is not tried again. *)
NeverTried(t) == Open(t) /\ notes[t] = "none"

Announceable(t) == Open(t) /\ notes[t] \in {"none", "due"}

SelectTasks ==
    /\ step = "idle"
    /\ LET due == {t \in DOMAIN tasks : Announceable(t)}
       IN  /\ due # {}
           /\ ids' = {t \in due : Cardinality({u \in due : u <= t}) <= Limit}
    /\ step' = "send"
    /\ UNCHANGED <<world, enabled, tasks, notes, told, unmarked, budget>>

Tell == told' = [t \in DOMAIN told |-> told[t] + (IF t \in ids THEN 1 ELSE 0)]

SendAccepted ==
    /\ step = "send"
    /\ Tell
    /\ step' = "sent"
    /\ UNCHANGED <<world, enabled, tasks, notes, ids, unmarked, budget>>

(* Mutant of MarkSent: the batch is kept. *)
MarkSentKeepsBatch ==
    /\ step = "sent"
    /\ notes' = [t \in DOMAIN notes |-> IF t \in ids THEN "sent" ELSE notes[t]]
    /\ step' = "idle"
    /\ UNCHANGED <<world, enabled, tasks, ids, told, unmarked, budget>>

MarkSent ==
    /\ step = "sent"
    /\ notes' = [t \in DOMAIN notes |-> IF t \in ids THEN "sent" ELSE notes[t]]
    /\ step' = "idle"
    /\ ids' = {}
    /\ UNCHANGED <<world, enabled, tasks, told, unmarked, budget>>

(* The call fails, though the message may have arrived. *)
SendFails ==
    /\ step = "send"
    /\ failures < MaxFailures
    /\ failures' = failures + 1
    /\ \/ Tell /\ unmarked' = unmarked \union ids
       \/ UNCHANGED <<told, unmarked>>
    /\ step' = "failed"
    /\ UNCHANGED <<world, enabled, tasks, notes, ids, given, toggles>>

(* recordTaskFailure puts the tasks off one by one. *)
PutOff ==
    /\ step = "failed"
    /\ LET t == Min(ids)
       IN  /\ notes' = [notes EXCEPT ![t] = "retry"]
           /\ ids' = ids \ {t}
           /\ step' = IF ids = {t} THEN "idle" ELSE "failed"
    /\ UNCHANGED <<world, enabled, tasks, told, unmarked, budget>>

RetryDue ==
    /\ \E t \in DOMAIN notes :
           /\ notes[t] = "retry"
           /\ notes' = [notes EXCEPT ![t] = "due"]
    /\ UNCHANGED <<world, enabled, tasks, step, ids, told, unmarked, budget>>

Restart ==
    /\ step # "idle"
    /\ failures < MaxFailures
    /\ failures' = failures + 1
    /\ unmarked' = (IF step = "sent" THEN unmarked \union ids ELSE unmarked)
    /\ step' = "idle"
    /\ ids' = {}
    /\ UNCHANGED <<world, enabled, tasks, notes, told, given, toggles>>

-----------------------------------------------------------------------------
Poll == SelectTasks \/ SendAccepted \/ MarkSent \/ PutOff

Next ==
    \/ Release \/ TogglePrompts \/ ApplyBatch \/ Resolve
    \/ Poll \/ RetryDue \/ SendFails \/ Restart

(* The notifier polls for ever, and every delay passes. *)
Spec == Init /\ [][Next]_vars /\ WF_vars(Poll) /\ WF_vars(RetryDue)

-----------------------------------------------------------------------------
TypeOK ==
    /\ released \subseteq Episodes /\ watched \subseteq Episodes
    /\ enabled \subseteq Topics
    /\ tasks \in Seq([media: Media, state: {"pending", "snoozed", "resolved"}])
    /\ notes \in [DOMAIN tasks -> {"none", "retry", "due", "sent"}]
    /\ told \in [DOMAIN tasks -> Nat]
    /\ step \in {"idle", "send", "sent", "failed"}
    /\ step # "idle" <=> ids # {}
    /\ ids \subseteq DOMAIN tasks /\ unmarked \subseteq DOMAIN tasks
    /\ early \in BOOLEAN /\ muted \in BOOLEAN
    /\ given \in Nat /\ toggles \in Nat /\ failures \in Nat

(* A title is never in the inbox twice, however often it is watched while a  *)
(* task for it is open or snoozed.                                          *)
OneOpenTask ==
    \A t, u \in DOMAIN tasks :
        Open(t) /\ Open(u) /\ tasks[t].media = tasks[u].media => t = u

SeasonIsComplete == Normal \subseteq released \intersect watched

(* A season is asked about when and only when it is complete, in whatever    *)
(* order and batches its episodes were watched; unless one of them was       *)
(* watched before its release or while nothing was to be asked about it.    *)
SeasonIsAskedForWhenComplete ==
    /\ (\E t \in DOMAIN tasks : tasks[t].media = Season) => SeasonIsComplete
    /\ SeasonIsComplete /\ Normal # {} =>
           early \/ muted \/ \E t \in DOMAIN tasks : tasks[t].media = Season

(* An episode is asked about only when it is the newest one released and was *)
(* just watched for the first time, nothing before it is left, and more are  *)
(* to come: never in the middle of a backlog.                               *)
EpisodeIsAskedForWhenCaughtUp ==
    [][\A t \in DOMAIN tasks' \ DOMAIN tasks :
           LET e == tasks'[t].media
           IN  e \in Episodes =>
                   /\ e \in Normal \intersect released /\ e \notin watched /\ e \in watched'
                   /\ \A f \in Normal : f \in released <=> f <= e
                   /\ {f \in Normal : f <= e} \subseteq watched'
                   /\ \E f \in Normal : f > e]_vars

(* A task is announced again only when the mark of an announcement was lost. *)
AnnouncedOnce == \A t \in DOMAIN tasks : told[t] > 1 => t \in unmarked

(* Every task is announced or resolved, through failures and restarts: again *)
(* and again, none is left open that was not announced.                      *)
TaskIsAnnounced == []<>(\A t \in DOMAIN tasks : told[t] > 0 \/ ~Open(t))

=============================================================================
