----------------------- MODULE SerializdReminder_proofs -----------------------
(***************************************************************************)
(* Proofs about SerializdReminder, for any number of requests, changes,    *)
(* days, confirmations, failures and restarts.                             *)
(***************************************************************************)
EXTENDS SerializdReminder, TLAPS

RequestSteps == {"idle", "mark", "advance", "status", "row", "counted"}

(* Only the notifier announces, and nobody has counted more changes than     *)
(* there are.                                                               *)
StepInv ==
    /\ \A p \in Requests : local[p].at \in RequestSteps
    /\ \A p \in Processes : local[p].high <= Len(changes)

(* A row in which nothing is left to announce. *)
Settled(r) == r.announced \/ ~r.due

(* The due state has been announced, and no mark was lost. *)
Told == told > 0 /\ ~unmarked

(* Then no second announcement is being made, nor does the notifier hold a   *)
(* row that it would announce.                                              *)
ToldInv ==
    Told =>
        /\ told = 1
        /\ ~At(Notifier, "send")
        /\ At(Notifier, "sent") \/ Settled(row)
        /\ local[Notifier].at \in {"row", "counted"} => Settled(local[Notifier].row)

IInv == TypeOK /\ StepInv /\ AnnouncedIsDue /\ ToldInv

-----------------------------------------------------------------------------
(* Processes and statements. *)
LEMMA IdleType == Idle \in Local /\ FirstRow \in CheckpointRow
  BY DEF Idle, Local, FirstRow, CheckpointRow, Never

LEMMA NotifierFacts == Notifier \in Processes /\ Requests \subseteq Processes
  BY DEF Processes

(* A due state that starts or ends takes its announcements along. *)
LEMMA DueStateFacts ==
  ASSUME DueStateMayChange
  PROVE  UNCHANGED <<told, unmarked>> \/ (told' = 0 /\ unmarked' = FALSE)
  BY DEF DueStateMayChange

LEMMA DueStateTypes ==
  ASSUME TypeOK, DueStateMayChange
  PROVE  told' \in Nat /\ unmarked' \in BOOLEAN
  <1>1. CASE UNCHANGED <<told, unmarked>>
    BY <1>1 DEF TypeOK
  <1>2. CASE told' = 0 /\ unmarked' = FALSE
    <2>1. told' \in Nat
      BY <1>2
    <2>2. unmarked' \in BOOLEAN
      BY <1>2
    <2> QED BY <2>1, <2>2
  <1> QED BY <1>1, <1>2, DueStateFacts

(* A message that fails is counted at most. *)
LEMMA FailureTypes ==
  ASSUME TypeOK, SendingFails
  PROVE  failures' \in Nat
  <1>1. CASE webhook
    BY <1>1 DEF TypeOK, SendingFails
  <1>2. CASE ~webhook
    BY <1>2 DEF TypeOK, SendingFails
  <1> QED BY <1>1, <1>2

(* Goes changes the statement of one process only. *)
LEMMA GoesFacts ==
  ASSUME TypeOK, NEW p \in Processes,
         NEW to \in RequestSteps \union {"tasks", "send", "sent"}, Goes(p, to)
  PROVE  /\ local' \in [Processes -> Local]
         /\ \A q \in Processes \ {p} : local'[q] = local[q]
         /\ local'[p].at = to
         /\ local'[p].high = local[p].high
         /\ local'[p].row = local[p].row
  BY DEF TypeOK, Goes, Local, RequestSteps

(* A process that begins again holds nothing but the setting it has read. *)
LEMMA BeginFacts ==
  ASSUME TypeOK, NEW p \in Processes, NEW at \in RequestSteps \union {"send"}, NEW on \in BOOLEAN,
         local' = [local EXCEPT ![p] = [Idle EXCEPT !.at = at, !.enabled = on]]
  PROVE  /\ local' \in [Processes -> Local]
         /\ \A q \in Processes \ {p} : local'[q] = local[q]
         /\ local'[p].at = at
         /\ local'[p].high = 0
  BY IdleType DEF TypeOK, Idle, Local, RequestSteps

(* A process that ends is idle. *)
LEMMA EndFacts ==
  ASSUME TypeOK, NEW p \in Processes, local' = [local EXCEPT ![p] = Idle]
  PROVE  /\ local' \in [Processes -> Local]
         /\ \A q \in Processes \ {p} : local'[q] = local[q]
         /\ local'[p].at = "idle"
         /\ local'[p].high = 0
  BY IdleType DEF TypeOK, Idle

(* The notifier goes on to the reminder, or ends when it is put off. *)
LEMMA PollSerializdFacts ==
  ASSUME TypeOK, PollSerializd
  PROVE  /\ local' \in [Processes -> Local]
         /\ \A q \in Requests : local'[q] = local[q]
         /\ local'[Notifier].at \in {"idle", "status"}
         /\ local'[Notifier].high = 0
  <1>1. CASE holdOff
    BY <1>1, EndFacts, NotifierFacts, NotifierAssumption DEF PollSerializd
  <1>2. CASE ~holdOff
    <2>1. local' = [local EXCEPT ![Notifier] = [Idle EXCEPT !.at = "status", !.enabled = enabled]]
      BY <1>2 DEF PollSerializd
    <2>2. "status" \in RequestSteps \union {"send"} /\ enabled \in BOOLEAN
      BY DEF RequestSteps, TypeOK
    <2> QED BY <2>1, <2>2, BeginFacts, NotifierFacts, NotifierAssumption
  <1> QED BY <1>1, <1>2

-----------------------------------------------------------------------------
(* Types, and what each process can be doing. *)
LEMMA TypeInit == Init => TypeOK /\ StepInv
  <1> SUFFICES ASSUME Init
               PROVE  TypeOK /\ StepInv
    OBVIOUS
  <1>1. /\ local \in [Processes -> Local]
        /\ \A p \in Processes : local[p].at = "idle" /\ local[p].high = 0
    BY IdleType DEF Init, Idle
  <1>2. row \in CheckpointRow /\ row.last = 0 /\ changes \in Seq(Nat) /\ Len(changes) = 0
    BY IdleType DEF Init, FirstRow
  <1>3. enabled \in BOOLEAN /\ webhook \in BOOLEAN /\ holdOff \in BOOLEAN /\ unmarked \in BOOLEAN
    BY DEF Init
  <1>4. /\ clock \in Nat /\ told \in Nat /\ marks \in Nat /\ toggles \in Nat /\ failures \in Nat
        /\ tasks \in {"none", "new", "off", "announced"}
    BY DEF Init
  <1>5. TypeOK
    BY <1>1, <1>2, <1>3, <1>4 DEF TypeOK
  <1> QED BY <1>1, <1>2, <1>5, NotifierFacts DEF StepInv, RequestSteps

(* Every step keeps the types and what each process can be doing. *)
LEMMA TypeStep ==
  ASSUME TypeOK, StepInv, [Next]_vars
  PROVE  TypeOK' /\ StepInv'
  <1> USE NotifierFacts, NotifierAssumption DEF At
  <1>1. ASSUME Tick PROVE TypeOK' /\ StepInv'
    BY <1>1, DueStateTypes DEF Tick, discord, budget, TypeOK, StepInv
  <1>2. ASSUME RecordChange PROVE TypeOK' /\ StepInv'
    <2>1. changes' \in Seq(Nat) /\ Len(changes') = Len(changes) + 1
      BY <1>2 DEF RecordChange, TypeOK
    <2>2. \A p \in Processes : local[p].high \in Nat
      BY DEF TypeOK, Local
    <2>3. row.last \in Nat /\ Len(changes) \in Nat
      BY DEF TypeOK, CheckpointRow
    <2> QED BY <1>2, <2>1, <2>2, <2>3, DueStateTypes DEF RecordChange, discord, budget, TypeOK, StepInv
  <1>3. ASSUME Toggle PROVE TypeOK' /\ StepInv'
    <2>1. enabled' \in BOOLEAN
      BY <1>3 DEF Toggle
    <2> QED BY <1>3, <2>1, DueStateTypes DEF Toggle, discord, TypeOK, StepInv
  <1>4. ASSUME ConfigureWebhook PROVE TypeOK' /\ StepInv'
    BY <1>4 DEF ConfigureWebhook, TypeOK, StepInv
  <1>5. ASSUME MakeTask PROVE TypeOK' /\ StepInv'
    BY <1>5 DEF MakeTask, budget, TypeOK, StepInv
  <1>6. ASSUME NEW p \in Processes, GetStatus(p) PROVE TypeOK' /\ StepInv'
    <2>1. /\ local' \in [Processes -> Local]
          /\ \A q \in Processes \ {p} : local'[q] = local[q]
          /\ local'[p].at = "status" /\ local'[p].high = 0
      <3>1. "status" \in RequestSteps \union {"send"} /\ enabled \in BOOLEAN
        BY DEF RequestSteps, TypeOK
      <3> QED BY <1>6, <3>1, BeginFacts DEF GetStatus
    <2> QED BY <1>6, <2>1 DEF GetStatus, discord, budget, TypeOK, StepInv, RequestSteps
  <1>7. ASSUME NEW p \in Processes, MarkSynced(p) PROVE TypeOK' /\ StepInv'
    <2>1. /\ local' \in [Processes -> Local]
          /\ \A q \in Processes \ {p} : local'[q] = local[q]
          /\ local'[p].at = "mark" /\ local'[p].high = 0
      <3>1. "mark" \in RequestSteps \union {"send"} /\ enabled \in BOOLEAN
        BY DEF RequestSteps, TypeOK
      <3> QED BY <1>7, <3>1, BeginFacts DEF MarkSynced
    <2> QED BY <1>7, <2>1 DEF MarkSynced, discord, TypeOK, StepInv, RequestSteps
  <1>8. ASSUME NEW p \in Processes, ReadHighWater(p) PROVE TypeOK' /\ StepInv'
    <2>1. /\ local' \in [Processes -> Local]
          /\ \A q \in Processes \ {p} : local'[q] = local[q]
          /\ local'[p].at = "advance" /\ local'[p].high = Len(changes)
      <3>1. Len(changes) \in Nat
        BY DEF TypeOK
      <3>2. local' = [local EXCEPT ![p].at = "advance", ![p].high = Len(changes)]
        BY <1>8 DEF ReadHighWater, HighWater
      <3> HIDE DEF At
      <3> QED BY <3>1, <3>2 DEF TypeOK, Local
    <2> QED BY <1>8, <2>1 DEF ReadHighWater, discord, budget, TypeOK, StepInv, RequestSteps
  <1>9. ASSUME NEW p \in Processes, AdvanceCheckpoint(p) PROVE TypeOK' /\ StepInv'
    <2>1. row' \in CheckpointRow /\ row'.last <= Len(changes)
      BY <1>9 DEF AdvanceCheckpoint, CheckpointRow, TypeOK, StepInv, Local
    <2>2. /\ local' \in [Processes -> Local]
          /\ \A q \in Processes \ {p} : local'[q] = local[q]
          /\ local'[p].at = "status" /\ local'[p].high = local[p].high
      <3>1. "status" \in RequestSteps \union {"tasks", "send", "sent"}
        BY DEF RequestSteps
      <3> QED BY <1>9, <3>1, GoesFacts DEF AdvanceCheckpoint
    <2> QED BY <1>9, <2>1, <2>2, DueStateTypes
        DEF AdvanceCheckpoint, discord, budget, TypeOK, StepInv, RequestSteps
  <1>10. ASSUME NEW p \in Processes, ReadRow(p) PROVE TypeOK' /\ StepInv'
    <2>1. /\ local' \in [Processes -> Local]
          /\ \A q \in Processes \ {p} : local'[q] = local[q]
          /\ local'[p].at = "row" /\ local'[p].high = local[p].high
      BY <1>10 DEF ReadRow, TypeOK, Local
    <2> QED BY <1>10, <2>1 DEF ReadRow, discord, budget, TypeOK, StepInv, RequestSteps
  <1>11. ASSUME NEW p \in Processes, CountChanges(p) PROVE TypeOK' /\ StepInv'
    <2>1. DueFor(local[p].row, local[p].enabled) \in BOOLEAN
      BY DEF DueFor
    <2>2. /\ local' \in [Processes -> Local]
          /\ \A q \in Processes \ {p} : local'[q] = local[q]
          /\ local'[p].at = "counted" /\ local'[p].high = local[p].high
      BY <1>11, <2>1 DEF CountChanges, TypeOK, Local
    <2> QED BY <1>11, <2>2 DEF CountChanges, discord, budget, TypeOK, StepInv, RequestSteps
  <1>12. ASSUME NEW p \in Processes, StoreDue(p) PROVE TypeOK' /\ StepInv'
    <2>1. row' \in CheckpointRow /\ row'.last = row.last
      BY <1>12 DEF StoreDue, TypeOK, CheckpointRow, Local
    <2>2. /\ local' \in [Processes -> Local]
          /\ \A q \in Processes \ {p} : local'[q] = local[q]
          /\ local'[p].at = "idle" \/ (p = Notifier /\ local'[p].at = "send")
          /\ local'[p].high = 0
      <3>1. CASE p = Notifier /\ AnnouncementPending(local[p])
        BY <1>12, <3>1, IdleType DEF StoreDue, TypeOK, Idle, Local
      <3>2. CASE ~(p = Notifier /\ AnnouncementPending(local[p]))
        BY <1>12, <3>2, EndFacts DEF StoreDue
      <3> QED BY <3>1, <3>2
    <2>3. unmarked' \in BOOLEAN
      BY <1>12 DEF StoreDue
    <2> QED BY <1>12, <2>1, <2>2, <2>3
        DEF StoreDue, discord, budget, TypeOK, StepInv, RequestSteps
  <1>13. ASSUME Poll PROVE TypeOK' /\ StepInv'
    <2>1. CASE tasks = "new"
      <3>1. Goes(Notifier, "tasks") /\ "tasks" \in RequestSteps \union {"tasks", "send", "sent"}
        BY <1>13, <2>1 DEF Poll
      <3>2. /\ local' \in [Processes -> Local]
            /\ \A q \in Requests : local'[q] = local[q]
            /\ local'[Notifier].high = local[Notifier].high
        BY <3>1, GoesFacts
      <3> QED BY <1>13, <3>2 DEF Poll, discord, budget, TypeOK, StepInv, Processes
    <2>2. CASE tasks # "new"
      BY <1>13, <2>2, PollSerializdFacts DEF Poll, discord, budget, TypeOK, StepInv, Processes
    <2> QED BY <2>1, <2>2
  <1>14. ASSUME TasksAccepted PROVE TypeOK' /\ StepInv'
    BY <1>14, PollSerializdFacts DEF TasksAccepted, budget, TypeOK, StepInv, Processes
  <1>15. ASSUME TasksFail PROVE TypeOK' /\ StepInv'
    <2>1. failures' \in Nat
      BY <1>15, FailureTypes DEF TasksFail
    <2>2. local' = [local EXCEPT ![Notifier] = Idle]
      BY <1>15 DEF TasksFail
    <2>3. /\ local' \in [Processes -> Local]
          /\ \A q \in Requests : local'[q] = local[q]
          /\ local'[Notifier].at = "idle" /\ local'[Notifier].high = 0
      BY <2>2, EndFacts
    <2> QED BY <1>15, <2>1, <2>3 DEF TasksFail, TypeOK, StepInv, Processes
  <1>16. ASSUME TasksRetryDue PROVE TypeOK' /\ StepInv'
    BY <1>16 DEF TasksRetryDue, budget, TypeOK, StepInv
  <1>17. ASSUME SendAccepted PROVE TypeOK' /\ StepInv'
    <2>1. Goes(Notifier, "sent") /\ "sent" \in RequestSteps \union {"tasks", "send", "sent"}
      BY <1>17 DEF SendAccepted
    <2>2. /\ local' \in [Processes -> Local]
          /\ \A q \in Requests : local'[q] = local[q]
          /\ local'[Notifier].high = local[Notifier].high
      BY <2>1, GoesFacts
    <2> QED BY <1>17, <2>2 DEF SendAccepted, discord, budget, TypeOK, StepInv, Processes
  <1>18. ASSUME SendFails PROVE TypeOK' /\ StepInv'
    <2>1. failures' \in Nat
      BY <1>18, FailureTypes DEF SendFails
    <2>2. told' \in Nat
      BY <1>18 DEF SendFails, TypeOK
    <2>3. unmarked' \in BOOLEAN
      BY <1>18 DEF SendFails, TypeOK
    <2>4. holdOff' \in BOOLEAN
      BY <1>18 DEF SendFails
    <2>5. /\ UNCHANGED <<clock, changes, row, enabled, webhook, tasks, marks, toggles>>
          /\ local' = [local EXCEPT ![Notifier] = Idle]
      BY <1>18 DEF SendFails
    <2>6. /\ local' \in [Processes -> Local]
          /\ \A q \in Requests : local'[q] = local[q]
          /\ local'[Notifier].at = "idle" /\ local'[Notifier].high = 0
      BY <2>5, EndFacts
    <2> QED BY <2>1, <2>2, <2>3, <2>4, <2>5, <2>6 DEF TypeOK, StepInv, Processes
  <1>19. ASSUME RetryDue PROVE TypeOK' /\ StepInv'
    BY <1>19 DEF RetryDue, budget, TypeOK, StepInv
  <1>20. ASSUME MarkReminderAnnounced PROVE TypeOK' /\ StepInv'
    <2>1. row' \in CheckpointRow /\ row'.last = row.last
      BY <1>20 DEF MarkReminderAnnounced, TypeOK, CheckpointRow
    <2>2. unmarked' \in BOOLEAN
      <3>1. unmarked' = unmarked \/ unmarked' = (told > 0)
        BY <1>20 DEF MarkReminderAnnounced
      <3>2. (told > 0) \in BOOLEAN
        OBVIOUS
      <3>3. unmarked \in BOOLEAN
        BY DEF TypeOK
      <3> QED BY <3>1, <3>2, <3>3, Zenon
    <2>3. /\ UNCHANGED <<clock, changes, enabled, webhook, tasks, holdOff, told,
                         marks, toggles, failures>>
          /\ local' = [local EXCEPT ![Notifier] = Idle]
      BY <1>20 DEF MarkReminderAnnounced, discord, budget
    <2>4. /\ local' \in [Processes -> Local]
          /\ \A q \in Requests : local'[q] = local[q]
          /\ local'[Notifier].at = "idle" /\ local'[Notifier].high = 0
      BY <2>3, EndFacts
    <2> QED BY <2>1, <2>2, <2>3, <2>4 DEF TypeOK, StepInv, Processes
  <1>21. ASSUME Restart PROVE TypeOK' /\ StepInv'
    <2>1. /\ local' \in [Processes -> Local]
          /\ \A p \in Processes : local'[p].at = "idle" /\ local'[p].high = 0
      BY <1>21, IdleType DEF Restart, Idle
    <2>2. unmarked' \in BOOLEAN
      BY <1>21 DEF Restart
    <2> QED BY <1>21, <2>1, <2>2 DEF Restart, discord, TypeOK, StepInv, RequestSteps
  <1>22. ASSUME UNCHANGED vars PROVE TypeOK' /\ StepInv'
    BY <1>22 DEF vars, discord, budget, TypeOK, StepInv
  <1> QED BY <1>1, <1>2, <1>3, <1>4, <1>5, <1>6, <1>7, <1>8, <1>9, <1>10, <1>11, <1>12, <1>13,
             <1>14, <1>15, <1>16, <1>17, <1>18, <1>19, <1>20, <1>21, <1>22
          DEF Next, WebRequest, NotifierRuns, Status

-----------------------------------------------------------------------------
(* A row marked as announced is due: a write that changes whether it is due  *)
(* clears the mark, and the mark is set only on a due row.                   *)
LEMMA AnnouncedStep ==
  ASSUME TypeOK, AnnouncedIsDue, [Next]_vars
  PROVE  AnnouncedIsDue'
  <1>1. ASSUME NEW p \in Processes, AdvanceCheckpoint(p) PROVE AnnouncedIsDue'
    BY <1>1 DEF AdvanceCheckpoint, AnnouncedIsDue
  <1>2. ASSUME NEW p \in Processes, StoreDue(p) PROVE AnnouncedIsDue'
    <2>1. row' = row \/ row'.announced = FALSE
      BY <1>2 DEF StoreDue, TypeOK, CheckpointRow
    <2> QED BY <2>1 DEF AnnouncedIsDue
  <1>3. ASSUME MarkReminderAnnounced PROVE AnnouncedIsDue'
    BY <1>3 DEF MarkReminderAnnounced, CanBeMarked, TypeOK, CheckpointRow, AnnouncedIsDue
  <1>4. ASSUME row' = row PROVE AnnouncedIsDue'
    BY <1>4 DEF AnnouncedIsDue
  <1>5. CASE Tick \/ RecordChange \/ Toggle \/ ConfigureWebhook \/ MakeTask
    BY <1>4, <1>5 DEF Tick, RecordChange, Toggle, ConfigureWebhook, MakeTask
  <1>6. CASE TasksFail \/ SendFails \/ Restart \/ TasksRetryDue \/ RetryDue
    BY <1>4, <1>6 DEF TasksFail, SendFails, Restart, TasksRetryDue, RetryDue
  <1>7. CASE Poll \/ TasksAccepted \/ SendAccepted
    BY <1>4, <1>7 DEF Poll, TasksAccepted, SendAccepted
  <1>8. ASSUME NEW p \in Processes,
               GetStatus(p) \/ MarkSynced(p) \/ ReadHighWater(p) \/ ReadRow(p) \/ CountChanges(p)
        PROVE  AnnouncedIsDue'
    BY <1>4, <1>8 DEF GetStatus, MarkSynced, ReadHighWater, ReadRow, CountChanges
  <1>9. CASE UNCHANGED vars
    BY <1>4, <1>9 DEF vars
  <1> QED BY <1>1, <1>2, <1>3, <1>5, <1>6, <1>7, <1>8, <1>9, NotifierFacts
          DEF Next, WebRequest, NotifierRuns, Status

-----------------------------------------------------------------------------
(* A step that leaves the history alone keeps ToldInv, when the row it leaves *)
(* behind and what the notifier is about allow no announcement.             *)
LEMMA ToldKept ==
  ASSUME ToldInv, told' = told, unmarked' = unmarked,
         Told => At(Notifier, "sent")' \/ Settled(row)',
         \/ local'[Notifier] = local[Notifier]
         \/ local'[Notifier].at \in {"idle", "mark", "advance", "status", "tasks"}
         \/ Told => local'[Notifier].at \in {"row", "counted"} /\ Settled(local'[Notifier].row)
  PROVE  ToldInv'
  <1>1. Told' = Told
    BY DEF Told
  <1> SUFFICES ASSUME Told
               PROVE  /\ told' = 1
                      /\ ~At(Notifier, "send")'
                      /\ At(Notifier, "sent")' \/ Settled(row)'
                      /\ local'[Notifier].at \in {"row", "counted"}
                            => Settled(local'[Notifier].row)
    BY <1>1 DEF ToldInv
  <1>2. /\ told = 1
        /\ local[Notifier].at # "send"
        /\ local[Notifier].at \in {"row", "counted"} => Settled(local[Notifier].row)
    BY DEF ToldInv, At
  <1> QED BY <1>2 DEF At

(* A step after which nothing was announced, or a mark was lost, keeps it. *)
LEMMA ToldGone ==
  ASSUME ~Told'
  PROVE  ToldInv'
  BY DEF ToldInv

(* A step of the environment keeps the row and what the notifier is about. *)
LEMMA ToldUntouched ==
  ASSUME ToldInv, row' = row, local'[Notifier] = local[Notifier],
         UNCHANGED <<told, unmarked>> \/ told' = 0
  PROVE  ToldInv'
  <1>1. CASE UNCHANGED <<told, unmarked>>
    <2>1. Told => At(Notifier, "sent")' \/ Settled(row)'
      BY DEF ToldInv, At, Settled
    <2> QED BY <1>1, <2>1, ToldKept
  <1>2. CASE told' = 0
    BY <1>2, ToldGone DEF Told
  <1> QED BY <1>1, <1>2

(* Every step keeps ToldInv. *)
LEMMA ToldStep ==
  ASSUME IInv, [Next]_vars
  PROVE  ToldInv'
  <1> USE NotifierFacts, NotifierAssumption DEF IInv
  <1>0. /\ local \in [Processes -> Local] /\ told \in Nat
        /\ Told /\ ~At(Notifier, "sent") => Settled(row)
    BY DEF TypeOK, ToldInv
  <1>1. CASE Tick \/ RecordChange \/ Toggle
    <2>1. row' = row /\ local' = local /\ DueStateMayChange
      BY <1>1 DEF Tick, RecordChange, Toggle
    <2> QED BY <2>1, DueStateFacts, ToldUntouched
  <1>2. CASE ConfigureWebhook \/ MakeTask \/ TasksRetryDue \/ RetryDue
    <2>1. row' = row /\ local' = local /\ UNCHANGED <<told, unmarked>>
      BY <1>2 DEF ConfigureWebhook, MakeTask, TasksRetryDue, RetryDue
    <2> QED BY <2>1, ToldUntouched
  <1>3. ASSUME NEW p \in Processes, GetStatus(p) \/ MarkSynced(p) PROVE ToldInv'
    <2>1. row' = row /\ UNCHANGED <<told, unmarked>> /\ p # Notifier
      BY <1>3 DEF GetStatus, MarkSynced
    <2>2. local'[Notifier] = local[Notifier]
      BY <1>0, <1>3, <2>1 DEF GetStatus, MarkSynced
    <2> QED BY <2>1, <2>2, ToldUntouched
  <1>4. ASSUME NEW p \in Processes, ReadHighWater(p) PROVE ToldInv'
    <2>1. /\ row' = row /\ UNCHANGED <<told, unmarked>>
          /\ local'[Notifier] = local[Notifier] \/ local'[Notifier].at = "advance"
      BY <1>0, <1>4 DEF ReadHighWater, Local
    <2>2. local[Notifier].at = "sent" => local'[Notifier].at = "sent"
      BY <1>0, <1>4 DEF ReadHighWater, At, Local
    <2>3. Told => At(Notifier, "sent")' \/ Settled(row)'
      BY <1>0, <2>1, <2>2 DEF At, Settled
    <2> QED BY <2>1, <2>3, ToldKept
  <1>5. ASSUME NEW p \in Processes, AdvanceCheckpoint(p) PROVE ToldInv'
    <2>1. Goes(p, "status") /\ row'.due = FALSE /\ DueStateMayChange
      BY <1>5 DEF AdvanceCheckpoint
    <2>2. local'[Notifier] = local[Notifier] \/ local'[Notifier].at = "status"
      BY <2>1, GoesFacts DEF RequestSteps
    <2>3. CASE UNCHANGED <<told, unmarked>>
      <3>1. Told => At(Notifier, "sent")' \/ Settled(row)'
        BY <2>1 DEF Settled
      <3> QED BY <2>2, <2>3, <3>1, ToldKept
    <2>4. CASE told' = 0
      BY <2>4, ToldGone DEF Told
    <2> QED BY <2>1, <2>3, <2>4, DueStateFacts
  <1>6. ASSUME NEW p \in Processes, ReadRow(p) PROVE ToldInv'
    <2>1. row' = row /\ UNCHANGED <<told, unmarked>> /\ local[p].at = "status"
      BY <1>6 DEF ReadRow, At
    <2>2. CASE p # Notifier
      <3>1. local'[Notifier] = local[Notifier]
        BY <1>0, <1>6, <2>2 DEF ReadRow
      <3> QED BY <2>1, <3>1, ToldUntouched
    <2>3. CASE p = Notifier
      <3>1. local'[Notifier].at = "row" /\ local'[Notifier].row = row
        BY <1>0, <1>6, <2>3 DEF ReadRow, Local
      <3>2. Told => Settled(row)
        BY <1>0, <2>1, <2>3 DEF At
      <3>3. Told => At(Notifier, "sent")' \/ Settled(row)'
        BY <2>1, <3>2 DEF Settled
      <3> QED BY <2>1, <3>1, <3>2, <3>3, ToldKept
    <2> QED BY <2>2, <2>3
  <1>7. ASSUME NEW p \in Processes, CountChanges(p) PROVE ToldInv'
    <2>1. row' = row /\ UNCHANGED <<told, unmarked>> /\ local[p].at = "row"
      BY <1>7 DEF CountChanges, At
    <2>2. CASE p # Notifier
      <3>1. local'[Notifier] = local[Notifier]
        BY <1>0, <1>7, <2>2 DEF CountChanges
      <3> QED BY <2>1, <3>1, ToldUntouched
    <2>3. CASE p = Notifier
      <3>1. local'[Notifier].at = "counted" /\ local'[Notifier].row = local[Notifier].row
        BY <1>0, <1>7, <2>3 DEF CountChanges, Local
      <3>2. Told => Settled(row) /\ Settled(local[Notifier].row)
        BY <1>0, <2>1, <2>3 DEF At, ToldInv
      <3>3. Told => At(Notifier, "sent")' \/ Settled(row)'
        BY <2>1, <3>2 DEF Settled
      <3>4. Told => Settled(local'[Notifier].row)
        BY <3>1, <3>2 DEF Settled
      <3> QED BY <2>1, <3>1, <3>3, <3>4, ToldKept
    <2> QED BY <2>2, <2>3
  <1>8. ASSUME NEW p \in Processes, StoreDue(p) PROVE ToldInv'
    <2> DEFINE l == local[p]
    <2>1. told' = told /\ l.at = "counted"
      BY <1>8 DEF StoreDue, At
    <2>2. CASE l.due # l.row.due
      <3>1. unmarked' = (unmarked \/ told > 0)
        BY <1>8, <2>2 DEF StoreDue
      <3> QED BY <2>1, <3>1, ToldGone DEF Told
    <2>3. CASE l.due = l.row.due
      <3>1. row' = row /\ unmarked' = unmarked
        <4>1. row' = row
          BY <1>8, <2>3 DEF StoreDue
        <4>2. unmarked' = (unmarked \/ FALSE)
          BY <1>8, <2>3 DEF StoreDue
        <4> QED BY <4>1, <4>2 DEF TypeOK
      <3>2. CASE p # Notifier
        <4>1. local'[Notifier] = local[Notifier]
          BY <1>0, <1>8, <3>2 DEF StoreDue
        <4> QED BY <2>1, <3>1, <4>1, ToldUntouched
      <3>3. CASE p = Notifier
        <4>1. Told => Settled(row) /\ Settled(l.row)
          BY <1>0, <2>1, <3>3 DEF At, ToldInv
        <4>2. Told => ~AnnouncementPending(l)
          BY <2>3, <4>1 DEF AnnouncementPending, Settled
        <4>3. Told => local' = [local EXCEPT ![p] = Idle]
          BY <1>8, <4>2 DEF StoreDue
        <4>4. Told => local'[Notifier].at = "idle"
          BY <3>3, <4>3, EndFacts
        <4>5. Told => Settled(row)'
          BY <3>1, <4>1 DEF Settled
        <4>6. CASE Told
          BY <2>1, <3>1, <4>4, <4>5, <4>6, ToldKept
        <4>7. CASE ~Told
          <5>1. ~Told'
            BY <2>1, <3>1, <4>7 DEF Told
          <5> QED BY <5>1, ToldGone
        <4> QED BY <4>6, <4>7
      <3> QED BY <3>2, <3>3
    <2> QED BY <2>2, <2>3
  <1>9. CASE Poll \/ TasksAccepted \/ TasksFail
    <2>1. /\ row' = row /\ UNCHANGED <<told, unmarked>>
          /\ local[Notifier].at \in {"idle", "tasks"}
      BY <1>9 DEF Poll, TasksAccepted, TasksFail, At
    <2>2. local'[Notifier].at \in {"idle", "status", "tasks"}
      <3>1. CASE Goes(Notifier, "tasks")
        BY <3>1, GoesFacts
      <3>2. CASE PollSerializd
        BY <3>2, PollSerializdFacts
      <3>3. CASE local' = [local EXCEPT ![Notifier] = Idle]
        BY <3>3, EndFacts
      <3> QED BY <1>9, <3>1, <3>2, <3>3 DEF Poll, TasksAccepted, TasksFail
    <2>3. Told => At(Notifier, "sent")' \/ Settled(row)'
      BY <1>0, <2>1 DEF At, Settled
    <2> QED BY <2>1, <2>2, <2>3, ToldKept
  <1>10. CASE SendAccepted
    <2>1. /\ told' = told + 1 /\ unmarked' = unmarked
          /\ Goes(Notifier, "sent") /\ local[Notifier].at = "send"
      BY <1>10 DEF SendAccepted, At
    <2>2. local'[Notifier].at = "sent"
      BY <2>1, GoesFacts
    <2>3. CASE unmarked
      BY <2>1, <2>3, ToldGone DEF Told
    <2>4. CASE ~unmarked
      <3>1. told = 0
        BY <1>0, <2>1, <2>4 DEF ToldInv, Told, At
      <3>2. told' = 1
        BY <2>1, <3>1
      <3> QED BY <2>2, <3>2 DEF ToldInv, At
    <2> QED BY <2>3, <2>4
  <1>11. CASE SendFails
    <2>1. ~Told
      BY <1>11 DEF SendFails, ToldInv
    <2>2. UNCHANGED <<told, unmarked>> \/ unmarked' = TRUE
      BY <1>11 DEF SendFails
    <2> QED BY <2>1, <2>2, ToldGone DEF Told
  <1>12. CASE MarkReminderAnnounced
    <2>1. told' = told /\ local' = [local EXCEPT ![Notifier] = Idle]
      BY <1>12 DEF MarkReminderAnnounced
    <2>2. local'[Notifier].at = "idle"
      BY <2>1, EndFacts
    <2>3. CASE row' = [row EXCEPT !.announced = TRUE] /\ unmarked' = unmarked
      <3>1. Settled(row)'
        BY <2>3 DEF Settled, TypeOK, CheckpointRow
      <3> QED BY <2>1, <2>2, <2>3, <3>1, ToldKept
    <2>4. CASE unmarked' = (told > 0)
      BY <2>1, <2>4, ToldGone DEF Told
    <2> QED BY <1>12, <2>3, <2>4 DEF MarkReminderAnnounced
  <1>13. CASE Restart
    <2>1. /\ row' = row /\ told' = told
          /\ unmarked' = (unmarked \/ (At(Notifier, "sent") /\ told > 0))
          /\ local' = [p \in Processes |-> Idle]
      BY <1>13 DEF Restart
    <2>2. local'[Notifier].at = "idle"
      BY <2>1 DEF Idle
    <2>3. CASE At(Notifier, "sent")
      <3>1. unmarked' = (unmarked \/ told > 0)
        BY <2>1, <2>3
      <3> QED BY <2>1, <3>1, ToldGone DEF Told
    <2>4. CASE ~At(Notifier, "sent")
      <3>1. unmarked' = unmarked
        <4>1. unmarked' = (unmarked \/ FALSE)
          BY <2>1, <2>4
        <4> QED BY <4>1 DEF TypeOK
      <3>2. Told => Settled(row)'
        BY <1>0, <2>1, <2>4 DEF Settled
      <3> QED BY <2>1, <2>2, <3>1, <3>2, ToldKept
    <2> QED BY <2>3, <2>4
  <1>14. CASE UNCHANGED vars
    <2>1. row' = row /\ local' = local /\ UNCHANGED <<told, unmarked>>
      BY <1>14 DEF vars
    <2> QED BY <2>1, ToldUntouched
  <1> QED BY <1>1, <1>2, <1>3, <1>4, <1>5, <1>6, <1>7, <1>8, <1>9, <1>10, <1>11, <1>12, <1>13, <1>14
          DEF Next, WebRequest, NotifierRuns, Status

-----------------------------------------------------------------------------
(* The inductive invariant. *)
LEMMA InvInit == Init => IInv
  <1> SUFFICES ASSUME Init
               PROVE  IInv
    OBVIOUS
  <1>1. AnnouncedIsDue
    BY DEF Init, FirstRow, AnnouncedIsDue
  <1>2. ToldInv
    BY DEF Init, ToldInv, Told
  <1> QED BY <1>1, <1>2, TypeInit DEF IInv

LEMMA Invariant == Spec => []IInv
  <1>1. IInv /\ [Next]_vars => IInv'
    BY TypeStep, AnnouncedStep, ToldStep DEF IInv
  <1> QED BY <1>1, InvInit, PTL DEF Spec

(* The tables, the requests and the notifier keep their types. *)
THEOREM TypeCorrect == Spec => []TypeOK
  <1>1. IInv => TypeOK
    BY DEF IInv
  <1> QED BY <1>1, Invariant, PTL

(* Whoever writes the row, from whatever it had read before, a reminder       *)
(* marked as announced is due.                                              *)
THEOREM MarkedIsDue == Spec => []AnnouncedIsDue
  <1>1. IInv => AnnouncedIsDue
    BY DEF IInv
  <1> QED BY <1>1, Invariant, PTL

(* A due state is announced twice only when a mark was lost. *)
THEOREM RepeatsHaveAReason == Spec => []RepeatsAreExplained
  <1>1. IInv => RepeatsAreExplained
    BY DEF IInv, ToldInv, Told, TypeOK, RepeatsAreExplained
  <1> QED BY <1>1, Invariant, PTL
=============================================================================
