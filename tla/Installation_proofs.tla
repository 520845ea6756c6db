------------------------ MODULE Installation_proofs ------------------------
(***************************************************************************)
(* Proofs about Installation, for any number of requests, backups, keys    *)
(* and migrations, any settings and any webhooks.                          *)
(***************************************************************************)
EXTENDS Installation, TLAPS

Assumptions ==
  ConfigurationAssumption /\ InstallationAssumption /\ DatabaseAssumption

LEMMA AssumptionsHold == Assumptions
  BY ConfigurationAssumption, InstallationAssumption, DatabaseAssumption DEF Assumptions

(* The columns of the database, one by one. *)
DatabaseTypes ==
  /\ schema \in 0 .. Release
  /\ token \in Keys \cup {None, Plain}
  /\ webhook \in [url : Webhooks, key : Keys] \cup {None}
  /\ preference \in {"unset", "true", "false"}
  /\ settings \in [Fields -> Values]
  /\ owed \in BOOLEAN

LEMMA DatabaseIsTyped == Database \in Databases <=> DatabaseTypes
  BY DEF Database, Databases, DatabaseTypes

(* Elements of a sequence. *)
LEMMA LastOfSeq ==
  ASSUME NEW S, NEW s \in Seq(S), s # << >>
  PROVE  Len(s) \in 1 .. Len(s) /\ s[Len(s)] \in S
  OBVIOUS

LEMMA ElementOfSeq ==
  ASSUME NEW S, NEW s \in Seq(S), NEW i \in DOMAIN s
  PROVE  i \in 1 .. Len(s) /\ s[i] \in S
  OBVIOUS

LEMMA AppendToSeq ==
  ASSUME NEW S, NEW s \in Seq(S), NEW e \in S
  PROVE  /\ Append(s, e) \in Seq(S)
         /\ Len(Append(s, e)) = Len(s) + 1
         /\ Len(s) \in Nat
         /\ Append(s, e)[Len(s) + 1] = e
         /\ \A i \in 1 .. Len(s) : Append(s, e)[i] = s[i]
  OBVIOUS

LEMMA ExceptOfSeq ==
  ASSUME NEW S, NEW s \in Seq(S), NEW i \in DOMAIN s, NEW e \in S
  PROVE  /\ [s EXCEPT ![i] = e] \in Seq(S)
         /\ Len([s EXCEPT ![i] = e]) = Len(s)
         /\ DOMAIN [s EXCEPT ![i] = e] = DOMAIN s
         /\ [s EXCEPT ![i] = e][i] = e
         /\ \A j \in DOMAIN s : j # i => [s EXCEPT ![i] = e][j] = s[j]
  OBVIOUS

-----------------------------------------------------------------------------
(* Types. *)

(* The backup command counts the backup it will make, and later has one.    *)
Room ==
  /\ phase["backup"] \in {"migrate", "apply", "snapshot"} => Len(backups) < MaxBackups
  /\ phase["backup"] \in {"copykey", "writecopy"} => backups # << >>

LEMMA TypeInit == Init => TypeOK /\ Room
  <1> SUFFICES ASSUME Init PROVE TypeOK /\ Room
    OBVIOUS
  <1> USE AssumptionsHold DEF Assumptions, ConfigurationAssumption,
          InstallationAssumption
  <1>1. DatabaseTypes
    BY DEF Init, OfEarlierRelease, InUse, DatabaseTypes
  <1>2. /\ keyfile \in KeyStates /\ copied \in KeyStates
        /\ env \in Environments /\ notifier \in Announced
        /\ cipher = None
    BY DEF Init, OfEarlierRelease, InUse, KeyStates, Announced
  <1>3. /\ phase \in [Processes -> ServerPhases \cup BackupPhases]
        /\ phase["server"] = "stopped" /\ phase["backup"] = "stopped"
        /\ target \in [Processes -> 0 .. Release]
        /\ \A p \in Processes : phase[p] = "stopped" /\ target[p] = 0
    BY DEF Init, Processes, ServerPhases, BackupPhases, Ended
  <1>4. request = Free /\ request \in [Requests -> RequestStates]
    BY DEF Init, Free, RequestStates
  <1>5. backups = << >>
    BY DEF Init
  <1>6. /\ backups \in Seq([db : Databases \cup {None}, key : KeyStates])
        /\ Len(backups) <= MaxBackups
    BY <1>5
  <1> QED
    BY <1>1, <1>2, <1>3, <1>4, <1>6, DatabaseIsTyped
    DEF TypeOK, Room, ServerPhases, BackupPhases, Ended

(* What can be said of a request at each step. *)
LEMMA StepTypes ==
  ASSUME NEW q \in RequestStates
  PROVE  /\ q.step \in {"idle"} \cup DiscordSteps \cup SettingsSteps
         /\ q.step = "idle" <=> q = Idle
         /\ q.step = "commit" => q \in Putting
         /\ q.step = "disable" => q \in Deleting
         /\ q.step = "configure" => q \in Putting \/ q \in Deleting
         /\ q.step = "save" => q \in Saving
         /\ q.step # "idle" => q.alone \in BOOLEAN
  <1> USE DEF DiscordSteps, SettingsSteps
  <1>1. CASE q = Idle
    BY <1>1 DEF Idle
  <1>2. CASE q \in Putting
    <2>1. q.step \in {"commit", "configure"} /\ q.alone \in BOOLEAN
      BY <1>2 DEF Putting
    <2> QED BY <1>2, <2>1 DEF Idle
  <1>3. CASE q \in Deleting
    <2>1. q.step \in {"disable", "configure"} /\ q.alone \in BOOLEAN
      BY <1>3 DEF Deleting
    <2> QED BY <1>3, <2>1 DEF Idle
  <1>4. CASE q \in Saving
    <2>1. q.step = "save" /\ q.alone \in BOOLEAN
      BY <1>4 DEF Saving
    <2> QED BY <1>4, <2>1 DEF Idle
  <1> QED BY <1>1, <1>2, <1>3, <1>4 DEF RequestStates

LEMMA OverlapType ==
  ASSUME NEW q \in RequestStates, q # Idle
  PROVE  /\ [q EXCEPT !.alone = FALSE] \in RequestStates
         /\ [q EXCEPT !.alone = FALSE].step = q.step
         /\ [q EXCEPT !.alone = FALSE].alone = FALSE
  <1>1. CASE q \in Putting
    BY <1>1 DEF RequestStates, Putting
  <1>2. CASE q \in Deleting
    BY <1>2 DEF RequestStates, Deleting
  <1>3. CASE q \in Saving
    BY <1>3 DEF RequestStates, Saving
  <1> QED BY <1>1, <1>2, <1>3 DEF RequestStates

(* Begin gives every request a state of its type. *)
LEMMA BeginType ==
  ASSUME NEW steps \in {DiscordSteps, SettingsSteps}, NEW r \in Requests, NEW record,
         request \in [Requests -> RequestStates], Begin(r, steps, record),
         [record EXCEPT !.alone = Under(steps) = {}] \in RequestStates
  PROVE  request' \in [Requests -> RequestStates]
  <1>1. ASSUME NEW q \in Requests, q \in Under(steps)
        PROVE  [request[q] EXCEPT !.alone = FALSE] \in RequestStates
    <2>1. request[q] # Idle
      BY <1>1 DEF Under, DiscordSteps, SettingsSteps, Idle
    <2> QED BY <2>1, OverlapType
  <1> QED BY <1>1 DEF Begin

LEMMA HandlerType ==
  ASSUME TypeOK, Serve
  PROVE  TypeOK'
  <1> USE AssumptionsHold DEF Assumptions, ConfigurationAssumption,
          InstallationAssumption
  <1> DEFINE Kept == /\ DatabaseTypes'
                     /\ notifier' \in Announced
                     /\ request' \in [Requests -> RequestStates]
                     /\ UNCHANGED <<env, cipher>>
  <1>0. DatabaseTypes /\ cipher \in Keys /\ cipher = keyfile
    BY DatabaseIsTyped DEF TypeOK, Serve
  <1>1. SUFFICES Kept
    <2>1. ASSUME Kept PROVE TypeOK'
      <3>1. Database' \in Databases
        BY <2>1, DatabaseIsTyped DEF Database, Databases, DatabaseTypes
      <3> QED BY <2>1, <3>1 DEF TypeOK, Serve, volume, processes
    <2> QED BY <2>1
  <1> PICK r \in Requests :
        \/ \E url \in Webhooks \cup {None}, enabled \in BOOLEAN :
             BeginPut(r, url, enabled)
        \/ CommitPut(r) \/ PutFails(r)
        \/ BeginDelete(r) \/ Disable(r) \/ Configure(r)
        \/ \E update \in Updates : BeginUpdate(r, update)
        \/ SaveSettings(r) \/ SaveFails(r)
    BY DEF Serve, Handlers
  <1>2. ASSUME NEW url \in Webhooks \cup {None}, NEW enabled \in BOOLEAN,
               BeginPut(r, url, enabled)
        PROVE  Kept
    <2> DEFINE record == [step |-> "commit", alone |-> TRUE, url |-> url,
                          enabled |-> enabled, webhook |-> Given(url)]
    <2>1. Given(url) \in Announced
      BY <1>0 DEF TypeOK, Given, Stored, Announced, DatabaseTypes
    <2>2. [record EXCEPT !.alone = Under(DiscordSteps) = {}] \in Putting
      BY <2>1 DEF Putting
    <2>3. request' \in [Requests -> RequestStates]
      BY <1>2, <2>2, BeginType DEF BeginPut, TypeOK, RequestStates
    <2> QED BY <1>0, <1>2, <2>3 DEF BeginPut, TypeOK, Serve, volume, DatabaseTypes
  <1>3. ASSUME CommitPut(r) PROVE Kept
    <2>1. request[r] \in Putting
      BY <1>3, StepTypes DEF TypeOK, CommitPut
    <2>2. [request[r] EXCEPT !.step = "configure"] \in Putting
      BY <2>1 DEF Putting
    <2>3. request' \in [Requests -> RequestStates]
      BY <1>3, <2>2 DEF CommitPut, TypeOK, RequestStates
    <2>4. webhook' \in [url : Webhooks, key : Keys] \cup {None}
      BY <1>0, <1>3, <2>1 DEF CommitPut, DatabaseTypes, Putting
    <2> QED BY <1>0, <1>3, <2>3, <2>4 DEF CommitPut, TypeOK, Serve, volume, DatabaseTypes
  <1>4. ASSUME BeginDelete(r) PROVE Kept
    <2> DEFINE record == [step |-> "disable", alone |-> TRUE, enabled |-> FALSE]
    <2>1. [record EXCEPT !.alone = Under(DiscordSteps) = {}] \in Deleting
      BY DEF Deleting
    <2>2. request' \in [Requests -> RequestStates]
      BY <1>4, <2>1, BeginType DEF BeginDelete, TypeOK, RequestStates
    <2> QED BY <1>0, <1>4, <2>2 DEF BeginDelete, TypeOK, Serve, volume, DatabaseTypes
  <1>5. ASSUME Disable(r) PROVE Kept
    <2>1. request[r] \in Deleting
      BY <1>5, StepTypes DEF TypeOK, Disable
    <2>2. [request[r] EXCEPT !.step = "configure"] \in Deleting
      BY <2>1 DEF Deleting
    <2>3. request' \in [Requests -> RequestStates]
      BY <1>5, <2>2 DEF Disable, TypeOK, RequestStates
    <2> QED BY <1>0, <1>5, <2>3 DEF Disable, TypeOK, Serve, volume, DatabaseTypes
  <1>6. ASSUME End(r) PROVE request' \in [Requests -> RequestStates]
    BY <1>6 DEF End, TypeOK, RequestStates
  <1>7. ASSUME Configure(r) PROVE Kept
    <2>1. request[r] \in Putting \/ request[r] \in Deleting
      BY <1>7, StepTypes DEF TypeOK, Configure
    <2>2. AnnouncesWith(r) \in Announced
      BY <2>1 DEF AnnouncesWith, Announced, Putting, Deleting
    <2> QED BY <1>0, <1>6, <1>7, <2>2 DEF Configure, Serve, volume, DatabaseTypes
  <1>8. ASSUME NEW update \in Updates, BeginUpdate(r, update) PROVE Kept
    <2> DEFINE record == [step |-> "save", alone |-> TRUE, update |-> update,
                          body |-> Merged(update)]
    <2>1. Merged(update) \in [Fields -> Values]
      BY <1>0 DEF Merged, DatabaseTypes
    <2>2. [record EXCEPT !.alone = Under(SettingsSteps) = {}] \in Saving
      BY <2>1 DEF Saving
    <2>3. request' \in [Requests -> RequestStates]
      BY <1>8, <2>2, BeginType DEF BeginUpdate, TypeOK, RequestStates
    <2> QED BY <1>0, <1>8, <2>3 DEF BeginUpdate, TypeOK, Serve, volume, DatabaseTypes
  <1>9. ASSUME SaveSettings(r) PROVE Kept
    <2>1. request[r] \in Saving
      BY <1>9, StepTypes DEF TypeOK, SaveSettings
    <2> QED BY <1>0, <1>6, <1>9, <2>1
            DEF SaveSettings, Saving, TypeOK, Serve, volume, DatabaseTypes
  <1>10. ASSUME PutFails(r) \/ SaveFails(r) PROVE Kept
    BY <1>0, <1>6, <1>10 DEF PutFails, SaveFails, TypeOK, Serve, volume, DatabaseTypes
  <1> QED BY <1>2, <1>3, <1>4, <1>5, <1>7, <1>8, <1>9, <1>10

(* Every step keeps the types. *)
LEMMA TypeStep ==
  ASSUME TypeOK, Room, [Next]_vars
  PROVE  TypeOK'
  <1> USE AssumptionsHold
      DEF Assumptions, ConfigurationAssumption, InstallationAssumption
  <1>0. /\ DatabaseTypes
        /\ DatabaseTypes' => Database' \in Databases
    BY DatabaseIsTyped DEF TypeOK, Database, Databases, DatabaseTypes
  <1> DEFINE Server == /\ phase["server"] \in ServerPhases
                       /\ phase["backup"] \in BackupPhases
                       /\ phase \in [Processes -> ServerPhases \cup BackupPhases]
  <1>p. ASSUME NEW p \in Processes, NEW step,
               p = "server" => step \in ServerPhases,
               p = "backup" => step \in BackupPhases,
               Goes(p, step)
        PROVE  Server' /\ phase'[p] = step /\ \A q \in Processes : q # p => phase'[q] = phase[q]
    BY <1>p DEF Goes, TypeOK, Processes
  <1>1. ASSUME NEW p \in Processes, CheckMigration(p) PROVE TypeOK'
    <2>1. CASE Missing = {}
      <3>1. Server' /\ phase'[p] = AfterMigrations[p]
            /\ \A q \in Processes : q # p => phase'[q] = phase[q]
        BY <1>1, <2>1, <1>p DEF CheckMigration, AfterMigrations, ServerPhases,
              BackupPhases, Processes
      <3> QED BY <1>0, <1>1, <2>1, <3>1
              DEF TypeOK, CheckMigration, AfterMigrations, config, volume,
                  DatabaseTypes, Processes
    <2>2. CASE Missing # {}
      <3>1. PICK next \in Missing : target' = [target EXCEPT ![p] = next]
        BY <1>1, <2>2 DEF CheckMigration
      <3>2. next \in 1 .. Release
        BY <1>0 DEF Missing, DatabaseTypes
      <3>3. Server' /\ phase'[p] = "apply"
            /\ \A q \in Processes : q # p => phase'[q] = phase[q]
        BY <1>1, <2>2, <1>p DEF CheckMigration, ServerPhases, BackupPhases
      <3>4. /\ target' \in [Processes -> 0 .. Release]
            /\ \A q \in Processes : (phase'[q] = "apply") = (target'[q] # 0)
        BY <3>1, <3>2, <3>3 DEF TypeOK
      <3> QED BY <1>0, <1>1, <2>2, <3>3, <3>4
              DEF TypeOK, CheckMigration, config, volume, DatabaseTypes, Processes
    <2> QED BY <2>1, <2>2
  <1>2. ASSUME NEW p \in Processes, ApplyMigration(p) PROVE TypeOK'
    <2>1. Server' /\ phase'[p] = "migrate"
          /\ \A q \in Processes : q # p => phase'[q] = phase[q]
      BY <1>2, <1>p DEF ApplyMigration, ServerPhases, BackupPhases
    <2>2. /\ target' \in [Processes -> 0 .. Release]
          /\ \A q \in Processes : (phase'[q] = "apply") = (target'[q] # 0)
          /\ schema' \in 0 .. Release
      BY <1>2, <2>1 DEF TypeOK, ApplyMigration
    <2> QED BY <1>0, <1>2, <2>1, <2>2
            DEF TypeOK, ApplyMigration, config, DatabaseTypes, Processes
  <1>3. ASSUME NEW p \in Processes, MigrationFails(p) PROVE TypeOK'
    <2>1. Server' /\ phase'[p] = "failed"
          /\ \A q \in Processes : q # p => phase'[q] = phase[q]
      BY <1>3, <1>p DEF MigrationFails, ServerPhases, BackupPhases, Ended
    <2>2. /\ target' \in [Processes -> 0 .. Release]
          /\ \A q \in Processes : (phase'[q] = "apply") = (target'[q] # 0)
      BY <1>3, <2>1 DEF TypeOK, MigrationFails
    <2> QED BY <1>0, <1>3, <2>1, <2>2
            DEF TypeOK, MigrationFails, config, volume, DatabaseTypes, Processes
  <1>g. ASSUME NEW step \in ServerPhases \ {"apply"}, Goes("server", step),
               phase["server"] # "apply", UNCHANGED target
        PROVE  /\ Server' /\ phase'["server"] = step
               /\ phase'["backup"] = phase["backup"]
               /\ \A q \in Processes : (phase'[q] = "apply") = (target'[q] # 0)
    BY <1>g, <1>p DEF Processes, TypeOK
  <1>4. ASSUME NEW e \in Environments, Start(e) PROVE TypeOK'
    <2>1. "migrate" \in ServerPhases \ {"apply"}
      BY DEF ServerPhases
    <2> QED BY <1>0, <1>4, <1>g, <2>1
            DEF Start, TypeOK, Ended, volume, DatabaseTypes
  <1>5. ASSUME OpenKey PROVE TypeOK'
    <2>1. {"writekey", "failed", "secrets"} \subseteq ServerPhases \ {"apply"}
      BY DEF ServerPhases, Ended
    <2>2. CASE keyfile = None
      BY <1>0, <1>5, <1>g, <2>1, <2>2
      DEF OpenKey, KeyFound, TypeOK, KeyStates, DatabaseTypes
    <2>3. CASE keyfile = Empty
      BY <1>0, <1>5, <1>g, <2>1, <2>3
      DEF OpenKey, KeyFound, TypeOK, KeyStates, DatabaseTypes
    <2>4. CASE keyfile \notin {None, Empty}
      <3>1. keyfile \in Keys
        BY <2>4 DEF TypeOK, KeyStates
      <3> QED BY <1>0, <1>5, <1>g, <2>1, <2>4, <3>1
              DEF OpenKey, KeyFound, TypeOK, KeyStates, DatabaseTypes
    <2> QED BY <2>2, <2>3, <2>4
  <1>6. ASSUME WriteKey PROVE TypeOK'
    <2>1. "secrets" \in ServerPhases \ {"apply"}
      BY DEF ServerPhases
    <2> QED BY <1>0, <1>6, <1>g, <2>1
            DEF WriteKey, NewKeys, TypeOK, KeyStates, DatabaseTypes
  <1>7. ASSUME MigrateLegacy PROVE TypeOK'
    <2>1. "load" \in ServerPhases \ {"apply"}
      BY DEF ServerPhases
    <2> QED BY <1>0, <1>7, <1>g, <2>1
            DEF MigrateLegacy, TypeOK, config, DatabaseTypes
  <1>8. ASSUME Load PROVE TypeOK'
    <2>1. {"up", "failed"} \subseteq ServerPhases \ {"apply"}
      BY DEF ServerPhases, Ended
    <2>2. Loaded \in Announced
      BY <1>0 DEF Loaded, Stored, Announced, TypeOK, DatabaseTypes
    <2>3. CASE env # None \/ Readable
      BY <1>0, <1>8, <1>g, <2>1, <2>2, <2>3
      DEF Load, TypeOK, volume, DatabaseTypes
    <2>4. CASE ~(env # None \/ Readable)
      BY <1>0, <1>8, <1>g, <2>1, <2>4
      DEF Load, TypeOK, volume, DatabaseTypes
    <2> QED BY <2>3, <2>4
  <1>9. ASSUME Stop PROVE TypeOK'
    <2>1. Server' /\ phase'["server"] = "stopped"
          /\ \A q \in Processes : q # "server" => phase'[q] = phase[q]
      BY <1>9, <1>p DEF Stop, ServerPhases, BackupPhases, Ended, Processes
    <2>2. /\ target' \in [Processes -> 0 .. Release]
          /\ \A q \in Processes : (phase'[q] = "apply") = (target'[q] # 0)
      BY <1>9, <2>1 DEF TypeOK, Stop, Processes
    <2>3. Free \in [Requests -> RequestStates]
      BY DEF Free, RequestStates
    <2> QED BY <1>0, <1>9, <2>1, <2>2, <2>3
            DEF Stop, TypeOK, volume, DatabaseTypes, Announced
  <1>b. ASSUME NEW step \in BackupPhases \ {"apply"}, Goes("backup", step),
               phase["backup"] # "apply", UNCHANGED target
        PROVE  /\ Server' /\ phase'["backup"] = step
               /\ phase'["server"] = phase["server"]
               /\ \A q \in Processes : (phase'[q] = "apply") = (target'[q] # 0)
    BY <1>b, <1>p DEF Processes, TypeOK
  <1>10. ASSUME RunBackup PROVE TypeOK'
    <2>1. "migrate" \in BackupPhases \ {"apply"}
      BY DEF BackupPhases
    <2> QED BY <1>0, <1>10, <1>b, <2>1
            DEF RunBackup, TypeOK, Ended, config, volume, DatabaseTypes
  <1> DEFINE Backup == [db : Databases \cup {None}, key : KeyStates]
  <1>s. backups \in Seq(Backup) /\ Len(backups) <= MaxBackups
    BY DEF TypeOK
  <1>n. None \in KeyStates /\ Empty \in KeyStates
    BY DEF KeyStates
  <1>11. ASSUME Snapshot PROVE TypeOK'
    <2>1. "copykey" \in BackupPhases \ {"apply"}
      BY DEF BackupPhases
    <2>2. [db |-> Database, key |-> None] \in Backup
      BY <1>n DEF TypeOK
    <2>3. backups' \in Seq(Backup) /\ Len(backups') = Len(backups) + 1
      <3> HIDE DEF Backup
      <3> QED BY <1>11, <1>s, <2>2, AppendToSeq DEF Snapshot
    <2>4. Len(backups') <= MaxBackups
      BY <1>11, <1>s, <2>3 DEF Snapshot, Room
    <2> QED BY <1>0, <1>11, <1>b, <2>1, <2>3, <2>4
            DEF Snapshot, TypeOK, config, DatabaseTypes
  <1>k. ASSUME NEW k \in KeyStates, SetKeyOfLast(k), backups # << >>
        PROVE  backups' \in Seq(Backup) /\ Len(backups') = Len(backups)
    <2> DEFINE last == [backups[Len(backups)] EXCEPT !.key = k]
    <2>1. Len(backups) \in DOMAIN backups /\ backups[Len(backups)] \in Backup
      <3> HIDE DEF Backup
      <3> QED BY <1>s, <1>k, LastOfSeq
    <2>2. last \in Backup
      BY <2>1
    <2>3. backups' = [backups EXCEPT ![Len(backups)] = last]
      BY <1>k DEF SetKeyOfLast
    <2> HIDE DEF Backup, last
    <2> QED BY <1>s, <2>1, <2>2, <2>3, ExceptOfSeq
  <1>12. ASSUME CopyKey PROVE TypeOK'
    <2>1. {"stopped", "writecopy"} \subseteq BackupPhases \ {"apply"}
      BY DEF BackupPhases, Ended
    <2>2. backups # << >>
      BY <1>12 DEF CopyKey, Room
    <2>3. CASE keyfile = None
      BY <1>0, <1>12, <1>b, <2>1, <2>3 DEF CopyKey, TypeOK, config, DatabaseTypes
    <2>4. CASE keyfile # None
      BY <1>0, <1>12, <1>b, <1>k, <1>n, <1>s, <2>1, <2>2, <2>4
      DEF CopyKey, TypeOK, config, DatabaseTypes
    <2> QED BY <2>3, <2>4
  <1>13. ASSUME WriteCopy PROVE TypeOK'
    <2>1. "stopped" \in BackupPhases \ {"apply"}
      BY DEF BackupPhases, Ended
    <2>2. backups # << >> /\ copied \in KeyStates
      BY <1>13 DEF WriteCopy, Room, TypeOK
    <2> QED BY <1>0, <1>13, <1>b, <1>k, <1>n, <1>s, <2>1, <2>2
            DEF WriteCopy, TypeOK, config, DatabaseTypes
  <1>14. ASSUME Kill PROVE TypeOK'
    <2>1. Server' /\ phase'["backup"] = "stopped"
          /\ \A q \in Processes : q # "backup" => phase'[q] = phase[q]
      BY <1>14, <1>p DEF Kill, ServerPhases, BackupPhases, Ended, Processes
    <2>2. /\ target' \in [Processes -> 0 .. Release]
          /\ \A q \in Processes : (phase'[q] = "apply") = (target'[q] # 0)
      BY <1>14, <2>1 DEF TypeOK, Kill, Processes
    <2>3. backups' \in Seq(Backup) /\ Len(backups') <= MaxBackups
      <3>1. CASE UNCHANGED backups
        BY <1>s, <3>1
      <3>2. CASE /\ phase["backup"] = "snapshot"
                 /\ backups' = Append(backups, [db |-> None, key |-> None])
        <4>1. [db |-> None, key |-> None] \in Backup
          BY <1>n
        <4> HIDE DEF Backup
        <4> QED BY <1>s, <3>2, <4>1, AppendToSeq DEF Room
      <3> QED BY <1>14, <3>1, <3>2 DEF Kill
    <2> QED BY <1>0, <1>14, <1>n, <2>1, <2>2, <2>3
            DEF Kill, TypeOK, config, DatabaseTypes, Processes
  <1>15. ASSUME NEW i \in DOMAIN backups, Restore(backups[i]) PROVE TypeOK'
    <2>1. backups[i].db \in Databases /\ backups[i].key \in KeyStates
      <3>1. backups[i] \in Backup
        <4> HIDE DEF Backup
        <4> QED BY <1>s, ElementOfSeq
      <3> QED BY <1>15, <3>1 DEF Restore, Complete
    <2>2. DatabaseTypes'
      BY <1>15, <2>1 DEF Restore, Databases, DatabaseTypes
    <2>3. keyfile' \in KeyStates
      BY <1>15, <1>n, <2>1 DEF Restore, TypeOK
    <2> QED BY <1>0, <1>15, <2>2, <2>3 DEF Restore, TypeOK, processes
  <1>16. ASSUME UNCHANGED vars PROVE TypeOK'
    BY <1>16 DEF TypeOK, vars, config, volume, processes, Database
  <1> QED
    BY <1>1, <1>2, <1>3, <1>4, <1>5, <1>6, <1>7, <1>8, <1>9, <1>10, <1>11, <1>12,
       <1>13, <1>14, <1>15, <1>16, HandlerType
    DEF Next, DockerStarts, StartUp, BackupCommand, RestoreBackup, Processes

(* Only the backup command moves what Room is about, and Restore, which     *)
(* waits until the command has ended.                                       *)
LEMMA RoomStep ==
  ASSUME TypeOK, Room, [Next]_vars
  PROVE  Room'
  <1> USE DEF Room
  <1>1. ASSUME NEW p \in Processes,
               CheckMigration(p) \/ ApplyMigration(p) \/ MigrationFails(p)
        PROVE  Room'
    BY <1>1 DEF CheckMigration, ApplyMigration, MigrationFails, Goes, TypeOK,
       Processes, AfterMigrations, volume
  <1>2. ASSUME DockerStarts \/ OpenKey \/ WriteKey \/ MigrateLegacy \/ Load \/ Stop
        PROVE  Room'
    <2>1. phase'["backup"] = phase["backup"] /\ backups' = backups
      BY <1>2 DEF DockerStarts, Start, OpenKey, WriteKey, MigrateLegacy, Load, Stop,
         Goes, TypeOK, Processes, volume
    <2> QED BY <2>1
  <1>3. ASSUME RunBackup \/ Snapshot \/ Kill PROVE Room'
    BY <1>3 DEF RunBackup, Snapshot, Kill, Goes, TypeOK, Processes, volume
  <1>4. ASSUME CopyKey \/ WriteCopy PROVE Room'
    <2>1. backups # << >> /\ Len(backups) \in Nat
      BY <1>4 DEF CopyKey, WriteCopy, TypeOK
    <2>2. ASSUME NEW k, SetKeyOfLast(k) PROVE backups' # << >>
      BY <2>1, <2>2 DEF SetKeyOfLast, TypeOK
    <2> QED BY <1>4, <2>1, <2>2 DEF CopyKey, WriteCopy, Goes, TypeOK, Processes
  <1>5. ASSUME Serve \/ RestoreBackup \/ UNCHANGED vars PROVE Room'
    BY <1>5 DEF Serve, RestoreBackup, Restore, vars, volume, processes
  <1> QED
    BY <1>1, <1>2, <1>3, <1>4, <1>5 DEF Next, StartUp, BackupCommand, Processes

LEMMA TypeInvariant == Spec => [](TypeOK /\ Room)
  BY TypeInit, TypeStep, RoomStep, PTL DEF Spec

(* The variables keep their types, and the running process has the key of   *)
(* the key file exactly from the end of loadOrCreateKey on.                 *)
THEOREM TypeCorrect == Spec => []TypeOK
  BY TypeInvariant, PTL

-----------------------------------------------------------------------------
(* Secrets and backups. *)

SecretsInv ==
  /\ SecretsSurvive
  /\ phase["server"] = "writekey" => keyfile = Empty /\ KeysOf(Database) = {}

(* What can be said of any backup, shown as working or not.                 *)
Sound(b) ==
  /\ b.key # None => Complete(b) /\ b.db.schema = Release
  /\ Complete(b) /\ b.db.owed => b.db.token # None
  /\ Complete(b) /\ b.key \in Keys => KeysOf(b.db) \subseteq {b.key}

(* The key that is about to be copied beside the newest database is its own: *)
(* the key file is not replaced between the two copies.                      *)
BackupsInv ==
  /\ \A i \in DOMAIN backups : Sound(backups[i])
  /\ phase["backup"] = "snapshot" => schema = Release
  /\ phase["backup"] \in {"copykey", "writecopy"} =>
       Complete(Newest) /\ Newest.db.schema = Release
  /\ phase["backup"] = "copykey" =>
       /\ KeysOf(Newest.db) \subseteq {keyfile} \/ keyfile = Empty
       /\ phase["server"] = "writekey" => KeysOf(Newest.db) = {}
  /\ phase["backup"] = "writecopy" /\ copied \in Keys =>
       KeysOf(Newest.db) \subseteq {copied}

LEMMA KeysOfDatabase ==
  ASSUME NEW db \in Databases
  PROVE  KeysOf(db) \subseteq Keys
  BY DEF KeysOf, Databases

LEMMA SecretsInit == Init => SecretsInv /\ BackupsInv
  <1> SUFFICES ASSUME Init PROVE SecretsInv /\ BackupsInv
    OBVIOUS
  <1> USE AssumptionsHold
      DEF Assumptions, ConfigurationAssumption, InstallationAssumption
  <1>1. phase["server"] = "stopped" /\ phase["backup"] = "stopped" /\ DOMAIN backups = {}
    BY DEF Init, Processes
  <1>2. SecretsSurvive
    <2>1. CASE OfEarlierRelease
      <3>1. token \in {None, Plain} /\ webhook = None
        BY <2>1 DEF OfEarlierRelease
      <3> QED BY <3>1 DEF Init, SecretsSurvive, KeysOf, Database
    <2>2. CASE InUse
      <3>1. token = keyfile /\ keyfile \in Keys /\ webhook.key = keyfile
        BY <2>2 DEF InUse
      <3>2. KeysOf(Database) \subseteq {keyfile}
        BY <3>1 DEF KeysOf, Database
      <3> QED BY <3>1, <3>2 DEF SecretsSurvive
    <2> QED BY <2>1, <2>2 DEF Init
  <1> QED BY <1>1, <1>2 DEF SecretsInv, BackupsInv

(* A request stores nothing that the key file does not open.                *)
LEMMA ServeKeys ==
  ASSUME TypeOK, Serve
  PROVE  KeysOf(Database)' \subseteq KeysOf(Database) \cup {keyfile}
  <1>1. cipher = keyfile /\ token' = token
    BY DEF TypeOK, Serve, volume
  <1>2. \/ webhook' = webhook
        \/ webhook' = None
        \/ webhook'.key = cipher
    <2> PICK r \in Requests :
          \/ \E url \in Webhooks \cup {None}, enabled \in BOOLEAN :
               BeginPut(r, url, enabled)
          \/ CommitPut(r) \/ PutFails(r)
          \/ BeginDelete(r) \/ Disable(r) \/ Configure(r)
          \/ \E update \in Updates : BeginUpdate(r, update)
          \/ SaveSettings(r) \/ SaveFails(r)
      BY DEF Serve, Handlers
    <2>1. CASE CommitPut(r)
      BY <2>1 DEF CommitPut
    <2>2. CASE BeginDelete(r)
      BY <2>2 DEF BeginDelete
    <2>3. CASE ~CommitPut(r) /\ ~BeginDelete(r)
      BY <2>3 DEF BeginPut, PutFails, Disable, Configure, BeginUpdate, SaveSettings,
         SaveFails
    <2> QED BY <2>1, <2>2, <2>3
  <1> QED BY <1>1, <1>2 DEF KeysOf, Database

LEMMA SecretsStep ==
  ASSUME TypeOK, SecretsInv, BackupsInv, [Next]_vars
  PROVE  SecretsInv'
  <1> USE AssumptionsHold
      DEF Assumptions, ConfigurationAssumption, InstallationAssumption
  <1>0. KeysOf(Database) \subseteq Keys
    BY KeysOfDatabase DEF TypeOK
  <1>a. ASSUME UNCHANGED <<token, webhook, keyfile, owed>>,
               phase'["server"] = "writekey" => phase["server"] = "writekey"
        PROVE  SecretsInv'
    <2>1. KeysOf(Database)' = KeysOf(Database)
      BY <1>a DEF KeysOf, Database
    <2> QED BY <1>a, <2>1 DEF SecretsInv, SecretsSurvive
  <1>b. ASSUME keyfile \in Keys, UNCHANGED <<keyfile, owed>>,
               KeysOf(Database)' \subseteq KeysOf(Database) \cup {keyfile},
               token # None => token' # None,
               phase'["server"] # "writekey"
        PROVE  SecretsInv'
    <2>1. keyfile # Empty
      BY <1>b
    <2> QED BY <1>b, <2>1 DEF SecretsInv, SecretsSurvive
  <1>1. ASSUME NEW p \in Processes,
               CheckMigration(p) \/ ApplyMigration(p) \/ MigrationFails(p)
        PROVE  SecretsInv'
    BY <1>1, <1>a DEF CheckMigration, ApplyMigration, MigrationFails, Goes, TypeOK,
       Processes, AfterMigrations, config, volume
  <1>2. ASSUME NEW e \in Environments, Start(e) PROVE SecretsInv'
    BY <1>2, <1>a DEF Start, Goes, TypeOK, Processes, volume
  <1>3. ASSUME OpenKey PROVE SecretsInv'
    <2>1. CASE keyfile = None
      <3>1. KeysOf(Database) = {}
        BY <1>0, <2>1 DEF SecretsInv, SecretsSurvive
      <3>2. KeysOf(Database)' = KeysOf(Database) /\ keyfile' = Empty
            /\ owed' = owed /\ token' = token
        BY <1>3, <2>1 DEF OpenKey, KeyFound, KeysOf, Database
      <3> QED BY <3>1, <3>2 DEF SecretsInv, SecretsSurvive
    <2>2. CASE keyfile # None
      <3>1. UNCHANGED <<token, webhook, keyfile, owed>> /\ phase'["server"] # "writekey"
        BY <1>3, <2>2 DEF OpenKey, KeyFound, Goes, TypeOK, Processes
      <3> QED BY <1>a, <3>1
    <2> QED BY <2>1, <2>2
  <1>4. ASSUME WriteKey PROVE SecretsInv'
    <2>1. KeysOf(Database)' = {}
      BY <1>4 DEF WriteKey, SecretsInv, KeysOf, Database
    <2>2. owed' = owed /\ token' = token /\ phase'["server"] = "secrets"
      BY <1>4 DEF WriteKey, Goes, TypeOK, Processes
    <2> QED BY <2>1, <2>2 DEF SecretsInv, SecretsSurvive
  <1>5. ASSUME MigrateLegacy PROVE SecretsInv'
    <2>1. cipher = keyfile /\ keyfile \in Keys
      BY <1>5 DEF MigrateLegacy, TypeOK
    <2>2. UNCHANGED <<webhook, keyfile, owed>> /\ phase'["server"] = "load"
      BY <1>5 DEF MigrateLegacy, Goes, TypeOK, Processes, config
    <2>3. token' = IF token = Plain THEN keyfile ELSE token
      BY <1>5, <2>1 DEF MigrateLegacy
    <2>4. KeysOf(Database)' \subseteq KeysOf(Database) \cup {keyfile}
      BY <2>2, <2>3 DEF KeysOf, Database
    <2>5. token # None => token' # None
      BY <2>1, <2>3
    <2> QED BY <1>b, <2>1, <2>2, <2>4, <2>5
  <1>6. ASSUME Load \/ Stop PROVE SecretsInv'
    BY <1>6, <1>a DEF Load, Stop, Goes, TypeOK, Processes, volume
  <1>7. ASSUME Serve PROVE SecretsInv'
    <2>1. keyfile \in Keys
      BY <1>7 DEF Serve, TypeOK
    <2>2. UNCHANGED <<keyfile, owed, token>> /\ phase'["server"] = "up"
      BY <1>7 DEF Serve, volume, processes
    <2> QED BY <1>7, <1>b, <2>1, <2>2, ServeKeys
  <1>8. ASSUME RunBackup \/ Snapshot \/ CopyKey \/ WriteCopy \/ Kill PROVE SecretsInv'
    BY <1>8, <1>a DEF RunBackup, Snapshot, CopyKey, WriteCopy, Kill, Goes, TypeOK,
       Processes, config, volume
  <1>9. ASSUME NEW i \in DOMAIN backups, Restore(backups[i]) PROVE SecretsInv'
    <2> DEFINE b == backups[i]
    <2>1. Sound(b) /\ Complete(b)
      BY <1>9 DEF BackupsInv, Restore
    <2>2. b.db \in Databases /\ b.key \in KeyStates
      <3> DEFINE Backup == [db : Databases \cup {None}, key : KeyStates]
      <3>1. b \in Backup
        <4> HIDE DEF Backup
        <4>1. backups \in Seq(Backup)
          BY DEF TypeOK, Backup
        <4> QED BY <4>1, ElementOfSeq
      <3> QED BY <3>1, <2>1 DEF Complete
    <2>3. KeysOf(Database)' = KeysOf(b.db)
      BY <1>9 DEF Restore, KeysOf, Database
    <2>4. KeysOf(b.db) \subseteq Keys
      BY <2>2, KeysOfDatabase
    <2>5. CASE b.key = None
      <3>1. KeysOf(b.db) = {}
        BY <1>9, <2>5 DEF Restore
      <3> QED BY <1>9, <2>1, <2>3, <3>1
              DEF Restore, Sound, SecretsInv, SecretsSurvive, processes
    <2>6. CASE b.key \in Keys
      <3>1. keyfile' = b.key /\ KeysOf(b.db) \subseteq {b.key}
        BY <1>9, <2>1, <2>6 DEF Restore, Sound
      <3> QED BY <1>9, <2>1, <2>3, <3>1
              DEF Restore, Sound, SecretsInv, SecretsSurvive, processes
    <2>7. CASE b.key = Empty
      <3>1. keyfile' = Empty
        BY <1>9, <2>7 DEF Restore
      <3> QED BY <1>9, <2>1, <3>1
              DEF Restore, Sound, SecretsInv, SecretsSurvive, processes
    <2> QED BY <2>2, <2>5, <2>6, <2>7 DEF KeyStates
  <1>10. ASSUME UNCHANGED vars PROVE SecretsInv'
    BY <1>10, <1>a DEF vars, config, volume, processes
  <1> QED
    BY <1>1, <1>2, <1>3, <1>4, <1>5, <1>6, <1>7, <1>8, <1>9, <1>10
    DEF Next, DockerStarts, StartUp, BackupCommand, RestoreBackup, Processes

LEMMA BackupsStep ==
  ASSUME TypeOK, Room, SecretsInv, BackupsInv, [Next]_vars
  PROVE  BackupsInv'
  <1> USE AssumptionsHold
      DEF Assumptions, ConfigurationAssumption, InstallationAssumption
  <1> DEFINE Backup == [db : Databases \cup {None}, key : KeyStates]
  <1>0. KeysOf(Database) \subseteq Keys /\ backups \in Seq(Backup)
    BY KeysOfDatabase DEF TypeOK
  <1>a. ASSUME UNCHANGED <<backups, keyfile, copied, schema>>,
               phase'["backup"] = phase["backup"]
                 \/ phase'["backup"] \notin {"snapshot", "copykey", "writecopy"},
               phase'["server"] = "writekey" => phase["server"] = "writekey"
        PROVE  BackupsInv'
    <2>1. Newest' = Newest
      BY <1>a DEF Newest
    <2>2. /\ phase'["backup"] = "snapshot" => phase["backup"] = "snapshot"
          /\ phase'["backup"] = "copykey" => phase["backup"] = "copykey"
          /\ phase'["backup"] = "writecopy" => phase["backup"] = "writecopy"
      BY <1>a
    <2>3. \A i \in DOMAIN backups' : Sound(backups'[i])
      BY <1>a DEF BackupsInv
    <2> HIDE DEF Backup
    <2> QED BY <1>a, <2>1, <2>2, <2>3 DEF BackupsInv, Complete
  <1>1. ASSUME NEW p \in Processes, CheckMigration(p) PROVE BackupsInv'
    <2>1. CASE p = "backup" /\ Missing = {}
      <3>1. schema = Release
        <4>1. schema \in 0 .. Release
          BY DatabaseIsTyped DEF TypeOK, DatabaseTypes
        <4>2. schema + 1 \notin schema + 1 .. Release
          BY <2>1 DEF Missing
        <4> HIDE DEF Backup
        <4> QED BY <4>1, <4>2
      <3>2. phase'["backup"] = "snapshot" /\ UNCHANGED <<backups, schema>>
        BY <1>1, <2>1 DEF CheckMigration, Goes, TypeOK, Processes, AfterMigrations,
           volume
      <3> QED BY <3>1, <3>2 DEF BackupsInv, Sound, Complete
    <2>2. CASE ~(p = "backup" /\ Missing = {})
      BY <1>1, <1>a, <2>2 DEF CheckMigration, Goes, TypeOK, Processes,
         AfterMigrations, volume
    <2> QED BY <2>1, <2>2
  <1>2. ASSUME NEW p \in Processes, ApplyMigration(p) PROVE BackupsInv'
    <2>1. phase["backup"] # "snapshot" \/ schema' = schema
      <3>1. target[p] \in 1 .. Release /\ schema < target[p]
        BY <1>2 DEF TypeOK, ApplyMigration
      <3> QED BY <3>1, DatabaseIsTyped DEF BackupsInv, TypeOK, DatabaseTypes
    <2>2. /\ UNCHANGED <<backups, keyfile, copied>>
          /\ \/ phase'["backup"] = phase["backup"]
             \/ phase'["backup"] = "migrate"
          /\ \/ phase'["server"] = phase["server"]
             \/ phase'["server"] = "migrate"
      BY <1>2 DEF ApplyMigration, Goes, TypeOK, Processes
    <2>3. Newest' = Newest
      BY <2>2 DEF Newest
    <2> QED BY <2>1, <2>2, <2>3 DEF BackupsInv, Sound, Complete
  <1>3. ASSUME NEW p \in Processes, MigrationFails(p) PROVE BackupsInv'
    BY <1>3, <1>a DEF MigrationFails, Goes, TypeOK, Processes, volume
  <1>4. ASSUME NEW e \in Environments, Start(e) PROVE BackupsInv'
    BY <1>4, <1>a DEF Start, Goes, TypeOK, Processes, volume
  <1>5. ASSUME OpenKey PROVE BackupsInv'
    <2>1. CASE keyfile = None
      <3>1. /\ UNCHANGED <<backups, copied, schema>>
            /\ keyfile' = Empty /\ phase'["backup"] = phase["backup"]
        BY <1>5, <2>1 DEF OpenKey, KeyFound, Goes, TypeOK, Processes
      <3>2. ASSUME phase["backup"] = "copykey" PROVE KeysOf(Newest.db) = {}
        <4>1. Newest \in Backup
          <5> HIDE DEF Backup
          <5>1. backups # << >>
            BY <3>2 DEF Room
          <5> QED BY <1>0, <5>1, LastOfSeq DEF Newest
        <4>2. Newest.db \in Databases
          BY <3>2, <4>1 DEF BackupsInv, Complete
        <4>3. KeysOf(Newest.db) \subseteq Keys
          BY <4>2, KeysOfDatabase
        <4> QED BY <2>1, <3>2, <4>3 DEF BackupsInv
      <3>3. Newest' = Newest
        BY <3>1 DEF Newest
      <3> QED BY <3>1, <3>2, <3>3 DEF BackupsInv, Sound, Complete
    <2>2. CASE keyfile # None
      <3>1. /\ UNCHANGED <<backups, keyfile, copied, schema>>
            /\ phase'["backup"] = phase["backup"] /\ phase'["server"] # "writekey"
        BY <1>5, <2>2 DEF OpenKey, KeyFound, Goes, TypeOK, Processes
      <3> QED BY <1>a, <3>1
    <2> QED BY <2>1, <2>2
  <1>6. ASSUME WriteKey PROVE BackupsInv'
    <2>1. /\ UNCHANGED <<backups, copied, schema>> /\ phase["server"] = "writekey"
          /\ phase'["backup"] = phase["backup"] /\ phase'["server"] = "secrets"
      BY <1>6 DEF WriteKey, Goes, TypeOK, Processes
    <2>2. Newest' = Newest
      BY <2>1 DEF Newest
    <2> QED BY <2>1, <2>2 DEF BackupsInv, Sound, Complete
  <1>7. ASSUME MigrateLegacy \/ Load \/ Stop \/ Serve PROVE BackupsInv'
    BY <1>7, <1>a DEF MigrateLegacy, Load, Stop, Serve, Goes, TypeOK, Processes, volume,
       processes
  <1>8. ASSUME RunBackup PROVE BackupsInv'
    BY <1>8, <1>a DEF RunBackup, Goes, TypeOK, Processes, volume
  <1>n. ASSUME NEW db \in Databases \cup {None},
               backups' = Append(backups, [db |-> db, key |-> None]),
               db # None => (db.owed => db.token # None)
        PROVE  /\ \A i \in DOMAIN backups' : Sound(backups'[i])
               /\ Newest' = [db |-> db, key |-> None]
    <2> DEFINE new == [db |-> db, key |-> None]
    <2>1. new \in Backup /\ Sound(new)
      BY <1>n DEF Sound, Complete, KeyStates
    <2>2. /\ backups' \in Seq(Backup) /\ Len(backups') = Len(backups) + 1
          /\ backups'[Len(backups) + 1] = new /\ Len(backups) \in Nat
          /\ \A i \in 1 .. Len(backups) : backups'[i] = backups[i]
      <3> HIDE DEF Backup, new
      <3> QED BY <1>0, <1>n, <2>1, AppendToSeq DEF new
    <2>3. ASSUME NEW i \in DOMAIN backups' PROVE Sound(backups'[i])
      <3> HIDE DEF Backup, new
      <3>1. i \in 1 .. Len(backups) + 1
        BY <2>2
      <3>2. CASE i = Len(backups) + 1
        BY <2>1, <2>2, <3>2
      <3>3. CASE i \in 1 .. Len(backups)
        <4>1. i \in DOMAIN backups
          BY <1>0, <3>3
        <4> QED BY <2>2, <3>3, <4>1 DEF BackupsInv
      <3> QED BY <2>2, <3>1, <3>2, <3>3
    <2> QED BY <2>2, <2>3 DEF Newest
  <1>9. ASSUME Snapshot PROVE BackupsInv'
    <2>1. /\ phase'["backup"] = "copykey" /\ phase["backup"] = "snapshot"
          /\ phase'["server"] = phase["server"] /\ keyfile' = keyfile
      BY <1>9 DEF Snapshot, Goes, TypeOK, Processes
    <2>2. Database \in Databases /\ Database # None
      BY DatabaseAssumption DEF TypeOK
    <2>3. Database.owed => Database.token # None
      BY DEF Database, SecretsInv, SecretsSurvive
    <2>4. /\ \A i \in DOMAIN backups' : Sound(backups'[i])
          /\ Newest' = [db |-> Database, key |-> None]
      BY <1>9, <1>n, <2>2, <2>3 DEF Snapshot
    <2>5. Database.schema = Release
      BY <2>1 DEF BackupsInv, Database
    <2> QED BY <2>1, <2>2, <2>4, <2>5
            DEF BackupsInv, Complete, SecretsInv, SecretsSurvive
  <1>k. ASSUME NEW k \in KeyStates, SetKeyOfLast(k), backups # << >>,
               Complete(Newest), Newest.db.schema = Release,
               k \in Keys => KeysOf(Newest.db) \subseteq {k}
        PROVE  /\ \A i \in DOMAIN backups' : Sound(backups'[i])
               /\ Newest' = [Newest EXCEPT !.key = k]
               /\ Newest'.db = Newest.db
    <2> DEFINE last == [Newest EXCEPT !.key = k]
    <2>1. Len(backups) \in DOMAIN backups /\ Newest \in Backup
      <3> HIDE DEF Backup
      <3> QED BY <1>0, <1>k, LastOfSeq DEF Newest
    <2>2. last \in Backup /\ last.db = Newest.db /\ last.key = k
      BY <2>1
    <2>3. Sound(last)
      BY <1>k, <2>1, <2>2 DEF Sound, Complete, BackupsInv, Newest
    <2>4. backups' = [backups EXCEPT ![Len(backups)] = last]
      BY <1>k DEF SetKeyOfLast, Newest
    <2> HIDE DEF Backup, last
    <2>5. /\ DOMAIN backups' = DOMAIN backups /\ Len(backups') = Len(backups)
          /\ backups'[Len(backups)] = last
          /\ \A i \in DOMAIN backups : i # Len(backups) => backups'[i] = backups[i]
      BY <1>0, <2>1, <2>2, <2>4, ExceptOfSeq
    <2>6. \A i \in DOMAIN backups' : Sound(backups'[i])
      BY <2>3, <2>5 DEF BackupsInv
    <2> QED BY <2>2, <2>5, <2>6 DEF Newest, last
  <1>10. ASSUME CopyKey PROVE BackupsInv'
    <2>1. backups # << >> /\ Complete(Newest) /\ Newest.db.schema = Release
      BY <1>10 DEF CopyKey, Room, BackupsInv
    <2>2. CASE keyfile = None
      <3>1. /\ UNCHANGED <<backups, keyfile, copied, schema>>
            /\ phase'["backup"] = "stopped" /\ phase'["server"] = phase["server"]
        BY <1>10, <2>2 DEF CopyKey, Goes, TypeOK, Processes
      <3> QED BY <1>a, <3>1
    <2>3. CASE keyfile # None
      <3>1. SetKeyOfLast(Empty) /\ Empty \in KeyStates /\ Empty \notin Keys
        BY <1>10, <2>3 DEF CopyKey, KeyStates
      <3>2. /\ \A i \in DOMAIN backups' : Sound(backups'[i])
            /\ Newest'.db = Newest.db
        BY <1>k, <2>1, <3>1
      <3>3. phase'["backup"] = "writecopy" /\ copied' = keyfile
        BY <1>10, <2>3 DEF CopyKey, Goes, TypeOK, Processes
      <3>4. copied' \in Keys => KeysOf(Newest.db) \subseteq {copied'}
        BY <1>10, <3>3 DEF CopyKey, BackupsInv
      <3> QED BY <2>1, <3>2, <3>3, <3>4 DEF BackupsInv, Complete
    <2> QED BY <2>2, <2>3
  <1>11. ASSUME WriteCopy PROVE BackupsInv'
    <2>1. /\ backups # << >> /\ Complete(Newest) /\ Newest.db.schema = Release
          /\ copied \in Keys => KeysOf(Newest.db) \subseteq {copied}
          /\ SetKeyOfLast(copied) /\ copied \in KeyStates
      BY <1>11 DEF WriteCopy, Room, BackupsInv, TypeOK
    <2>2. \A i \in DOMAIN backups' : Sound(backups'[i])
      BY <1>k, <2>1
    <2>3. phase'["backup"] = "stopped"
      BY <1>11 DEF WriteCopy, Goes, TypeOK, Processes
    <2> QED BY <2>2, <2>3 DEF BackupsInv
  <1>12. ASSUME Kill PROVE BackupsInv'
    <2>1. phase'["backup"] = "stopped"
      BY <1>12 DEF Kill, Goes, TypeOK, Processes
    <2>2. \A i \in DOMAIN backups' : Sound(backups'[i])
      <3>1. CASE UNCHANGED backups
        BY <3>1 DEF BackupsInv, Sound, Complete
      <3>2. CASE backups' = Append(backups, [db |-> None, key |-> None])
        BY <1>n, <3>2
      <3> QED BY <1>12, <3>1, <3>2 DEF Kill
    <2> QED BY <2>1, <2>2 DEF BackupsInv
  <1>13. ASSUME NEW i \in DOMAIN backups, Restore(backups[i]) PROVE BackupsInv'
    <2>1. UNCHANGED <<backups, phase>> /\ phase["backup"] \in Ended
      BY <1>13 DEF Restore, processes
    <2> QED BY <2>1 DEF BackupsInv, Sound, Complete, Ended
  <1>14. ASSUME UNCHANGED vars PROVE BackupsInv'
    BY <1>14, <1>a DEF vars, volume, processes
  <1> QED
    BY <1>1, <1>2, <1>3, <1>4, <1>5, <1>6, <1>7, <1>8, <1>9, <1>10, <1>11, <1>12,
       <1>13, <1>14
    DEF Next, DockerStarts, StartUp, BackupCommand, RestoreBackup, Processes

LEMMA SecretsInvariant == Spec => [](TypeOK /\ Room /\ SecretsInv /\ BackupsInv)
  <1>1. Init => TypeOK /\ Room /\ SecretsInv /\ BackupsInv
    BY TypeInit, SecretsInit
  <1>2. TypeOK /\ Room /\ SecretsInv /\ BackupsInv /\ [Next]_vars
          => (TypeOK /\ Room /\ SecretsInv /\ BackupsInv)'
    BY TypeStep, RoomStep, SecretsStep, BackupsStep
  <1> QED BY <1>1, <1>2, PTL DEF Spec

(* No crash, migration or restore leaves a secret that the key file does    *)
(* not open, or drops the token an older release left.                      *)
THEOREM SecretsAreKept == Spec => []SecretsSurvive
  <1>1. SecretsInv => SecretsSurvive
    BY DEF SecretsInv
  <1> QED BY <1>1, SecretsInvariant, PTL

(* A backup shown as working is complete, of this release, and its key      *)
(* opens all it holds, unless the key is the empty file.                    *)
THEOREM BackupsAreUsable == Spec => []WorkingBackupRestores
  <1>1. TypeOK /\ BackupsInv => WorkingBackupRestores
    <2> SUFFICES ASSUME TypeOK, BackupsInv, backups # << >>, CompanionFound(Newest)
                 PROVE  /\ Complete(Newest)
                        /\ Newest.db.schema = Release
                        /\ Newest.key = Empty \/ KeysOf(Newest.db) \subseteq {Newest.key}
      BY DEF WorkingBackupRestores
    <2> DEFINE Backup == [db : Databases \cup {None}, key : KeyStates]
    <2>1. Len(backups) \in DOMAIN backups /\ Newest \in Backup
      <3>1. backups \in Seq(Backup)
        BY DEF TypeOK
      <3> HIDE DEF Backup
      <3> QED BY <3>1, LastOfSeq DEF Newest
    <2>2. Sound(Newest)
      BY <2>1 DEF BackupsInv, Newest
    <2> QED BY <2>1, <2>2 DEF Sound, CompanionFound, KeyStates
  <1> QED BY <1>1, SecretsInvariant, PTL

-----------------------------------------------------------------------------
(* Requests that overlap. *)

(* What Begin does to each request. *)
LEMMA BeginSteps ==
  ASSUME NEW steps \in {DiscordSteps, SettingsSteps}, NEW r \in Requests, NEW record,
         request \in [Requests -> RequestStates], Begin(r, steps, record)
  PROVE  /\ request[r] = Idle
         /\ request'[r] = [record EXCEPT !.alone = Under(steps) = {}]
         /\ \A q \in Requests \ {r} :
              /\ request'[q].step = request[q].step
              /\ q \notin Under(steps) => request'[q] = request[q]
              /\ q \in Under(steps) =>
                   /\ request'[q] = [request[q] EXCEPT !.alone = FALSE]
                   /\ request'[q].alone = FALSE
  <1>1. ASSUME NEW q \in Requests, q \in Under(steps)
        PROVE  request[q] \in RequestStates /\ request[q] # Idle
    BY <1>1 DEF Under, DiscordSteps, SettingsSteps, Idle
  <1> QED BY <1>1, OverlapType DEF Begin

(* A request that is alone is the only one at its steps, and what it will    *)
(* write back of the other settings is what they still are.                  *)
SettingsInv ==
  \A r \in Under(SettingsSteps) :
    request[r].alone =>
      /\ Under(SettingsSteps) = {r}
      /\ \A f \in Fields \ DOMAIN request[r].update :
           request[r].body[f] = settings[f]

(* Outside the handlers the settings change only while no request is under   *)
(* way.                                                                      *)
LEMMA QuietStep ==
  ASSUME TypeOK, [Next]_vars, ~Serve
  PROVE  \/ request' = Free /\ (phase'["server"] = "up" => notifier' = Loaded')
         \/ /\ UNCHANGED <<request, settings, preference, webhook, env, notifier, mixed>>
            /\ phase'["server"] = "up" => phase["server"] = "up"
  <1> DEFINE Goal ==
        \/ request' = Free /\ (phase'["server"] = "up" => notifier' = Loaded')
        \/ /\ UNCHANGED <<request, settings, preference, webhook, env, notifier, mixed>>
           /\ phase'["server"] = "up" => phase["server"] = "up"
  <1>1. ASSUME NEW p \in Processes,
               CheckMigration(p) \/ ApplyMigration(p) \/ MigrationFails(p)
        PROVE  Goal
    BY <1>1 DEF CheckMigration, ApplyMigration, MigrationFails, Goes, TypeOK,
       Processes, AfterMigrations, config
  <1>2. ASSUME NEW e \in Environments, Start(e) PROVE Goal
    <2>1. phase'["server"] = "migrate" /\ request' = Free
      BY <1>2 DEF Start, Goes, TypeOK, Processes, Ended
    <2> QED BY <2>1
  <1>3. ASSUME OpenKey \/ WriteKey \/ MigrateLegacy PROVE Goal
    BY <1>3 DEF OpenKey, WriteKey, MigrateLegacy, Goes, TypeOK, Processes, config
  <1>4. ASSUME Load PROVE Goal
    <2>1. request' = Free
      BY <1>4 DEF Load, TypeOK
    <2>2. CASE env # None \/ Readable
      BY <1>4, <2>1, <2>2 DEF Load, Loaded, Stored
    <2>3. CASE ~(env # None \/ Readable)
      BY <1>4, <2>1, <2>3 DEF Load, Goes, TypeOK, Processes
    <2> QED BY <2>2, <2>3
  <1>5. ASSUME Stop PROVE Goal
    BY <1>5 DEF Stop, Goes, TypeOK, Processes
  <1>6. ASSUME RunBackup \/ Snapshot \/ CopyKey \/ WriteCopy \/ Kill PROVE Goal
    BY <1>6 DEF RunBackup, Snapshot, CopyKey, WriteCopy, Kill, Goes, TypeOK, Processes,
       config
  <1>7. ASSUME NEW i \in DOMAIN backups, Restore(backups[i]) PROVE Goal
    <2>1. request' = Free /\ phase'["server"] = "stopped"
      BY <1>7 DEF Restore, TypeOK, processes
    <2> QED BY <2>1
  <1>8. ASSUME UNCHANGED vars PROVE Goal
    BY <1>8 DEF vars, config, volume, processes
  <1> QED
    BY <1>1, <1>2, <1>3, <1>4, <1>5, <1>6, <1>7, <1>8
    DEF Next, DockerStarts, StartUp, BackupCommand, RestoreBackup, Processes

LEMMA NobodyUnderWay ==
  ASSUME request = Free, NEW steps \in {DiscordSteps, SettingsSteps}
  PROVE  Under(steps) = {}
  BY DEF Under, Free, Idle, DiscordSteps, SettingsSteps

(* The settings requests of a step of the server.                            *)
LEMMA SettingsStep ==
  ASSUME TypeOK, SettingsInv, [Next]_vars
  PROVE  SettingsInv'
  <1>0. request \in [Requests -> RequestStates]
    BY DEF TypeOK
  <1>1. CASE ~Serve
    <2>1. CASE request' = Free
      <3>1. Under(SettingsSteps)' = {}
        BY <2>1 DEF Under, Free, Idle, SettingsSteps
      <3> QED BY <3>1 DEF SettingsInv
    <2>2. CASE UNCHANGED <<request, settings>>
      BY <2>2 DEF SettingsInv, Under
    <2> QED BY <1>1, <2>1, <2>2, QuietStep
  <1>2. CASE Serve
    <2> PICK r \in Requests :
          \/ \E url \in Webhooks \cup {None}, enabled \in BOOLEAN :
               BeginPut(r, url, enabled)
          \/ CommitPut(r) \/ PutFails(r)
          \/ BeginDelete(r) \/ Disable(r) \/ Configure(r)
          \/ \E update \in Updates : BeginUpdate(r, update)
          \/ SaveSettings(r) \/ SaveFails(r)
      BY <1>2 DEF Serve, Handlers
    (* Requests of the other kind, and those that end without writing.       *)
    <2>a. ASSUME \A q \in Requests :
                   request'[q].step = "save" =>
                     request[q].step = "save" /\ request'[q] = request[q],
                 UNCHANGED settings
          PROVE  SettingsInv'
      <3>1. ASSUME NEW q \in Requests, q \in Under(SettingsSteps)'
            PROVE  q \in Under(SettingsSteps) /\ request'[q] = request[q]
        BY <2>a, <3>1 DEF Under, SettingsSteps
      <3>2. Under(SettingsSteps)' \subseteq Under(SettingsSteps)
        BY <3>1 DEF Under
      <3>3. ASSUME NEW q \in Requests, q \in Under(SettingsSteps)', request'[q].alone
            PROVE  /\ Under(SettingsSteps)' = {q}
                   /\ \A f \in Fields \ DOMAIN request'[q].update :
                        request'[q].body[f] = settings'[f]
        BY <2>a, <3>1, <3>2, <3>3 DEF SettingsInv
      <3> QED BY <3>3 DEF SettingsInv, Under
    <2>1. ASSUME NEW url \in Webhooks \cup {None}, NEW enabled \in BOOLEAN,
                 BeginPut(r, url, enabled)
          PROVE  SettingsInv'
      <3> DEFINE record == [step |-> "commit", alone |-> TRUE, url |-> url,
                            enabled |-> enabled, webhook |-> Given(url)]
      <3>1. Begin(r, DiscordSteps, record) /\ UNCHANGED settings
        BY <2>1 DEF BeginPut
      <3>2. request'[r].step = "commit"
        <4>1. request'[r] = [record EXCEPT !.alone = Under(DiscordSteps) = {}]
          BY <1>0, <3>1, BeginSteps
        <4> QED BY <4>1
      <3>3. \A q \in Requests \ {r} :
              /\ request'[q].step = request[q].step
              /\ q \notin Under(DiscordSteps) => request'[q] = request[q]
        BY <1>0, <3>1, BeginSteps
      <3> QED BY <2>a, <3>1, <3>2, <3>3 DEF Under, DiscordSteps
    <2>2. ASSUME BeginDelete(r) PROVE SettingsInv'
      <3> DEFINE record == [step |-> "disable", alone |-> TRUE, enabled |-> FALSE]
      <3>1. Begin(r, DiscordSteps, record) /\ UNCHANGED settings
        BY <2>2 DEF BeginDelete
      <3>2. request'[r].step = "disable"
        <4>1. request'[r] = [record EXCEPT !.alone = Under(DiscordSteps) = {}]
          BY <1>0, <3>1, BeginSteps
        <4> QED BY <4>1
      <3>3. \A q \in Requests \ {r} :
              /\ request'[q].step = request[q].step
              /\ q \notin Under(DiscordSteps) => request'[q] = request[q]
        BY <1>0, <3>1, BeginSteps
      <3> QED BY <2>a, <3>1, <3>2, <3>3 DEF Under, DiscordSteps
    <2>3. ASSUME CommitPut(r) \/ Disable(r) PROVE SettingsInv'
      <3>1. request[r] \in Putting \/ request[r] \in Deleting
        BY <1>0, <2>3, StepTypes DEF CommitPut, Disable
      <3>2. [request[r] EXCEPT !.step = "configure"].step = "configure"
        BY <3>1 DEF Putting, Deleting
      <3> QED BY <1>0, <2>3, <2>a, <3>2 DEF CommitPut, Disable
    <2>4. ASSUME End(r), UNCHANGED settings PROVE SettingsInv'
      BY <1>0, <2>4, <2>a DEF End, Idle
    <2>5. ASSUME NEW update \in Updates, BeginUpdate(r, update) PROVE SettingsInv'
      <3> DEFINE record == [step |-> "save", alone |-> TRUE, update |-> update,
                            body |-> Merged(update)]
      <3>1. Begin(r, SettingsSteps, record) /\ UNCHANGED settings
        BY <2>5 DEF BeginUpdate
      <3>2. request'[r] = [record EXCEPT !.alone = Under(SettingsSteps) = {}]
        BY <1>0, <3>1, BeginSteps
      <3>3. \A q \in Requests \ {r} :
              /\ request'[q].step = request[q].step
              /\ q \in Under(SettingsSteps) => request'[q].alone = FALSE
        BY <1>0, <3>1, BeginSteps
      <3>4. ASSUME NEW q \in Requests, q \in Under(SettingsSteps)', request'[q].alone
            PROVE  q = r
        BY <3>3, <3>4 DEF Under
      <3>5. r \in Under(SettingsSteps)'
        BY <3>2 DEF Under, SettingsSteps
      <3>6. request'[r].alone => Under(SettingsSteps)' = {r}
        BY <3>2, <3>3, <3>5 DEF Under
      <3>7. \A f \in Fields \ DOMAIN request'[r].update :
              request'[r].body[f] = settings'[f]
        BY <3>1, <3>2 DEF Merged
      <3> QED BY <3>4, <3>6, <3>7 DEF SettingsInv, Under
    <2>6. ASSUME SaveSettings(r) PROVE SettingsInv'
      <3>1. r \in Under(SettingsSteps)
        BY <2>6 DEF SaveSettings, Under, SettingsSteps
      <3>2. /\ request'[r] = Idle
            /\ \A q \in Requests \ {r} : request'[q] = request[q]
        BY <1>0, <2>6 DEF SaveSettings, End
      <3>3. ASSUME NEW q \in Requests, q \in Under(SettingsSteps)', request'[q].alone
            PROVE  FALSE
        <4>1. q # r
          BY <3>2, <3>3 DEF Under, Idle, SettingsSteps
        <4>2. q \in Under(SettingsSteps) /\ request[q].alone
          BY <3>2, <3>3, <4>1 DEF Under
        <4> QED BY <3>1, <4>1, <4>2 DEF SettingsInv
      <3> QED BY <3>3 DEF SettingsInv, Under
    <2> QED
      BY <2>1, <2>2, <2>3, <2>4, <2>5, <2>6 DEF PutFails, Configure, SaveFails
  <1> QED BY <1>1, <1>2

LEMMA SettingsInvariant == Spec => [](TypeOK /\ SettingsInv)
  <1>1. Init => SettingsInv
    <2> SUFFICES ASSUME Init PROVE SettingsInv
      OBVIOUS
    <2>1. Under(SettingsSteps) = {}
      BY NobodyUnderWay DEF Init
    <2> QED BY <2>1 DEF SettingsInv
  <1>2. TypeOK /\ SettingsInv /\ [Next]_vars => SettingsInv'
    BY SettingsStep
  <1> QED BY <1>1, <1>2, TypeCorrect, PTL DEF Spec

(* A PUT /settings that no other overlapped leaves every field that it does  *)
(* not name as it was.                                                       *)
THEOREM SettingsAreMerged == Spec => UpdatesKeepOtherSettings
  <1> DEFINE Keeps ==
        \A r \in Requests : SaveSettings(r) =>
          \/ ~request[r].alone
          \/ \A f \in Fields \ DOMAIN request[r].update : settings'[f] = settings[f]
  <1>1. TypeOK /\ SettingsInv /\ [Next]_vars => [Keeps]_vars
    <2> SUFFICES ASSUME SettingsInv,
                        NEW r \in Requests, SaveSettings(r), request[r].alone,
                        NEW f \in Fields \ DOMAIN request[r].update
                 PROVE  settings'[f] = settings[f]
      OBVIOUS
    <2>1. r \in Under(SettingsSteps)
      BY DEF SaveSettings, Under, SettingsSteps
    <2> QED BY <2>1 DEF SettingsInv, SaveSettings
  <1> QED BY <1>1, SettingsInvariant, PTL DEF Spec, UpdatesKeepOtherSettings

-----------------------------------------------------------------------------
(* The webhook the notifier announces with. *)

(* What a request knows of the tables at each of its steps: all of it when   *)
(* it is alone.                                                              *)
Knows(r) ==
  /\ request[r].step = "commit" /\ request[r].url # None =>
       env = None /\ request[r].webhook = request[r].url
  /\ request[r].step = "disable" => env = None
  /\ request[r].alone =>
       /\ Under(DiscordSteps) = {r}
       /\ request[r].step = "commit" /\ request[r].url = None =>
            request[r].webhook = Stored
       /\ request[r].step = "disable" => webhook = None
       /\ request[r].step = "configure" => AnnouncesWith(r) = Loaded

(* The notifier differs from the tables only after overlapping changes, or   *)
(* when a request that has changed them is still to give it its copy.        *)
DiscordInv ==
  /\ \A r \in Under(DiscordSteps) : Knows(r)
  /\ phase["server"] = "up" =>
       \/ notifier = Loaded
       \/ mixed
       \/ \E r \in Requests : request[r].step \in {"disable", "configure"}

(* The Discord requests of a request that begins, of either kind.            *)
LEMMA DiscordBegins ==
  ASSUME TypeOK, DiscordInv, NEW r \in Requests, NEW record,
         Begin(r, DiscordSteps, record),
         NEW q \in Requests \ {r}, q \in Under(DiscordSteps)', UNCHANGED env
  PROVE  Knows(q)' /\ request'[q].alone = FALSE
  <1>1. request \in [Requests -> RequestStates]
    BY DEF TypeOK
  <1>2. /\ request'[q].step = request[q].step
        /\ q \in Under(DiscordSteps) =>
             /\ request'[q] = [request[q] EXCEPT !.alone = FALSE]
             /\ request'[q].alone = FALSE
    BY <1>1, BeginSteps
  <1>3. q \in Under(DiscordSteps) /\ request'[q].alone = FALSE
    BY <1>2 DEF Under
  <1>4. request[q].step = "commit" =>
          request'[q].url = request[q].url /\ request'[q].webhook = request[q].webhook
    <2>1. request[q].step = "commit" => request[q] \in Putting
      BY <1>1, StepTypes
    <2> QED BY <1>2, <1>3, <2>1 DEF Putting
  <1>5. Knows(q)
    BY <1>3 DEF DiscordInv
  <1> QED BY <1>2, <1>3, <1>4, <1>5 DEF Knows

LEMMA DiscordStep ==
  ASSUME TypeOK, DiscordInv, [Next]_vars
  PROVE  DiscordInv'
  <1>0. request \in [Requests -> RequestStates]
    BY DEF TypeOK
  <1> DEFINE Excused == \/ notifier = Loaded
                        \/ mixed
                        \/ \E q \in Requests : request[q].step \in {"disable", "configure"}
  <1>1. CASE ~Serve
    <2>1. CASE request' = Free /\ (phase'["server"] = "up" => notifier' = Loaded')
      <3>1. Under(DiscordSteps)' = {}
        BY <2>1 DEF Under, Free, Idle, DiscordSteps
      <3> QED BY <2>1, <3>1 DEF DiscordInv
    <2>2. CASE /\ UNCHANGED <<request, settings, preference, webhook, env, notifier, mixed>>
               /\ phase'["server"] = "up" => phase["server"] = "up"
      BY <2>2 DEF DiscordInv, Knows, Under, Loaded, Stored, AnnouncesWith
    <2> QED BY <1>1, <2>1, <2>2, QuietStep
  <1>2. CASE Serve
    <2> PICK r \in Requests :
          \/ \E url \in Webhooks \cup {None}, enabled \in BOOLEAN :
               BeginPut(r, url, enabled)
          \/ CommitPut(r) \/ PutFails(r)
          \/ BeginDelete(r) \/ Disable(r) \/ Configure(r)
          \/ \E update \in Updates : BeginUpdate(r, update)
          \/ SaveSettings(r) \/ SaveFails(r)
      BY <1>2 DEF Serve, Handlers
    <2>0. Excused /\ phase'["server"] = "up"
      BY <1>2 DEF Serve, DiscordInv, processes
    <2>s. SUFFICES (\A q \in Under(DiscordSteps)' : Knows(q)') /\ Excused'
      BY DEF DiscordInv
    (* Steps that leave the tables and the other Discord requests alone.     *)
    <2>a. ASSUME UNCHANGED <<preference, webhook, env, notifier, mixed>>,
                 \A q \in Requests :
                   q \in Under(DiscordSteps)' =>
                     q \in Under(DiscordSteps) /\ request'[q] = request[q],
                 \A q \in Requests :
                   request[q].step \in {"disable", "configure"} =>
                     request'[q].step = request[q].step
          PROVE  (\A q \in Under(DiscordSteps)' : Knows(q)') /\ Excused'
      <3>1. Loaded' = Loaded /\ Stored' = Stored
        BY <2>a DEF Loaded, Stored
      <3>2. ASSUME NEW q \in Under(DiscordSteps)' PROVE Knows(q)'
        <4>1. q \in Requests
          BY DEF Under
        <4>2. q \in Under(DiscordSteps) /\ request'[q] = request[q] /\ Knows(q)
          BY <2>a, <4>1 DEF DiscordInv
        <4>3. Under(DiscordSteps)' \subseteq Under(DiscordSteps)
          BY <2>a DEF Under
        <4>4. AnnouncesWith(q)' = AnnouncesWith(q)
          BY <4>2 DEF AnnouncesWith
        <4> QED BY <2>a, <3>1, <4>2, <4>3, <4>4 DEF Knows
      <3>3. Excused'
        BY <2>0, <2>a, <3>1
      <3> QED BY <3>2, <3>3
    <2>1. ASSUME NEW url \in Webhooks \cup {None}, NEW enabled \in BOOLEAN,
                 BeginPut(r, url, enabled)
          PROVE  (\A q \in Under(DiscordSteps)' : Knows(q)') /\ Excused'
      <3> DEFINE record == [step |-> "commit", alone |-> TRUE, url |-> url,
                            enabled |-> enabled, webhook |-> Given(url)]
      <3>1. /\ Begin(r, DiscordSteps, record)
            /\ UNCHANGED <<preference, webhook, env, notifier, mixed>>
            /\ url # None => env = None
        BY <2>1 DEF BeginPut
      <3>2. /\ request[r] = Idle
            /\ request'[r] = [record EXCEPT !.alone = Under(DiscordSteps) = {}]
            /\ \A q \in Requests \ {r} : request'[q].step = request[q].step
        BY <1>0, <3>1, BeginSteps
      <3>3. Loaded' = Loaded /\ Stored' = Stored
        BY <3>1 DEF Loaded, Stored
      <3>4. Knows(r)'
        <4>1. /\ request'[r].step = "commit" /\ request'[r].url = url
              /\ request'[r].webhook = Given(url)
              /\ request'[r].alone = (Under(DiscordSteps) = {})
          BY <3>2
        <4>2. request'[r].alone => Under(DiscordSteps)' = {r}
          BY <3>2, <4>1 DEF Under, DiscordSteps
        <4> QED BY <3>1, <3>3, <4>1, <4>2 DEF Knows, Given
      <3>5. \A q \in Under(DiscordSteps)' : q # r => Knows(q)'
        BY <3>1, DiscordBegins DEF Under
      <3>6. Excused'
        BY <2>0, <3>1, <3>2, <3>3 DEF Idle
      <3> QED BY <3>4, <3>5, <3>6
    <2>2. ASSUME BeginDelete(r)
          PROVE  (\A q \in Under(DiscordSteps)' : Knows(q)') /\ Excused'
      <3> DEFINE record == [step |-> "disable", alone |-> TRUE, enabled |-> FALSE]
      <3>1. /\ Begin(r, DiscordSteps, record)
            /\ UNCHANGED env /\ env = None /\ webhook' = None
        BY <2>2 DEF BeginDelete
      <3>2. /\ request'[r] = [record EXCEPT !.alone = Under(DiscordSteps) = {}]
            /\ \A q \in Requests \ {r} : request'[q].step = request[q].step
        BY <1>0, <3>1, BeginSteps
      <3>3. /\ request'[r].step = "disable"
            /\ request'[r].alone = (Under(DiscordSteps) = {})
        BY <3>2
      <3>4. Knows(r)'
        <4>1. request'[r].alone => Under(DiscordSteps)' = {r}
          BY <3>2, <3>3 DEF Under, DiscordSteps
        <4> QED BY <3>1, <3>3, <4>1 DEF Knows
      <3>5. \A q \in Under(DiscordSteps)' : q # r => Knows(q)'
        BY <3>1, DiscordBegins DEF Under
      <3> QED BY <3>3, <3>4, <3>5
    (* A request that goes on to give the notifier its copy.                 *)
    <2>b. ASSUME request' = [request EXCEPT ![r].step = "configure"],
                 r \in Under(DiscordSteps), UNCHANGED env,
                 request[r].alone =>
                   (IF request[r].enabled THEN request[r].webhook ELSE None) = Loaded'
          PROVE  (\A q \in Under(DiscordSteps)' : Knows(q)') /\ Excused'
      <3>1. request[r] \in Putting \/ request[r] \in Deleting
        BY <1>0, <2>b, StepTypes DEF Under, DiscordSteps
      <3>2. /\ request'[r] = [request[r] EXCEPT !.step = "configure"]
            /\ \A q \in Requests \ {r} : request'[q] = request[q]
        BY <1>0, <2>b
      <3>3. /\ request'[r].step = "configure" /\ request'[r].alone = request[r].alone
            /\ request'[r].enabled = request[r].enabled
            /\ request[r].enabled => request'[r].webhook = request[r].webhook
        BY <3>1, <3>2 DEF Putting, Deleting
      <3>4. Under(DiscordSteps)' = Under(DiscordSteps)
        BY <2>b, <3>2, <3>3 DEF Under, DiscordSteps
      <3>5. Knows(r)'
        <4>1. request[r].alone => Under(DiscordSteps) = {r}
          BY <2>b DEF DiscordInv, Knows
        <4>2. AnnouncesWith(r)' =
                IF request[r].enabled THEN request[r].webhook ELSE None
          BY <3>3 DEF AnnouncesWith
        <4> QED BY <2>b, <3>3, <3>4, <4>1, <4>2 DEF Knows
      <3>6. ASSUME NEW q \in Under(DiscordSteps)', q # r PROVE Knows(q)'
        <4>1. q \in Under(DiscordSteps) /\ request'[q] = request[q] /\ Knows(q)
          BY <3>2, <3>4, <3>6 DEF DiscordInv, Under
        <4>2. ~request[q].alone
          BY <2>b, <3>6, <4>1 DEF Knows
        <4> QED BY <2>b, <4>1, <4>2 DEF Knows
      <3>7. Excused'
        BY <3>3
      <3> QED BY <3>5, <3>6, <3>7
    <2>3. ASSUME CommitPut(r)
          PROVE  (\A q \in Under(DiscordSteps)' : Knows(q)') /\ Excused'
      <3>1. /\ request' = [request EXCEPT ![r].step = "configure"]
            /\ r \in Under(DiscordSteps) /\ UNCHANGED env /\ Knows(r)
        BY <2>3 DEF CommitPut, Under, DiscordSteps, DiscordInv
      <3>2. request[r] \in Putting
        BY <1>0, <2>3, StepTypes DEF CommitPut
      <3>3. ASSUME request[r].alone
            PROVE  (IF request[r].enabled THEN request[r].webhook ELSE None) = Loaded'
        <4>1. /\ preference' = IF request[r].enabled THEN "true" ELSE "false"
              /\ webhook' = IF request[r].url = None THEN webhook
                            ELSE [url |-> request[r].url, key |-> cipher]
              /\ request[r].step = "commit"
          BY <2>3 DEF CommitPut
        <4>2. request[r].webhook = Stored'
          <5>1. CASE request[r].url = None
            BY <3>1, <3>3, <4>1, <5>1 DEF Knows, Stored
          <5>2. CASE request[r].url # None
            <6>1. env = None /\ request[r].webhook = request[r].url
              BY <3>1, <4>1, <5>2 DEF Knows
            <6>2. webhook' = [url |-> request[r].url, key |-> cipher]
              BY <4>1, <5>2
            <6>3. webhook' # None
              <7>1. cipher \in Keys /\ request[r].url \in Webhooks
                BY <1>2, <3>2, <5>2 DEF Serve, TypeOK, Putting
              <7> QED BY <6>2, <7>1, ConfigurationAssumption
                      DEF ConfigurationAssumption
            <6> QED BY <3>1, <6>1, <6>2, <6>3 DEF Stored
          <5> QED BY <5>1, <5>2
        <4> QED BY <4>1, <4>2 DEF Loaded
      <3> QED BY <2>b, <3>1, <3>3
    <2>4. ASSUME Disable(r)
          PROVE  (\A q \in Under(DiscordSteps)' : Knows(q)') /\ Excused'
      <3>1. /\ request' = [request EXCEPT ![r].step = "configure"]
            /\ r \in Under(DiscordSteps) /\ UNCHANGED <<env, webhook>> /\ Knows(r)
            /\ request[r].step = "disable"
        BY <2>4 DEF Disable, Under, DiscordSteps, DiscordInv
      <3>2. request[r].enabled = FALSE
        BY <1>0, <3>1, StepTypes DEF Deleting
      <3>3. request[r].alone => Loaded' = None
        BY <3>1 DEF Knows, Loaded, Stored
      <3> QED BY <2>b, <3>1, <3>2, <3>3
    <2>5. ASSUME Configure(r)
          PROVE  (\A q \in Under(DiscordSteps)' : Knows(q)') /\ Excused'
      <3>1. /\ request'[r] = Idle /\ \A q \in Requests \ {r} : request'[q] = request[q]
            /\ UNCHANGED <<preference, webhook, env>>
            /\ notifier' = AnnouncesWith(r) /\ mixed' = ~request[r].alone
            /\ r \in Under(DiscordSteps) /\ request[r].step = "configure"
        BY <1>0, <2>5 DEF Configure, End, Under, DiscordSteps
      <3>2. Knows(r) /\ Loaded' = Loaded /\ Stored' = Stored
        BY <3>1 DEF DiscordInv, Loaded, Stored
      <3>3. ASSUME NEW q \in Under(DiscordSteps)' PROVE Knows(q)'
        <4>1. q \in Requests /\ q # r
          BY <3>1 DEF Under, Idle, DiscordSteps
        <4>2. request'[q] = request[q] /\ q \in Under(DiscordSteps) /\ Knows(q)
          BY <3>1, <4>1 DEF Under, DiscordInv
        <4>3. ~request[q].alone
          BY <3>1, <4>1, <4>2 DEF Knows
        <4> QED BY <3>1, <4>2, <4>3 DEF Knows
      <3>4. Excused'
        BY <3>1, <3>2 DEF Knows
      <3> QED BY <3>3, <3>4
    <2>6. ASSUME PutFails(r) \/ SaveSettings(r) \/ SaveFails(r)
          PROVE  (\A q \in Under(DiscordSteps)' : Knows(q)') /\ Excused'
      <3>1. /\ request'[r] = Idle /\ \A q \in Requests \ {r} : request'[q] = request[q]
            /\ UNCHANGED <<preference, webhook, env, notifier, mixed>>
            /\ request[r].step \in {"commit", "save"}
        BY <1>0, <2>6 DEF PutFails, SaveSettings, SaveFails, End
      <3> QED BY <2>a, <3>1 DEF Under, Idle, DiscordSteps
    <2>7. ASSUME NEW update \in Updates, BeginUpdate(r, update)
          PROVE  (\A q \in Under(DiscordSteps)' : Knows(q)') /\ Excused'
      <3> DEFINE record == [step |-> "save", alone |-> TRUE, update |-> update,
                            body |-> Merged(update)]
      <3>1. /\ Begin(r, SettingsSteps, record)
            /\ UNCHANGED <<preference, webhook, env, notifier, mixed>>
        BY <2>7 DEF BeginUpdate
      <3>2. /\ request[r] = Idle
            /\ request'[r] = [record EXCEPT !.alone = Under(SettingsSteps) = {}]
            /\ \A q \in Requests \ {r} :
                 /\ request'[q].step = request[q].step
                 /\ q \notin Under(SettingsSteps) => request'[q] = request[q]
        BY <1>0, <3>1, BeginSteps
      <3>3. request'[r].step = "save"
        BY <3>2
      <3> QED BY <2>a, <3>1, <3>2, <3>3 DEF Under, Idle, DiscordSteps, SettingsSteps
    <2> QED BY <2>1, <2>2, <2>3, <2>4, <2>5, <2>6, <2>7
  <1> QED BY <1>1, <1>2

LEMMA DiscordInvariant == Spec => [](TypeOK /\ DiscordInv)
  <1>1. Init => DiscordInv
    <2> SUFFICES ASSUME Init PROVE DiscordInv
      OBVIOUS
    <2>1. Under(DiscordSteps) = {} /\ phase["server"] = "stopped"
      BY NobodyUnderWay DEF Init, Processes
    <2> QED BY <2>1 DEF DiscordInv
  <1>2. TypeOK /\ DiscordInv /\ [Next]_vars => DiscordInv'
    BY DiscordStep
  <1> QED BY <1>1, <1>2, TypeCorrect, PTL DEF Spec

(* While no change of the webhook is under way the server announces with     *)
(* what the tables say, unless the last changes overlapped.                  *)
THEOREM NotifierIsRight == Spec => []NotifierFollowsTheTable
  <1>1. DiscordInv => NotifierFollowsTheTable
    BY DEF DiscordInv, NotifierFollowsTheTable, Under, DiscordSteps
  <1> QED BY <1>1, DiscordInvariant, PTL
=============================================================================
