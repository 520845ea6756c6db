---------------------------- MODULE Installation ----------------------------
(***************************************************************************)
(* The volume a server runs on, and the processes that use it.             *)
(*                                                                         *)
(*   The server (cmd/watchweaver main) brings the schema up to date, loads *)
(*   or creates the credential key, encrypts the tokens an older release   *)
(*   left in the clear, loads the Discord webhook and then serves the      *)
(*   requests of Configuration.                                            *)
(*                                                                         *)
(*   The command "watchweaver backup" runs beside it, or without it: it    *)
(*   brings the schema up to date too, writes a consistent copy of the     *)
(*   database and then a copy of the key.                                  *)
(*                                                                         *)
(*   Each may be killed between any two steps, Docker starts the server    *)
(*   again, and an operator restores a backup while both are stopped.      *)
(*                                                                         *)
(* A cipher text is represented by the key it was made with: it can be     *)
(* read with that key only.                                                *)
(***************************************************************************)
EXTENDS Configuration, Sequences

CONSTANTS
  Release,      \* how many migrations this release has; the last one makes
                \* encrypted_credentials, the first the other tables
  MaxBackups,   \* bound: how many backups are made
  Empty,        \* a key file that was created and never written
  Plain         \* a token in the clear, in integration_state

ASSUME InstallationAssumption ==
  /\ Release \in Nat \ {0} /\ MaxBackups \in Nat
  /\ None # Empty /\ None # Plain
  /\ Empty \notin Keys /\ Plain \notin Keys

VARIABLES
  schema,    \* the number of migrations in schema_migrations
  token,     \* Trakt's token: None, Plain, or the key of its cipher text
  keyfile,   \* .watchweaver.key: None, Empty or a key
  phase,     \* the step each process is at
  target,    \* the migration each process has found missing
  copied,    \* what the backup command has read of the key file
  backups,   \* the backups, oldest first: [db, key]
  owed       \* history: the database came with a token

volume == <<schema, token, keyfile, backups, owed>>
processes == <<phase, target, copied>>
vars == <<config, volume, processes>>

Processes == {"server", "backup"}

\* A process that was stopped, and one that ended with an error of its own.
Ended == {"stopped", "failed"}

Database == [schema |-> schema, token |-> token, webhook |-> webhook,
             preference |-> preference, settings |-> settings, owed |-> owed]

Databases == [schema : 0 .. Release, token : Keys \cup {None, Plain},
              webhook : [url : Webhooks, key : Keys] \cup {None},
              preference : {"unset", "true", "false"},
              settings : [Fields -> Values], owed : BOOLEAN]

ASSUME DatabaseAssumption == None \notin Databases

\* The keys without which something in database db cannot be read.
KeysOf(db) ==
  ({db.token} \cup (IF db.webhook = None THEN {} ELSE {db.webhook.key}))
    \ {None, Plain}

Complete(b) == b.db # None

Newest == backups[Len(backups)]

-----------------------------------------------------------------------------
(* The volume holds the database of any earlier release, whose token is in  *)
(* the clear, or one this release has announced with already.               *)

OfEarlierRelease ==
  /\ schema \in 0 .. Release
  /\ token \in IF schema \in 1 .. Release - 1 THEN {None, Plain} ELSE {None}
  /\ keyfile = None /\ webhook = None /\ preference = "unset"

InUse ==
  /\ schema = Release
  /\ keyfile \in Keys /\ token = keyfile /\ preference = "true"
  /\ webhook \in [url : Webhooks, key : {keyfile}]

Init ==
  /\ OfEarlierRelease \/ InUse
  /\ owed = (token # None)
  /\ backups = <<>>
  /\ settings = Default
  /\ env = None /\ cipher = None /\ notifier = None
  /\ request = Free /\ changes = 0 /\ mixed = FALSE
  /\ phase = [p \in Processes |-> "stopped"]
  /\ target = [p \in Processes |-> 0]
  /\ copied = None

Goes(p, step) == phase' = [phase EXCEPT ![p] = step]

-----------------------------------------------------------------------------
(* persistence.RunMigrations, in either process. *)

\* Mutant: the record of what has been applied is not looked at.
AllMigrations == 1 .. Release

\* Mutant: the last one recorded is applied again.
MissingFromLast == schema .. Release

\* The migrations not recorded yet.
Missing == schema + 1 .. Release

AfterMigrations == [server |-> "key", backup |-> "snapshot"]

\* Whether a migration has been applied is read outside its transaction ...
CheckMigration(p) ==
  /\ phase[p] = "migrate"
  /\ IF Missing = {}
     THEN Goes(p, AfterMigrations[p]) /\ UNCHANGED target
     ELSE /\ Goes(p, "apply")
          /\ \E next \in Missing :
               /\ \A version \in Missing : next <= version
               /\ target' = [target EXCEPT ![p] = next]
  /\ UNCHANGED <<config, volume, copied>>

\* ... in which it is applied and recorded ...
ApplyMigration(p) ==
  /\ phase[p] = "apply" /\ target[p] > schema
  /\ schema' = target[p]
  /\ target' = [target EXCEPT ![p] = 0]
  /\ Goes(p, "migrate")
  /\ UNCHANGED <<config, token, keyfile, backups, owed, copied>>

\* ... or fails, and ends the process, when the other one has applied it.
MigrationFails(p) ==
  /\ phase[p] = "apply" /\ target[p] <= schema
  /\ target' = [target EXCEPT ![p] = 0]
  /\ Goes(p, "failed")
  /\ UNCHANGED <<config, volume, copied>>

-----------------------------------------------------------------------------
(* The server starts. *)

Start(e) ==
  /\ phase["server"] \in Ended
  /\ Goes("server", "migrate")
  /\ env' = e
  /\ UNCHANGED <<settings, preference, webhook, cipher, notifier, request,
                 changes, mixed, volume, target, copied>>

\* Random bytes: a key that no backup was made under.
NewKeys == Keys \ UNION {{b.key} \cup KeysOf(b.db) :
  b \in {backups[i] : i \in {j \in DOMAIN backups : Complete(backups[j])}}}

\* Mutant: a key file that does not decode is replaced.
ValidKeyFound == IF keyfile = Empty THEN None ELSE keyfile

\* What loadOrCreateKey finds at its path.
KeyFound == keyfile

\* loadOrCreateKey: a key that does not decode is refused; a missing one is
\* created empty first.
OpenKey ==
  /\ phase["server"] = "key"
  /\ CASE KeyFound = None ->
            keyfile' = Empty /\ Goes("server", "writekey") /\ UNCHANGED cipher
       [] KeyFound = Empty ->
            Goes("server", "failed") /\ UNCHANGED <<keyfile, cipher>>
       [] OTHER ->
            cipher' = keyfile /\ Goes("server", "secrets") /\ UNCHANGED keyfile
  /\ UNCHANGED <<settings, preference, webhook, env, notifier, request,
                 changes, mixed, schema, token, backups, owed, target, copied>>

WriteKey ==
  /\ phase["server"] = "writekey"
  /\ keyfile' \in NewKeys
  /\ cipher' = keyfile'
  /\ Goes("server", "secrets")
  /\ UNCHANGED <<settings, preference, webhook, env, notifier, request,
                 changes, mixed, schema, token, backups, owed, target, copied>>

\* Store.migrateLegacy: encrypted and removed from the clear at once.
MigrateLegacy ==
  /\ phase["server"] = "secrets"
  /\ token' = IF token = Plain THEN cipher ELSE token
  /\ Goes("server", "load")
  /\ UNCHANGED <<config, schema, keyfile, backups, owed, target, copied>>

\* main: the webhook is read, which fails with the wrong key, and given to
\* the notifier when announcements are on.
Load ==
  /\ phase["server"] = "load"
  /\ IF env # None \/ Readable
     THEN Goes("server", "up") /\ notifier' = Loaded /\ UNCHANGED cipher
     ELSE Goes("server", "failed") /\ cipher' = None /\ UNCHANGED notifier
  /\ UNCHANGED <<settings, preference, webhook, env, request, changes, mixed,
                 volume, target, copied>>

Serve ==
  /\ phase["server"] = "up"
  /\ Handlers
  /\ UNCHANGED <<volume, processes>>

\* The process ends, wherever it is: a crash, or docker compose stop.
Stop ==
  /\ phase["server"] # "stopped"
  /\ Goes("server", "stopped")
  /\ env' = None /\ cipher' = None /\ notifier' = None
  /\ request' = Free /\ mixed' = FALSE
  /\ target' = [target EXCEPT !["server"] = 0]
  /\ UNCHANGED <<settings, preference, webhook, changes, volume, copied>>

-----------------------------------------------------------------------------
(* The backup command. *)

RunBackup ==
  /\ phase["backup"] \in Ended
  /\ Len(backups) < MaxBackups
  /\ Goes("backup", "migrate")
  /\ UNCHANGED <<config, volume, target, copied>>

\* persistence.Backup: one transaction reads the whole database.
Snapshot ==
  /\ phase["backup"] = "snapshot"
  /\ backups' = Append(backups, [db |-> Database, key |-> None])
  /\ Goes("backup", "copykey")
  /\ UNCHANGED <<config, schema, token, keyfile, owed, target, copied>>

SetKeyOfLast(k) == backups' = [backups EXCEPT ![Len(backups)].key = k]

\* BackupKey reads the key and creates the companion, unless there is no key.
CopyKey ==
  /\ phase["backup"] = "copykey"
  /\ IF keyfile = None
     THEN Goes("backup", "stopped") /\ UNCHANGED <<backups, copied>>
     ELSE Goes("backup", "writecopy") /\ SetKeyOfLast(Empty) /\ copied' = keyfile
  /\ UNCHANGED <<config, schema, token, keyfile, owed, target>>

WriteCopy ==
  /\ phase["backup"] = "writecopy"
  /\ SetKeyOfLast(copied)
  /\ copied' = None
  /\ Goes("backup", "stopped")
  /\ UNCHANGED <<config, schema, token, keyfile, owed, target>>

\* The command is killed; the copy of the database may be left incomplete.
Kill ==
  /\ phase["backup"] \notin Ended
  /\ Goes("backup", "stopped")
  /\ \/ UNCHANGED backups
     \/ /\ phase["backup"] = "snapshot"
        /\ backups' = Append(backups, [db |-> None, key |-> None])
  /\ copied' = None
  /\ target' = [target EXCEPT !["backup"] = 0]
  /\ UNCHANGED <<config, schema, token, keyfile, owed>>

-----------------------------------------------------------------------------
(* The operator restores a complete backup with its key, in place or on a   *)
(* fresh volume; one whose database needs no key may come without it.       *)

Restore(b) ==
  /\ phase["server"] = "stopped" /\ phase["backup"] \in Ended
  /\ Complete(b)
  /\ b.key = None => KeysOf(b.db) = {}
  /\ keyfile' \in IF b.key = None THEN {keyfile, None} ELSE {b.key}
  /\ schema' = b.db.schema /\ token' = b.db.token /\ owed' = b.db.owed
  /\ webhook' = b.db.webhook
  /\ preference' = b.db.preference
  /\ settings' = b.db.settings
  /\ UNCHANGED <<env, cipher, notifier, request, changes, mixed, backups,
                 processes>>

RestoreBackup == \E i \in DOMAIN backups : Restore(backups[i])

-----------------------------------------------------------------------------
StartUp ==
  \/ CheckMigration("server")
  \/ ApplyMigration("server")
  \/ MigrationFails("server")
  \/ OpenKey
  \/ WriteKey
  \/ MigrateLegacy
  \/ Load

BackupCommand ==
  \/ RunBackup
  \/ CheckMigration("backup")
  \/ ApplyMigration("backup")
  \/ MigrationFails("backup")
  \/ Snapshot
  \/ CopyKey
  \/ WriteCopy
  \/ Kill

DockerStarts == \E e \in Environments : Start(e)

Next == DockerStarts \/ StartUp \/ Serve \/ Stop \/ BackupCommand \/ RestoreBackup

(* compose.yaml has "restart: unless-stopped", and a process that starts    *)
(* goes on.                                                                 *)
Spec == Init /\ [][Next]_vars /\ WF_vars(DockerStarts) /\ WF_vars(StartUp)

-----------------------------------------------------------------------------
(* Properties. *)

KeyStates == Keys \cup {None, Empty}

ServerPhases == Ended \cup {"migrate", "apply", "key", "writekey", "secrets",
                            "load", "up"}
BackupPhases == Ended \cup {"migrate", "apply", "snapshot", "copykey",
                            "writecopy"}

\* The variables keep their types; the process has a key exactly from the end
\* of loadOrCreateKey on, that of the key file, and requests only when it is
\* up.
TypeOK ==
  /\ Database \in Databases
  /\ keyfile \in KeyStates /\ copied \in KeyStates
  /\ backups \in Seq([db : Databases \cup {None}, key : KeyStates])
  /\ Len(backups) <= MaxBackups
  /\ phase \in [Processes -> ServerPhases \cup BackupPhases]
  /\ phase["server"] \in ServerPhases /\ phase["backup"] \in BackupPhases
  /\ target \in [Processes -> 0 .. Release]
  /\ \A p \in Processes : (phase[p] = "apply") = (target[p] # 0)
  /\ env \in Environments /\ notifier \in Announced
  /\ request \in [Requests -> RequestStates]
  /\ cipher \in IF phase["server"] \in {"secrets", "load", "up"}
                THEN {keyfile} \cap Keys ELSE {None}
  /\ phase["server"] # "up" => request = Free

\* What the server announces with is what the tables say it should, and so
\* what it will announce with after a restart, unless the last changes of the
\* webhook overlapped (integration_config.go, main.go).
NotifierFollowsTheTable ==
  phase["server"] = "up" /\ Under(DiscordSteps) = {} =>
    notifier = Loaded \/ mixed

\* PUT /settings changes no field that its body leaves out, unless another
\* PUT overlapped it (api.go, settings).
UpdatesKeepOtherSettings ==
  [][\A r \in Requests : SaveSettings(r) =>
       \/ ~request[r].alone
       \/ \A f \in Fields \ DOMAIN request[r].update :
            settings'[f] = settings[f]]_vars

\* Every secret the database holds can be read with the key file, and the
\* token it came with is still there, whatever is cut short, migrated or
\* restored; only an empty key file reads nothing (store.go).
SecretsSurvive ==
  /\ KeysOf(Database) # {} => KeysOf(Database) = {keyfile} \/ keyfile = Empty
  /\ owed => token # None

\* Mutant: the newest database alone is enough.
DatabaseFound(b) == TRUE

\* latestBackup: the newest backup is shown as working when it has a key.
CompanionFound(b) == b.key # None

\* A backup that the status shows as working is complete, of this release,
\* and comes with the key of everything in it, unless its companion is empty
\* (operational_status.go, main.go).
WorkingBackupRestores ==
  backups # <<>> /\ CompanionFound(Newest) =>
    /\ Complete(Newest)
    /\ Newest.db.schema = Release
    /\ Newest.key = Empty \/ KeysOf(Newest.db) \subseteq {Newest.key}

\* However starts are cut short, race with the migrations of a backup or find
\* the volume of an older release, the server is up again and again, unless
\* it is stopped again and again or the key file stays empty (persistence.go,
\* store.go, compose.yaml).
ServerComesUp ==
  \/ []<>(phase["server"] = "up")
  \/ <>[](keyfile = Empty)
  \/ []<>(phase["server"] = "stopped")
=============================================================================
