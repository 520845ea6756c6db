--------------------------- MODULE Configuration ---------------------------
(***************************************************************************)
(* The two requests that change the configuration of a running server and  *)
(* are made of several steps:                                              *)
(*                                                                         *)
(*   PUT and DELETE /api/v1/integrations/discord/config                    *)
(*     (API.discordConfig): the webhook, encrypted in a table of its own,  *)
(*     the preference discord_enabled in app_settings, and the copy of the *)
(*     webhook the notifier sends with;                                    *)
(*   PUT /api/v1/settings (API.settings): the settings are loaded, merged  *)
(*     with the fields of the request and all written back.                *)
(*                                                                         *)
(* Two requests interleave at every statement.  What the server loads when *)
(* it starts, and where the tables come from, is in Installation, which    *)
(* extends this module.                                                    *)
(***************************************************************************)
EXTENDS Naturals

CONSTANTS
  Requests,       \* the requests that can be under way at once
  Webhooks,       \* the webhook URLs a user may enter
  Environments,   \* the values DISCORD_WEBHOOK_URL may have, None for unset
  Fields,         \* the fields of the settings
  Values,         \* the values they may have
  Default,        \* the settings of a database that holds none
  Updates,        \* the bodies of PUT /settings: functions from some fields
  MaxChanges,     \* bound: how many requests are made in all
  Keys,           \* the keys that random bytes can give
  None            \* no webhook, no key, no token

ASSUME ConfigurationAssumption ==
  /\ Requests # {} /\ MaxChanges \in Nat
  /\ None \notin Webhooks /\ None \in Environments /\ None \notin Keys
  /\ None \notin [url : Webhooks, key : Keys]
  /\ Default \in [Fields -> Values]
  /\ \A u \in Updates :
       DOMAIN u \subseteq Fields /\ \A f \in DOMAIN u : u[f] \in Values

VARIABLES
  settings,    \* app_settings, the defaults where it has no row
  preference,  \* app_settings.discord_enabled: "unset", "true" or "false"
  webhook,     \* its row of encrypted_credentials, [url, key], or None
  env,         \* DISCORD_WEBHOOK_URL of the running process, or None
  cipher,      \* the key the running process encrypts with, or None
  notifier,    \* Notifier.webhookURL, None for ""
  request,     \* what each request has done and read so far
  changes,     \* how many requests have been made
  mixed        \* history: the last changes of the webhook overlapped

config == <<settings, preference, webhook, env, cipher, notifier, request,
            changes, mixed>>

-----------------------------------------------------------------------------
(* Requests. *)

Idle == [step |-> "idle"]
Free == [r \in Requests |-> Idle]

DiscordSteps == {"commit", "disable", "configure"}
SettingsSteps == {"save"}

Under(steps) == {r \in Requests : request[r].step \in steps}

\* Request r begins with this record, beside those that are at these steps:
\* from here on neither it nor they are "alone", which is history.
Begin(r, steps, record) ==
  /\ request[r] = Idle
  /\ changes < MaxChanges
  /\ changes' = changes + 1
  /\ request' =
       [q \in Requests |->
          IF q = r THEN [record EXCEPT !.alone = Under(steps) = {}]
          ELSE IF q \in Under(steps) THEN [request[q] EXCEPT !.alone = FALSE]
          ELSE request[q]]

End(r) == request' = [request EXCEPT ![r] = Idle]

-----------------------------------------------------------------------------
(* The webhook. *)

Readable == webhook # None => webhook.key = cipher

\* Store.Get: the environment overrides the table.
Stored ==
  IF env # None THEN env ELSE IF webhook = None THEN None ELSE webhook.url

\* What main gives the notifier of a process that starts now.
Loaded ==
  IF preference = "true" \/ (preference = "unset" /\ env # None)
  THEN Stored ELSE None

\* The webhook a PUT works with: that of its body, or else the stored one.
Given(url) == IF url # None THEN url ELSE Stored

\* PUT: the body is checked, and the stored webhook read, before the
\* transaction begins.
BeginPut(r, url, enabled) ==
  /\ url # None => env = None
  /\ env # None \/ Readable
  /\ enabled => Given(url) # None
  /\ Begin(r, DiscordSteps,
           [step |-> "commit", alone |-> TRUE, url |-> url,
            enabled |-> enabled, webhook |-> Given(url)])
  /\ UNCHANGED <<settings, preference, webhook, env, cipher, notifier, mixed>>

\* PUT: the webhook and the preference in one transaction ...
CommitPut(r) ==
  /\ request[r].step = "commit"
  /\ webhook' = IF request[r].url = None THEN webhook
                ELSE [url |-> request[r].url, key |-> cipher]
  /\ preference' = IF request[r].enabled THEN "true" ELSE "false"
  /\ request' = [request EXCEPT ![r].step = "configure"]
  /\ UNCHANGED <<settings, env, cipher, notifier, changes, mixed>>

\* ... or none of them.
PutFails(r) ==
  /\ request[r].step = "commit"
  /\ End(r)
  /\ UNCHANGED <<settings, preference, webhook, env, cipher, notifier,
                 changes, mixed>>

\* DELETE: the row first; when this statement fails nothing has changed.
BeginDelete(r) ==
  /\ env = None
  /\ Begin(r, DiscordSteps,
           [step |-> "disable", alone |-> TRUE, enabled |-> FALSE])
  /\ webhook' = None
  /\ UNCHANGED <<settings, preference, env, cipher, notifier, mixed>>

\* DELETE: then the preference, whose failure is ignored.
Disable(r) ==
  /\ request[r].step = "disable"
  /\ preference' \in {"false", preference}
  /\ request' = [request EXCEPT ![r].step = "configure"]
  /\ UNCHANGED <<settings, webhook, env, cipher, notifier, changes, mixed>>

\* Mutant: a request that turns announcements off leaves the copy alone.
AnnouncesUnlessOff(r) == IF request[r].enabled THEN request[r].webhook ELSE notifier

\* What the notifier is given at the end, as the request knows it.
AnnouncesWith(r) == IF request[r].enabled THEN request[r].webhook ELSE None

\* PUT and DELETE: the notifier's copy.
Configure(r) ==
  /\ request[r].step = "configure"
  /\ notifier' = AnnouncesWith(r)
  /\ mixed' = ~request[r].alone
  /\ End(r)
  /\ UNCHANGED <<settings, preference, webhook, env, cipher, changes>>

-----------------------------------------------------------------------------
(* The settings. *)

\* Mutant: the fields the request leaves out take their defaults.
MergedWithDefaults(update) == [f \in Fields |->
  IF f \in DOMAIN update THEN update[f] ELSE Default[f]]

\* The settings as they were loaded, with the fields of the request.
Merged(update) == [f \in Fields |->
  IF f \in DOMAIN update THEN update[f] ELSE settings[f]]

\* loadSettings runs before the transaction.
BeginUpdate(r, update) ==
  /\ Begin(r, SettingsSteps,
           [step |-> "save", alone |-> TRUE, update |-> update,
            body |-> Merged(update)])
  /\ UNCHANGED <<settings, preference, webhook, env, cipher, notifier, mixed>>

\* Every field is written, those the request did not name as well.
SaveSettings(r) ==
  /\ request[r].step = "save"
  /\ settings' = request[r].body
  /\ End(r)
  /\ UNCHANGED <<preference, webhook, env, cipher, notifier, changes, mixed>>

SaveFails(r) ==
  /\ request[r].step = "save"
  /\ End(r)
  /\ UNCHANGED <<settings, preference, webhook, env, cipher, notifier,
                 changes, mixed>>

-----------------------------------------------------------------------------
Announced == Webhooks \cup Environments

\* What a request can hold between its steps.
Putting == [step : {"commit", "configure"}, alone : BOOLEAN,
            url : Webhooks \cup {None}, enabled : BOOLEAN, webhook : Announced]
Deleting == [step : {"disable", "configure"}, alone : BOOLEAN, enabled : {FALSE}]
Saving == [step : {"save"}, alone : BOOLEAN, update : Updates,
           body : [Fields -> Values]]

RequestStates == {Idle} \cup Putting \cup Deleting \cup Saving

Handlers == \E r \in Requests :
  \/ \E url \in Webhooks \cup {None}, enabled \in BOOLEAN :
       BeginPut(r, url, enabled)
  \/ CommitPut(r)
  \/ PutFails(r)
  \/ BeginDelete(r)
  \/ Disable(r)
  \/ Configure(r)
  \/ \E update \in Updates : BeginUpdate(r, update)
  \/ SaveSettings(r)
  \/ SaveFails(r)
=============================================================================
