----------------------------- MODULE TraktSession -----------------------------
(***************************************************************************)
(* The connection to Trakt: its credentials, the device authorization and  *)
(* who may run a synchronisation cycle.                                    *)
(*                                                                         *)
(* The credentials are in a table and in the memory of trakt.Service, the  *)
(* token only in the table.  Web requests change them in several           *)
(* statements; a mutex guards the memory and is held while Trakt is asked  *)
(* for a code or a token.  Cycles are run by the manager's goroutine and   *)
(* by requests, one at a time, and read the table as they begin.           *)
(***************************************************************************)
EXTENDS Integers

CONSTANTS
    Requests,     \* web requests that may be served at once
    Manager,      \* the goroutine of SyncManager.Run
    Nobody,       \* no one holds the mutex
    Apps,         \* Trakt applications: each has an id, a secret and its tokens
    None,         \* no value
    MaxRequests,  \* bound: requests served
    MaxFailures   \* bound: failed calls and restarts

ASSUME ProcessAssumption == Manager \notin Requests /\ Nobody \notin Requests \union {Manager}
ASSUME AppsAssumption == None \notin Apps

VARIABLES
    table,       \* table encrypted_credentials, integration trakt
    memory,      \* Service.cfg: client id and secret
    pending,     \* Service.pending: the application that the device code is for
    lock,        \* Service.mu: who holds it across a call
    running,     \* SyncManager.running
    wake,        \* SyncManager.wake: the channel holds a signal
    local,       \* what each request and the manager hold between statements
    overlapped,  \* history: changes of the credentials that overlapped came last
    revived,     \* history: a token was stored after its credentials were removed
    served, failures

budget == <<served, failures>>
service == <<memory, pending, lock>>
manager == <<running, wake>>
vars == <<table, service, manager, local, overlapped, revived, budget>>

Processes == Requests \union {Manager}
App == Apps \union {None}
Client == [id: App, secret: App]
Configured(c) == c.id # None /\ c.secret # None

Local ==
    [at: {"idle", "put", "configure", "authorize", "start", "check", "poll", "persist",
          "stored", "trigger", "status", "sync", "token", "client", "run"},
     body: Client, client: Client, token: App, quiet: BOOLEAN]
NoClient == [id |-> None, secret |-> None]
Idle == [at |-> "idle", body |-> NoClient, client |-> NoClient, token |-> None, quiet |-> FALSE]

At(p, step) == local[p].at = step
Goes(p, to) == local' = [local EXCEPT ![p].at = to]
Ends(p) == local' = [local EXCEPT ![p] = Idle]

-----------------------------------------------------------------------------
(* The service starts with the credentials in the table: none, or those of   *)
(* an application that an earlier run may have been authorized for.         *)
Loaded(t) == [id |-> t.id, secret |-> t.secret]

Init ==
    /\ table \in [id: App, secret: App, token: App]
    /\ table.secret = table.id
    /\ table.token \in {None, table.id}
    /\ memory = Loaded(table)
    /\ pending = None
    /\ lock = Nobody
    /\ running = FALSE
    /\ wake = FALSE
    /\ local = [p \in Processes |-> Idle]
    /\ overlapped = FALSE
    /\ revived = FALSE
    /\ served = 0
    /\ failures = 0

(* A request arrives: what it does first follows. *)
Serve(p) ==
    /\ p \in Requests
    /\ At(p, "idle")
    /\ served < MaxRequests
    /\ served' = served + 1
    /\ UNCHANGED failures

Fails ==
    /\ failures < MaxFailures
    /\ failures' = failures + 1
    /\ UNCHANGED served

-----------------------------------------------------------------------------
(* Changing the credentials: the table first, then the service's memory.     *)
Changing(p) == local[p].at \in {"put", "configure"}

OtherChanging(p) == \E q \in Processes \ {p} : Changing(q)

(* A history update for a change that begins: those it overlaps are no       *)
(* longer quiet.                                                            *)
BeginChange(p, l) ==
    local' = [q \in Processes |->
                 IF q = p THEN [l EXCEPT !.quiet = ~OtherChanging(p)]
                 ELSE IF Changing(q) THEN [local[q] EXCEPT !.quiet = FALSE] ELSE local[q]]

Given(new, old) == IF new = None THEN old ELSE new

(* Mutant of Merged: a stored secret is preferred to the one that was sent. *)
MergedStoredFirst(body) ==
    [id |-> Given(body.id, table.id), secret |-> Given(table.secret, body.secret)]

Merged(body) == [id |-> Given(body.id, table.id), secret |-> Given(body.secret, table.secret)]

(* PUT: empty fields keep what is stored; nothing may be missing then. *)
PutConfig(p) ==
    /\ Serve(p)
    /\ \E body \in Client :
           /\ Configured(Merged(body))
           /\ BeginChange(p, [Idle EXCEPT !.at = "put", !.body = body, !.client = Merged(body)])
    /\ overlapped' = (overlapped \/ OtherChanging(p))
    /\ UNCHANGED <<table, service, manager, revived>>

StoreConfig(p) ==
    /\ At(p, "put")
    /\ table' = [table EXCEPT !.id = Given(local[p].body.id, @),
                              !.secret = Given(local[p].body.secret, @)]
    /\ local' = [local EXCEPT ![p].at = "configure", ![p].body = NoClient]
    /\ UNCHANGED <<service, manager, overlapped, revived, budget>>

(* Mutant of Cleared: a removal keeps the token. *)
ClearedButToken == [id |-> None, secret |-> None, token |-> table.token]

Cleared == [id |-> None, secret |-> None, token |-> None]

(* DELETE: the table's rows, the token's included. *)
DeleteConfig(p) ==
    /\ Serve(p)
    /\ table' = Cleared
    /\ BeginChange(p, [Idle EXCEPT !.at = "configure"])
    /\ overlapped' = (overlapped \/ OtherChanging(p))
    /\ revived' = FALSE
    /\ UNCHANGED <<service, manager>>

(* Mutant of PendingAfter: a code that was asked for survives the change. *)
PendingAfterAnyway(client) == pending

(* A change of the credentials drops the code that was asked for with the    *)
(* old ones.                                                                *)
PendingAfter(client) == IF client # memory THEN None ELSE pending

Configure(p) ==
    /\ At(p, "configure")
    /\ lock = Nobody
    /\ pending' = PendingAfter(local[p].client)
    /\ memory' = local[p].client
    /\ overlapped' = (overlapped /\ ~local[p].quiet)
    /\ Ends(p)
    /\ UNCHANGED <<table, lock, manager, revived, budget>>

-----------------------------------------------------------------------------
(* The requests that authorize, that ask whether the user has entered the    *)
(* code and that ask for a cycle: each has to wait for the mutex.            *)
Ask(p) ==
    /\ Serve(p)
    /\ \E to \in {"authorize", "check", "status"} : Goes(p, to)
    /\ UNCHANGED <<table, service, manager, overlapped, revived>>

(* Device authorization.  Start and Poll hold the mutex until Trakt answers, *)
(* and return at once when there is nothing to ask it for.                   *)
Acquire(p) == lock' = p

(* Mutant of Release: a call that failed leaves the mutex locked. *)
ReleaseUnlessRefused(granted) == lock' = IF granted THEN Nobody ELSE lock

Release(granted) == lock' = Nobody

Start(p) ==
    /\ At(p, "authorize")
    /\ lock = Nobody
    /\ \/ Configured(memory) /\ Acquire(p) /\ Goes(p, "start")
       \/ ~Configured(memory) /\ UNCHANGED lock /\ Ends(p)
    /\ UNCHANGED <<table, memory, pending, manager, overlapped, revived, budget>>

CodeGiven(p) ==
    /\ At(p, "start")
    /\ pending' = memory.id
    /\ Release(TRUE)
    /\ Ends(p)
    /\ UNCHANGED <<table, memory, manager, overlapped, revived, budget>>

Poll(p) ==
    /\ At(p, "check")
    /\ lock = Nobody
    /\ \/ pending # None /\ Acquire(p) /\ Goes(p, "poll")
       \/ pending = None /\ UNCHANGED lock /\ Ends(p)
    /\ UNCHANGED <<table, memory, pending, manager, overlapped, revived, budget>>

(* The user has entered the code, and the secret is the application's. *)
TokenGiven(p) ==
    /\ At(p, "poll")
    /\ memory = [id |-> pending, secret |-> pending]
    /\ local' = [local EXCEPT ![p].at = "persist", ![p].token = pending]
    /\ UNCHANGED <<table, service, manager, overlapped, revived, budget>>

(* He has not, or has refused; a code that was refused or has expired is     *)
(* dropped.                                                                 *)
TokenRefused(p) ==
    /\ At(p, "poll")
    /\ pending' \in {pending, None}
    /\ Release(FALSE)
    /\ Ends(p)
    /\ UNCHANGED <<table, memory, manager, overlapped, revived, budget>>

PersistToken(p) ==
    /\ At(p, "persist")
    /\ table' = [table EXCEPT !.token = local[p].token]
    /\ revived' = (table.id = None)
    /\ local' = [local EXCEPT ![p].at = "stored", ![p].token = None]
    /\ UNCHANGED <<service, manager, overlapped, budget>>

(* Poll reports the service's status and, once connected, asks for a cycle.  *)
Authorized(p) ==
    /\ At(p, "stored")
    /\ pending' = None
    /\ Release(TRUE)
    /\ \/ Configured(memory) /\ table.token # None /\ Goes(p, "trigger")
       \/ ~(Configured(memory) /\ table.token # None) /\ Ends(p)
    /\ UNCHANGED <<table, memory, manager, overlapped, revived, budget>>

Trigger(p) ==
    /\ At(p, "trigger")
    /\ wake' = TRUE
    /\ Ends(p)
    /\ UNCHANGED <<table, service, running, overlapped, revived, budget>>

(* A call to Trakt or the token's transaction fails. *)
AuthorizationFails(p) ==
    /\ local[p].at \in {"start", "poll", "persist"}
    /\ Fails
    /\ Release(FALSE)
    /\ Ends(p)
    /\ UNCHANGED <<table, memory, pending, manager, overlapped, revived>>

-----------------------------------------------------------------------------
(* Cycles.  A request goes on if the service is connected, the manager when  *)
(* its timer fires or it is woken.                                          *)
Connected == Configured(memory) /\ pending = None /\ table.token # None

TraktSyncNow(p) ==
    /\ At(p, "status")
    /\ lock = Nobody
    /\ \/ Connected /\ Goes(p, "sync")
       \/ ~Connected /\ Ends(p)
    /\ UNCHANGED <<table, service, manager, overlapped, revived, budget>>

TimerFires ==
    /\ At(Manager, "idle")
    /\ Goes(Manager, "sync")
    /\ UNCHANGED <<table, service, manager, overlapped, revived, budget>>

Woken ==
    /\ At(Manager, "idle")
    /\ wake
    /\ wake' = FALSE
    /\ Goes(Manager, "sync")
    /\ UNCHANGED <<table, service, running, overlapped, revived, budget>>

(* Mutant of MayClaim: the flag is set and not looked at. *)
MayClaimAnyway == TRUE

MayClaim == ~running

SyncNow(p) ==
    /\ At(p, "sync")
    /\ \/ MayClaim /\ running' = TRUE /\ Goes(p, "token")
       \/ ~MayClaim /\ UNCHANGED running /\ Ends(p)
    /\ UNCHANGED <<table, service, wake, overlapped, revived, budget>>

(* Mutant of Unclaim: a cycle without a token keeps the flag. *)
UnclaimAfterRun(ran) == running' = IF ran THEN FALSE ELSE running

Unclaim(ran) == running' = FALSE

ReadToken(p) ==
    /\ At(p, "token")
    /\ \/ /\ table.token # None
          /\ local' = [local EXCEPT ![p].at = "client", ![p].token = table.token]
          /\ UNCHANGED running
       \/ /\ table.token = None
          /\ Unclaim(FALSE)
          /\ Ends(p)
    /\ UNCHANGED <<table, service, wake, overlapped, revived, budget>>

ReadClient(p) ==
    /\ At(p, "client")
    /\ Goes(p, "run")
    /\ UNCHANGED <<table, service, manager, overlapped, revived, budget>>

(* The cycle itself has ended, whether or not one of its calls failed. *)
FinishCycle(p) ==
    /\ At(p, "run")
    /\ Unclaim(TRUE)
    /\ Ends(p)
    /\ UNCHANGED <<table, service, wake, overlapped, revived, budget>>

(* A statement on the table fails: what began with it ends. *)
StatementFails(p) ==
    /\ Fails
    /\ \/ At(p, "put") /\ UNCHANGED running
       \/ local[p].at \in {"token", "client"} /\ Unclaim(FALSE)
    /\ Ends(p)
    /\ UNCHANGED <<table, service, wake, overlapped, revived>>

-----------------------------------------------------------------------------
(* The process restarts, and reads the table. *)
Restart ==
    /\ Fails
    /\ memory' = Loaded(table)
    /\ pending' = None
    /\ lock' = Nobody
    /\ running' = FALSE
    /\ wake' = FALSE
    /\ local' = [p \in Processes |-> Idle]
    /\ overlapped' = FALSE
    /\ UNCHANGED <<table, revived>>

Arrives(p) == PutConfig(p) \/ DeleteConfig(p) \/ Ask(p)

Authorization(p) ==
    Start(p) \/ Poll(p) \/ PersistToken(p) \/ Authorized(p) \/ Trigger(p)

Cycle(p) == TraktSyncNow(p) \/ SyncNow(p) \/ ReadToken(p) \/ ReadClient(p)

GoesOn(p) == StoreConfig(p) \/ Configure(p) \/ Authorization(p) \/ Cycle(p)

(* What has to wait for Trakt: a code, a token, all the calls of a cycle.    *)
Answered(p) == CodeGiven(p) \/ TokenGiven(p) \/ TokenRefused(p) \/ FinishCycle(p)

Run == TimerFires \/ Woken

Next ==
    \/ \E p \in Processes :
           \/ Arrives(p) \/ GoesOn(p) \/ Answered(p)
           \/ AuthorizationFails(p) \/ StatementFails(p)
    \/ Run \/ Restart

(* Every goroutine is scheduled and the manager's timer fires for ever; no   *)
(* request has to come, and Trakt does not have to answer: the HTTP clients  *)
(* have no time limit.                                                      *)
Spec ==
    /\ Init /\ [][Next]_vars
    /\ \A p \in Processes : WF_vars(GoesOn(p))
    /\ WF_vars(Run)

-----------------------------------------------------------------------------
TypeOK ==
    /\ table \in [id: App, secret: App, token: App]
    /\ memory \in Client
    /\ pending \in App
    /\ lock \in Requests \union {Nobody}
    /\ \A p \in Requests :
           lock = p <=> local[p].at \in {"start", "poll", "persist", "stored"}
    /\ running \in BOOLEAN /\ wake \in BOOLEAN
    /\ local \in [Processes -> Local]
    /\ overlapped \in BOOLEAN /\ revived \in BOOLEAN
    /\ served \in Nat /\ failures \in Nat

InCycle(p) == local[p].at \in {"token", "client", "run"}

(* Cycles never overlap, whoever asks for them, and the flag is never left   *)
(* set behind one: what the other modules take for granted.                 *)
OneCycleAtATime ==
    /\ \A p, q \in Processes : InCycle(p) /\ InCycle(q) => p = q
    /\ running <=> \E p \in Processes : InCycle(p)

(* When no change of the credentials is under way, the service works with    *)
(* those in the table, unless the last changes overlapped.                  *)
OnlyOverlapDiverges ==
    (\A p \in Processes : ~Changing(p)) /\ ~overlapped => memory = Loaded(table)

(* A device code belongs to the application the service is configured for,   *)
(* whatever was changed while Trakt was asked for it.                       *)
CodeIsForClient == pending # None => pending = memory.id /\ memory.secret # None

(* A token without credentials is left only by an authorization that was     *)
(* under way when they were removed.                                        *)
RemovalRemovesToken == table.token # None => table.id # None \/ revived

(* What makes the invariants above inductive.  The manager only runs cycles; *)
(* a code is asked for only while the service is configured; a change that   *)
(* is quiet is the only one under way and brings the table's credentials to  *)
(* the service, and one that is not was overlapped.                         *)
StepInv ==
    /\ local[Manager].at \in {"idle", "sync", "token", "client", "run"}
    /\ \A p \in Requests : At(p, "start") => Configured(memory)

ChangeIsKept(p) ==
    /\ ~local[p].quiet => overlapped
    /\ local[p].quiet => ~OtherChanging(p)
    /\ At(p, "put") /\ ~overlapped => memory = Loaded(table)
    /\ At(p, "put") /\ local[p].quiet => local[p].client = Merged(local[p].body)
    /\ At(p, "configure") /\ local[p].quiet => local[p].client = Loaded(table)

ChangeInv == \A p \in Processes : Changing(p) => ChangeIsKept(p)

IInv ==
    /\ TypeOK /\ StepInv /\ ChangeInv
    /\ OneCycleAtATime /\ OnlyOverlapDiverges /\ CodeIsForClient /\ RemovalRemovesToken

(* Every request is answered, but for those that a call without an end holds *)
(* up: the request that made it and, if it holds the mutex, those that wait  *)
(* for it.  No other path leaves the mutex locked or a waiter forgotten.     *)
Calls(p) == local[p].at \in {"start", "poll", "run"}

Waits(p) == local[p].at \in {"configure", "authorize", "check", "status"}

HeldUp(p) == Calls(p) \/ (Waits(p) /\ lock # Nobody /\ Calls(lock))

RequestsEnd ==
    \A p \in Requests : (~At(p, "idle") ~> At(p, "idle")) \/ <>[]HeldUp(p)

(* A token that stays is used by a cycle: a failed or refused attempt, a     *)
(* wake that was lost or a restart only puts it off, and an authorization    *)
(* that hangs does not; only a cycle of which a call never ends keeps the    *)
(* next from beginning.                                                     *)
TokenIsUsed ==
    \/ \A t \in Apps :
           table.token = t
               ~> (table.token # t \/ \E p \in Processes : At(p, "run") /\ local[p].token = t)
    \/ \E p \in Processes : <>[]At(p, "run")

=============================================================================
