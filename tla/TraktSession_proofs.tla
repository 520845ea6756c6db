-------------------------- MODULE TraktSession_proofs --------------------------
(***************************************************************************)
(* Proofs about TraktSession, for any set of requests and applications and *)
(* any number of requests, failures and restarts.                          *)
(***************************************************************************)
EXTENDS TraktSession, TLAPS

Steps == {"idle", "put", "configure", "authorize", "start", "check", "poll", "persist",
          "stored", "trigger", "status", "sync", "token", "client", "run"}

(* What a process that takes a step changes of what the processes hold. *)
LEMMA IdleType == Idle \in Local /\ NoClient \in Client
  BY DEF Idle, NoClient, Local, Client, App

(* Goes moves a process to another statement and keeps what it holds. *)
LEMMA GoesFacts ==
  ASSUME TypeOK, NEW p \in Processes, NEW to \in Steps, Goes(p, to)
  PROVE  /\ local' \in [Processes -> Local]
         /\ \A q \in Processes \ {p} : local'[q] = local[q]
         /\ local'[p].at = to
         /\ local'[p].client = local[p].client
         /\ local'[p].body = local[p].body
         /\ local'[p].quiet = local[p].quiet
  BY DEF TypeOK, Goes, Local, Steps

(* Ends leaves a process idle and the others alone. *)
LEMMA EndsFacts ==
  ASSUME TypeOK, NEW p \in Processes, Ends(p)
  PROVE  /\ local' \in [Processes -> Local]
         /\ \A q \in Processes \ {p} : local'[q] = local[q]
         /\ local'[p] = Idle
         /\ local'[p].at = "idle"
  BY IdleType DEF TypeOK, Ends, Idle

(* BeginChange starts a change and marks those it overlaps as not quiet. *)
LEMMA BeginFacts ==
  ASSUME TypeOK, NEW p \in Processes, NEW l \in Local, BeginChange(p, l)
  PROVE  /\ local' \in [Processes -> Local]
         /\ \A q \in Processes : q # p => local'[q].at = local[q].at
         /\ local'[p].at = l.at
         /\ local'[p].client = l.client
         /\ local'[p].body = l.body
         /\ local'[p].quiet = ~OtherChanging(p)
         /\ \A q \in Processes : q # p /\ Changing(q) => ~local'[q].quiet
  BY DEF TypeOK, BeginChange, Local, Changing, OtherChanging

-----------------------------------------------------------------------------
(* Types, and what each process can be doing. *)
LEMMA TypeInit == Init => TypeOK /\ StepInv
  <1> SUFFICES ASSUME Init
               PROVE  TypeOK /\ StepInv
    OBVIOUS
  <1>1. /\ local \in [Processes -> Local]
        /\ \A p \in Processes : local[p].at = "idle"
    BY IdleType DEF Init, Idle
  <1>2. memory \in Client
    BY DEF Init, Loaded, Client
  <1> QED BY <1>1, <1>2, ProcessAssumption DEF Init, TypeOK, StepInv, Processes, At, App

(* Every step keeps the types and what each process can be doing. *)
LEMMA TypeStep ==
  ASSUME TypeOK, StepInv, [Next]_vars
  PROVE  TypeOK' /\ StepInv'
  <1> USE ProcessAssumption, AppsAssumption DEF At, Processes
  <1>1. ASSUME NEW p \in Processes, PutConfig(p)
        PROVE  TypeOK' /\ StepInv'
    <2>1. PICK body \in Client :
              BeginChange(p, [Idle EXCEPT !.at = "put", !.body = body, !.client = Merged(body)])
      BY <1>1 DEF PutConfig
    <2>2. Merged(body) \in Client
      BY DEF TypeOK, Merged, Given, Client
    <2>3. [Idle EXCEPT !.at = "put", !.body = body, !.client = Merged(body)] \in Local
      BY <2>2, IdleType DEF Idle, Local
    <2> DEFINE l == [Idle EXCEPT !.at = "put", !.body = body, !.client = Merged(body)]
    <2>4. l.at = "put"
      BY DEF Idle
    <2> HIDE DEF l
    <2>5. /\ local' \in [Processes -> Local]
          /\ local'[p].at = "put"
          /\ \A q \in Processes : q # p => local'[q].at = local[q].at
      BY <2>1, <2>3, <2>4, BeginFacts DEF l
    <2> QED BY <1>1, <2>5 DEF PutConfig, Serve, TypeOK, StepInv, OtherChanging, Changing, service, manager
  <1>2. ASSUME NEW p \in Processes, DeleteConfig(p)
        PROVE  TypeOK' /\ StepInv'
    <2> DEFINE l == [Idle EXCEPT !.at = "configure"]
    <2>1. l \in Local /\ l.at = "configure"
      BY IdleType DEF Idle, Local
    <2>2. BeginChange(p, l)
      BY <1>2 DEF DeleteConfig
    <2> HIDE DEF l
    <2>3. /\ local' \in [Processes -> Local]
          /\ local'[p].at = "configure"
          /\ \A q \in Processes : q # p => local'[q].at = local[q].at
      BY <2>1, <2>2, BeginFacts
    <2>4. table' \in [id: App, secret: App, token: App]
      BY <1>2 DEF DeleteConfig, Cleared, App
    <2>5. /\ p \in Requests /\ local[p].at = "idle" /\ served' \in Nat
          /\ overlapped' \in BOOLEAN /\ revived' = FALSE
          /\ UNCHANGED <<memory, pending, lock, running, wake, failures>>
      BY <1>2 DEF DeleteConfig, Serve, TypeOK, service, manager, OtherChanging
    <2> QED BY <2>3, <2>4, <2>5 DEF TypeOK, StepInv, Configured
  <1>3. ASSUME NEW p \in Processes, Ask(p)
        PROVE  TypeOK' /\ StepInv'
    BY <1>3, GoesFacts DEF Ask, Serve, service, manager, Steps, TypeOK, StepInv
  <1>4. ASSUME NEW p \in Processes, Start(p) \/ Poll(p)
        PROVE  TypeOK' /\ StepInv'
    <2>1. p \in Requests /\ lock = Nobody /\ local[p].at \in {"authorize", "check"}
      BY <1>4 DEF Start, Poll, StepInv
    <2>2. CASE Ends(p) /\ UNCHANGED lock
      BY <1>4, <2>1, <2>2, EndsFacts DEF Start, Poll, manager, budget, TypeOK, StepInv
    <2>3. CASE Acquire(p) /\ Goes(p, "start") /\ Configured(memory)
      BY <1>4, <2>1, <2>3, GoesFacts DEF Start, Poll, Acquire, manager, budget, Steps, TypeOK,
                                         StepInv
    <2>4. CASE Acquire(p) /\ Goes(p, "poll")
      BY <1>4, <2>1, <2>4, GoesFacts DEF Start, Poll, Acquire, manager, budget, Steps, TypeOK,
                                         StepInv
    <2> QED BY <1>4, <2>2, <2>3, <2>4 DEF Start, Poll
  <1>5. ASSUME NEW p \in Processes, TraktSyncNow(p)
        PROVE  TypeOK' /\ StepInv'
    <2>1. CASE Goes(p, "sync")
      BY <1>5, <2>1, GoesFacts DEF TraktSyncNow, service, manager, budget, Steps, TypeOK, StepInv
    <2>2. CASE Ends(p)
      BY <1>5, <2>2, EndsFacts DEF TraktSyncNow, service, manager, budget, TypeOK, StepInv
    <2> QED BY <1>5, <2>1, <2>2 DEF TraktSyncNow
  <1>6. ASSUME NEW p \in Processes, StoreConfig(p)
        PROVE  TypeOK' /\ StepInv'
    <2>1. table' \in [id: App, secret: App, token: App]
      BY <1>6 DEF StoreConfig, TypeOK, Local, Client, Given
    <2>2. /\ local' \in [Processes -> Local]
          /\ local'[p].at = "configure"
          /\ \A q \in Processes : q # p => local'[q] = local[q]
      BY <1>6, IdleType DEF StoreConfig, TypeOK, Local
    <2> QED BY <1>6, <2>1, <2>2 DEF StoreConfig, service, manager, budget, TypeOK, StepInv
  <1>7. ASSUME NEW p \in Processes, Configure(p)
        PROVE  TypeOK' /\ StepInv'
    <2>1. local[p].client \in Client
      BY DEF TypeOK, Local
    <2>2. pending' \in App
      BY <1>7 DEF Configure, PendingAfter, TypeOK, App
    <2>3. /\ local' \in [Processes -> Local]
          /\ local'[p].at = "idle"
          /\ \A q \in Processes : q # p => local'[q] = local[q]
      BY <1>7, EndsFacts DEF Configure
    <2>4. overlapped' \in BOOLEAN
      BY <1>7 DEF Configure
    <2> QED BY <1>7, <2>1, <2>2, <2>3, <2>4 DEF Configure, manager, budget, TypeOK, StepInv
  <1>8. ASSUME NEW p \in Processes, CodeGiven(p)
        PROVE  TypeOK' /\ StepInv'
    BY <1>8, EndsFacts DEF CodeGiven, manager, budget, Release, Client, TypeOK, StepInv
  <1>9. ASSUME NEW p \in Processes, TokenGiven(p)
        PROVE  TypeOK' /\ StepInv'
    BY <1>9, IdleType DEF TokenGiven, service, manager, budget, Local, TypeOK, StepInv
  <1>10. ASSUME NEW p \in Processes, TokenRefused(p)
        PROVE  TypeOK' /\ StepInv'
    BY <1>10, EndsFacts DEF TokenRefused, manager, budget, Release, App, TypeOK, StepInv
  <1>11. ASSUME NEW p \in Processes, PersistToken(p)
        PROVE  TypeOK' /\ StepInv'
    BY <1>11, IdleType DEF PersistToken, service, manager, budget, Local, App, TypeOK, StepInv
  <1>12. ASSUME NEW p \in Processes, Authorized(p)
        PROVE  TypeOK' /\ StepInv'
    BY <1>12, EndsFacts, GoesFacts DEF Authorized, manager, budget, Release, App, Steps, TypeOK, StepInv
  <1>13. ASSUME NEW p \in Processes, Trigger(p)
        PROVE  TypeOK' /\ StepInv'
    BY <1>13, EndsFacts DEF Trigger, service, budget, TypeOK, StepInv
  <1>14. ASSUME NEW p \in Processes, SyncNow(p)
        PROVE  TypeOK' /\ StepInv'
    <2>1. CASE Goes(p, "token") /\ running' = TRUE
      BY <1>14, <2>1, GoesFacts DEF SyncNow, service, budget, Steps, TypeOK, StepInv
    <2>2. CASE Ends(p) /\ UNCHANGED running
      BY <1>14, <2>2, EndsFacts DEF SyncNow, service, budget, TypeOK, StepInv
    <2> QED BY <1>14, <2>1, <2>2 DEF SyncNow
  <1>15. ASSUME NEW p \in Processes, ReadToken(p)
        PROVE  TypeOK' /\ StepInv'
    <2>1. CASE table.token # None
      <3>1. /\ local' \in [Processes -> Local]
            /\ local'[p].at = "client"
            /\ \A q \in Processes : q # p => local'[q] = local[q]
        <4>1. local' = [local EXCEPT ![p].at = "client", ![p].token = table.token]
          BY <1>15, <2>1 DEF ReadToken
        <4>2. table.token \in App
          BY DEF TypeOK
        <4> QED BY <4>1, <4>2 DEF TypeOK, Local
      <3> QED BY <1>15, <2>1, <3>1 DEF ReadToken, service, budget, TypeOK, StepInv
    <2>2. CASE table.token = None
      BY <1>15, <2>2, EndsFacts DEF ReadToken, Unclaim, service, budget, TypeOK, StepInv
    <2> QED BY <2>1, <2>2
  <1>16. ASSUME NEW p \in Processes, ReadClient(p)
        PROVE  TypeOK' /\ StepInv'
    BY <1>16, GoesFacts DEF ReadClient, service, manager, budget, Steps, TypeOK, StepInv
  <1>17. ASSUME NEW p \in Processes, FinishCycle(p)
        PROVE  TypeOK' /\ StepInv'
    BY <1>17, EndsFacts DEF FinishCycle, service, budget, Unclaim, TypeOK, StepInv
  <1>18. ASSUME NEW p \in Processes, AuthorizationFails(p)
        PROVE  TypeOK' /\ StepInv'
    BY <1>18, EndsFacts DEF AuthorizationFails, Fails, Release, manager, TypeOK, StepInv
  <1>19. ASSUME NEW p \in Processes, StatementFails(p)
        PROVE  TypeOK' /\ StepInv'
    <2>1. Ends(p) /\ running' \in BOOLEAN
      BY <1>19 DEF StatementFails, Unclaim, TypeOK
    <2>2. /\ local' \in [Processes -> Local]
          /\ local'[p].at = "idle"
          /\ \A q \in Processes : q # p => local'[q] = local[q]
      BY <2>1, EndsFacts
    <2>3. local[p].at \in {"put", "token", "client"}
      BY <1>19 DEF StatementFails
    <2>4. failures' \in Nat
      BY <1>19 DEF StatementFails, Fails, TypeOK
    <2>5. UNCHANGED <<table, memory, pending, lock, wake, overlapped, revived, served>>
      BY <1>19 DEF StatementFails, Fails, service
    <2> QED BY <2>1, <2>2, <2>3, <2>4, <2>5 DEF TypeOK, StepInv, Configured
  <1>20. CASE TimerFires
    <2>1. /\ local' \in [Processes -> Local]
          /\ local'[Manager].at = "sync"
          /\ \A q \in Requests : local'[q] = local[q]
      BY <1>20, GoesFacts DEF TimerFires, Steps
    <2> QED BY <1>20, <2>1 DEF TimerFires, service, manager, budget, TypeOK, StepInv
  <1>21. CASE Woken
    <2>1. /\ local' \in [Processes -> Local]
          /\ local'[Manager].at = "sync"
          /\ \A q \in Requests : local'[q] = local[q]
      BY <1>21, GoesFacts DEF Woken, Steps
    <2> QED BY <1>21, <2>1 DEF Woken, service, budget, TypeOK, StepInv
  <1>22. CASE Restart
    <2>1. /\ local' \in [Processes -> Local]
          /\ \A p \in Processes : local'[p].at = "idle"
      BY <1>22, IdleType DEF Restart, Idle
    <2>2. memory' \in Client
      BY <1>22 DEF Restart, Loaded, Client, TypeOK
    <2>3. /\ failures' \in Nat
          /\ lock' = Nobody /\ pending' = None
          /\ running' = FALSE /\ wake' = FALSE /\ overlapped' = FALSE
          /\ UNCHANGED <<table, revived, served>>
      BY <1>22 DEF Restart, Fails, TypeOK
    <2> QED BY <2>1, <2>2, <2>3 DEF TypeOK, StepInv, App
  <1>23. CASE UNCHANGED vars
    BY <1>23 DEF vars, service, manager, budget, TypeOK, StepInv, Configured
  <1> QED
    BY <1>1, <1>2, <1>3, <1>4, <1>5, <1>6, <1>7, <1>8, <1>9, <1>10, <1>11, <1>12, <1>13, <1>14, <1>15, <1>16, <1>17, <1>18, <1>19, <1>20, <1>21, <1>22, <1>23
    DEF Next, Arrives, GoesOn, Answered, Authorization, Cycle, Run

(* Every action keeps the types, whatever requests and calls interleave. *)
THEOREM TypeCorrect == Spec => []TypeOK
  <1>1. Init => TypeOK /\ StepInv
    BY TypeInit
  <1>2. TypeOK /\ StepInv /\ [Next]_vars => (TypeOK /\ StepInv)'
    BY TypeStep
  <1> QED BY <1>1, <1>2, PTL DEF Spec

-----------------------------------------------------------------------------
(* A device code belongs to the configured application. *)
LEMMA CodeStep ==
  ASSUME TypeOK, StepInv, CodeIsForClient, [Next]_vars
  PROVE  CodeIsForClient'
  <1>1. CASE UNCHANGED <<memory, pending>>
    BY <1>1 DEF CodeIsForClient
  <1>2. ASSUME NEW p \in Processes, Configure(p)
        PROVE  CodeIsForClient'
    <2>1. CASE local[p].client = memory
      BY <1>2, <2>1 DEF Configure, PendingAfter, CodeIsForClient
    <2>2. CASE local[p].client # memory
      BY <1>2, <2>2 DEF Configure, PendingAfter, CodeIsForClient
    <2> QED BY <2>1, <2>2
  <1>3. ASSUME NEW p \in Processes, CodeGiven(p)
        PROVE  CodeIsForClient'
    <2>1. p \in Requests /\ Configured(memory)
      BY <1>3 DEF CodeGiven, StepInv, At, Processes
    <2> QED BY <1>3, <2>1 DEF CodeGiven, CodeIsForClient, Configured
  <1>4. ASSUME NEW p \in Processes, TokenRefused(p) \/ Authorized(p)
        PROVE  CodeIsForClient'
    BY <1>4 DEF TokenRefused, Authorized, CodeIsForClient
  <1>5. CASE Restart
    BY <1>5 DEF Restart, CodeIsForClient
  <1>6. ASSUME NEW p \in Processes,
               \/ Arrives(p) \/ StoreConfig(p) \/ Start(p) \/ Poll(p) \/ TokenGiven(p)
               \/ PersistToken(p) \/ Trigger(p) \/ Cycle(p) \/ FinishCycle(p)
               \/ AuthorizationFails(p) \/ StatementFails(p)
        PROVE  UNCHANGED <<memory, pending>>
    BY <1>6 DEF Arrives, PutConfig, DeleteConfig, Ask, Start, Poll, TraktSyncNow, StoreConfig,
       TokenGiven, PersistToken, Trigger, Cycle, SyncNow, ReadToken, ReadClient, FinishCycle,
       AuthorizationFails, StatementFails, service
  <1>7. Run \/ UNCHANGED vars => UNCHANGED <<memory, pending>>
    BY DEF Run, TimerFires, Woken, vars, service
  <1> QED BY <1>1, <1>2, <1>3, <1>4, <1>5, <1>6, <1>7
    DEF Next, GoesOn, Answered, Authorization

(* A token without credentials was stored after their removal. *)
LEMMA RemovalStep ==
  ASSUME TypeOK, RemovalRemovesToken, [Next]_vars
  PROVE  RemovalRemovesToken'
  <1>1. CASE UNCHANGED <<table, revived>>
    BY <1>1 DEF RemovalRemovesToken
  <1>2. ASSUME NEW p \in Processes, StoreConfig(p)
        PROVE  RemovalRemovesToken'
    <2>1. /\ table'.token = table.token
          /\ table'.id = Given(local[p].body.id, table.id)
          /\ revived' = revived
      BY <1>2 DEF StoreConfig, TypeOK
    <2> QED BY <2>1 DEF RemovalRemovesToken, Given
  <1>3. ASSUME NEW p \in Processes, DeleteConfig(p)
        PROVE  RemovalRemovesToken'
    BY <1>3 DEF DeleteConfig, Cleared, RemovalRemovesToken
  <1>4. ASSUME NEW p \in Processes, PersistToken(p)
        PROVE  RemovalRemovesToken'
    <2>1. table'.id = table.id /\ revived' = (table.id = None)
      BY <1>4 DEF PersistToken, TypeOK
    <2> QED BY <2>1 DEF RemovalRemovesToken
  <1>5. ASSUME NEW p \in Processes,
               \/ PutConfig(p) \/ Ask(p) \/ Start(p) \/ Poll(p) \/ Configure(p)
               \/ Answered(p) \/ Authorized(p) \/ Trigger(p) \/ Cycle(p)
               \/ AuthorizationFails(p) \/ StatementFails(p)
        PROVE  UNCHANGED <<table, revived>>
    BY <1>5 DEF PutConfig, Ask, Start, Poll, TraktSyncNow, Configure, Answered, CodeGiven,
       TokenGiven, TokenRefused, Authorized, Trigger, Cycle, SyncNow, ReadToken, ReadClient,
       FinishCycle, AuthorizationFails, StatementFails
  <1>6. Run \/ Restart \/ UNCHANGED vars => UNCHANGED <<table, revived>>
    BY DEF Run, TimerFires, Woken, Restart, vars
  <1> QED BY <1>1, <1>2, <1>3, <1>4, <1>5, <1>6 DEF Next, Arrives, GoesOn, Authorization

-----------------------------------------------------------------------------
(* Cycles never overlap. *)

(* What the steps outside a cycle change of it: nothing. *)
LEMMA OutsideCycle ==
  ASSUME TypeOK, StepInv, NEW p \in Processes,
         \/ Arrives(p) \/ StoreConfig(p) \/ Configure(p) \/ Authorization(p)
         \/ TraktSyncNow(p) \/ CodeGiven(p) \/ TokenGiven(p) \/ TokenRefused(p)
         \/ AuthorizationFails(p) \/ (StatementFails(p) /\ At(p, "put"))
         \/ (p = Manager /\ Run)
  PROVE  /\ UNCHANGED running
         /\ \A q \in Processes : InCycle(q)' <=> InCycle(q)
  <1> USE DEF At
  <1>1. ASSUME UNCHANGED running, ~InCycle(p), ~InCycle(p)',
               \A q \in Processes : q # p => local'[q].at = local[q].at
        PROVE  UNCHANGED running /\ \A q \in Processes : InCycle(q)' <=> InCycle(q)
    BY <1>1 DEF InCycle
  <1>2. CASE PutConfig(p)
    <2>1. PICK body \in Client :
              BeginChange(p, [Idle EXCEPT !.at = "put", !.body = body, !.client = Merged(body)])
      BY <1>2 DEF PutConfig
    <2>2. \A q \in Processes : q # p => local'[q].at = local[q].at
      BY <2>1 DEF BeginChange, TypeOK, Changing, Local
    <2>3. local'[p].at = "put"
      BY <2>1 DEF BeginChange, Idle
    <2> QED BY <1>1, <1>2, <2>2, <2>3 DEF PutConfig, Serve, InCycle, manager
  <1>3. CASE DeleteConfig(p)
    <2>1. \A q \in Processes : q # p => local'[q].at = local[q].at
      BY <1>3 DEF DeleteConfig, BeginChange, TypeOK, Changing, Local
    <2>2. local'[p].at = "configure"
      BY <1>3 DEF DeleteConfig, BeginChange, Idle
    <2> QED BY <1>1, <1>3, <2>1, <2>2 DEF DeleteConfig, Serve, InCycle, manager
  <1>4. CASE Ask(p) \/ Start(p) \/ Poll(p) \/ TraktSyncNow(p)
    <2>1. UNCHANGED running /\ ~InCycle(p)
      BY <1>4 DEF Ask, Serve, Start, Poll, TraktSyncNow, InCycle, manager
    <2>2. Ends(p) \/ \E to \in {"authorize", "check", "status", "start", "poll", "sync"} : Goes(p, to)
      BY <1>4 DEF Ask, Start, Poll, TraktSyncNow
    <2> QED BY <1>1, <2>1, <2>2, EndsFacts, GoesFacts DEF InCycle, Steps
  <1>5. CASE StoreConfig(p) \/ TokenGiven(p) \/ PersistToken(p)
    <2>1. /\ \A q \in Processes : q # p => local'[q] = local[q]
          /\ local'[p].at \in {"configure", "persist", "stored"}
      BY <1>5 DEF StoreConfig, TokenGiven, PersistToken, TypeOK, Local
    <2>2. UNCHANGED running /\ ~InCycle(p)
      BY <1>5 DEF StoreConfig, TokenGiven, PersistToken, InCycle, manager
    <2> QED BY <1>1, <2>1, <2>2 DEF InCycle
  <1>6. CASE Configure(p) \/ CodeGiven(p) \/ TokenRefused(p) \/ Trigger(p) \/ AuthorizationFails(p)
             \/ (StatementFails(p) /\ At(p, "put"))
    <2>1. Ends(p) /\ UNCHANGED running /\ ~InCycle(p)
      BY <1>6 DEF Configure, CodeGiven, TokenRefused, Trigger, AuthorizationFails, StatementFails,
         InCycle, manager
    <2> QED BY <1>1, <2>1, EndsFacts DEF InCycle
  <1>7. CASE Authorized(p)
    BY <1>1, <1>7, EndsFacts, GoesFacts DEF Authorized, InCycle, manager, Steps
  <1>8. CASE p = Manager /\ Run
    BY <1>1, <1>8, GoesFacts DEF Run, TimerFires, Woken, InCycle, manager, Steps
  <1> QED BY <1>2, <1>3, <1>4, <1>5, <1>6, <1>7, <1>8 DEF Arrives, Authorization

(* SyncNow's compare-and-swap and its deferred release, step by step. *)
LEMMA CycleStep ==
  ASSUME TypeOK, StepInv, OneCycleAtATime, [Next]_vars
  PROVE  OneCycleAtATime'
  <1> USE DEF At
  <1>1. ASSUME UNCHANGED running, \A q \in Processes : InCycle(q)' <=> InCycle(q)
        PROVE  OneCycleAtATime'
    BY <1>1 DEF OneCycleAtATime
  <1>2. ASSUME NEW p \in Processes,
               \/ Arrives(p) \/ StoreConfig(p) \/ Configure(p) \/ Authorization(p)
               \/ TraktSyncNow(p) \/ CodeGiven(p) \/ TokenGiven(p) \/ TokenRefused(p)
               \/ AuthorizationFails(p) \/ (StatementFails(p) /\ At(p, "put"))
               \/ (p = Manager /\ Run)
        PROVE  OneCycleAtATime'
    BY <1>1, <1>2, OutsideCycle
  <1>3. ASSUME NEW p \in Processes, SyncNow(p)
        PROVE  OneCycleAtATime'
    <2>1. CASE MayClaim /\ running' = TRUE /\ Goes(p, "token")
      <3>1. \A q \in Processes : ~InCycle(q)
        BY <2>1 DEF MayClaim, OneCycleAtATime
      <3>2. \A q \in Processes : InCycle(q)' <=> q = p
        BY <2>1, <3>1, GoesFacts DEF InCycle, Steps
      <3> QED BY <2>1, <3>2 DEF OneCycleAtATime
    <2>2. CASE UNCHANGED running /\ Ends(p)
      <3>1. \A q \in Processes : InCycle(q)' <=> InCycle(q)
        BY <1>3, <2>2, EndsFacts DEF SyncNow, InCycle
      <3> QED BY <1>1, <2>2, <3>1
    <2> QED BY <1>3, <2>1, <2>2 DEF SyncNow
  <1>4. ASSUME NEW p \in Processes, InCycle(p), running' = FALSE, Ends(p)
        PROVE  OneCycleAtATime'
    <2>1. \A q \in Processes : ~InCycle(q)'
      BY <1>4, EndsFacts DEF InCycle, OneCycleAtATime
    <2> QED BY <1>4, <2>1 DEF OneCycleAtATime
  <1>5. ASSUME NEW p \in Processes, ReadToken(p)
        PROVE  OneCycleAtATime'
    <2>1. CASE table.token # None
      <3>1. /\ UNCHANGED running
            /\ local' = [local EXCEPT ![p].at = "client", ![p].token = table.token]
        BY <1>5, <2>1 DEF ReadToken
      <3>2. \A q \in Processes : InCycle(q)' <=> InCycle(q)
        BY <1>5, <3>1 DEF ReadToken, InCycle, TypeOK, Local
      <3> QED BY <1>1, <3>1, <3>2
    <2>2. CASE table.token = None
      BY <1>4, <1>5, <2>2 DEF ReadToken, Unclaim, InCycle
    <2> QED BY <2>1, <2>2
  <1>6. ASSUME NEW p \in Processes, ReadClient(p)
        PROVE  OneCycleAtATime'
    <2>1. \A q \in Processes : InCycle(q)' <=> InCycle(q)
      BY <1>6, GoesFacts DEF ReadClient, InCycle, Steps
    <2> QED BY <1>1, <1>6, <2>1 DEF ReadClient, manager
  <1>7. ASSUME NEW p \in Processes, FinishCycle(p) \/ (StatementFails(p) /\ ~At(p, "put"))
        PROVE  OneCycleAtATime'
    BY <1>4, <1>7 DEF FinishCycle, StatementFails, Unclaim, InCycle
  <1>8. CASE Restart
    <2>1. \A q \in Processes : ~InCycle(q)'
      BY <1>8 DEF Restart, InCycle, Idle
    <2> QED BY <1>8, <2>1 DEF Restart, OneCycleAtATime
  <1>9. CASE UNCHANGED vars
    BY <1>1, <1>9 DEF vars, manager, InCycle
  <1>10. Manager \in Processes
    BY DEF Processes
  <1> QED BY <1>2, <1>3, <1>5, <1>6, <1>7, <1>8, <1>9, <1>10
    DEF Next, GoesOn, Answered, Cycle

-----------------------------------------------------------------------------
(* The service and the table agree unless changes of them overlapped. *)
(* A step that leaves the changes under way, the service's memory and the    *)
(* table's credentials alone keeps both parts.                              *)
LEMMA Bystander ==
  ASSUME TypeOK, ChangeInv, OnlyOverlapDiverges,
         UNCHANGED <<memory, overlapped, table.id, table.secret>>,
         \A q \in Processes : Changing(q)' \/ Changing(q) => local'[q] = local[q]
  PROVE  ChangeInv' /\ OnlyOverlapDiverges'
  <1>1. \A q \in Processes : Changing(q)' <=> Changing(q)
    BY DEF Changing
  <1>2. Loaded(table)' = Loaded(table)
    BY DEF Loaded
  <1>3. OnlyOverlapDiverges'
    BY <1>1, <1>2 DEF OnlyOverlapDiverges
  <1>4. ASSUME NEW q \in Processes, Changing(q)'
        PROVE  /\ Changing(q) /\ local'[q] = local[q]
               /\ OtherChanging(q)' <=> OtherChanging(q)
    BY <1>1, <1>4 DEF OtherChanging
  <1>5. ASSUME NEW q \in Processes, Changing(q)'
        PROVE  ChangeIsKept(q)'
    BY <1>2, <1>4, <1>5 DEF ChangeInv, ChangeIsKept, At, Merged
  <1>6. ChangeInv'
    BY <1>5 DEF ChangeInv
  <1> QED BY <1>3, <1>6

(* Each step of a change keeps what is known of the others under way. *)
LEMMA ChangeStep ==
  ASSUME TypeOK, StepInv, ChangeInv, OnlyOverlapDiverges, [Next]_vars
  PROVE  ChangeInv' /\ OnlyOverlapDiverges'
  <1> USE DEF At
  <1>1. ASSUME NEW p \in Processes, PutConfig(p)
        PROVE  ChangeInv' /\ OnlyOverlapDiverges'
    <2>1. PICK body \in Client :
              BeginChange(p, [Idle EXCEPT !.at = "put", !.body = body, !.client = Merged(body)])
      BY <1>1 DEF PutConfig
    <2> DEFINE l == [Idle EXCEPT !.at = "put", !.body = body, !.client = Merged(body)]
    <2>2. l \in Local /\ l.at = "put" /\ l.body = body /\ l.client = Merged(body)
      <3>1. Merged(body) \in Client
        BY DEF TypeOK, Merged, Given, Client
      <3> QED BY <3>1, IdleType DEF Idle, Local
    <2>3. BeginChange(p, l)
      BY <2>1
    <2> HIDE DEF l
    <2>4. /\ \A q \in Processes : q # p => local'[q].at = local[q].at
          /\ local'[p].at = "put"
          /\ local'[p].body = body /\ local'[p].client = Merged(body)
          /\ local'[p].quiet = ~OtherChanging(p)
          /\ \A q \in Processes : q # p /\ Changing(q) => ~local'[q].quiet
      BY <2>2, <2>3, BeginFacts
    <2>5. ~Changing(p) /\ UNCHANGED <<table, memory>>
      BY <1>1 DEF PutConfig, Serve, Changing, service
    <2>6. overlapped' <=> overlapped \/ OtherChanging(p)
      BY <1>1 DEF PutConfig
    <2>7. \A q \in Processes : Changing(q)' <=> q = p \/ Changing(q)
      BY <2>4, <2>5 DEF Changing
    <2>8. OnlyOverlapDiverges'
      BY <2>7 DEF OnlyOverlapDiverges
    <2>9. OtherChanging(p)' <=> OtherChanging(p)
      BY <2>7 DEF OtherChanging
    <2>10. ASSUME NEW q \in Processes, q # p, Changing(q)
           PROVE  overlapped' /\ ~local'[q].quiet
      BY <2>4, <2>6, <2>10 DEF OtherChanging
    <2>11. ~overlapped' => memory = Loaded(table)
      BY <2>5, <2>6 DEF OnlyOverlapDiverges, OtherChanging
    <2>12. ChangeInv'
      <3> SUFFICES ASSUME NEW q \in Processes, Changing(q)'
                   PROVE  ChangeIsKept(q)'
        BY DEF ChangeInv
      <3>1. CASE q = p
        BY <2>4, <2>5, <2>6, <2>9, <2>11, <3>1 DEF ChangeIsKept, Loaded, Merged
      <3>2. CASE q # p
        <4>1. overlapped' /\ ~local'[q].quiet
          BY <2>7, <2>10, <3>2
        <4> QED BY <4>1 DEF ChangeIsKept
      <3> QED BY <3>1, <3>2
    <2> QED BY <2>8, <2>12
  <1>2. ASSUME NEW p \in Processes, DeleteConfig(p)
        PROVE  ChangeInv' /\ OnlyOverlapDiverges'
    <2> DEFINE l == [Idle EXCEPT !.at = "configure"]
    <2>1. l \in Local /\ l.at = "configure" /\ l.client = NoClient
      BY IdleType DEF Idle, Local
    <2>2. BeginChange(p, l)
      BY <1>2 DEF DeleteConfig
    <2> HIDE DEF l
    <2>3. /\ \A q \in Processes : q # p => local'[q].at = local[q].at
          /\ local'[p].at = "configure"
          /\ local'[p].client = NoClient
          /\ local'[p].quiet = ~OtherChanging(p)
          /\ \A q \in Processes : q # p /\ Changing(q) => ~local'[q].quiet
      BY <2>1, <2>2, BeginFacts
    <2>4. ~Changing(p) /\ Loaded(table)' = NoClient
      BY <1>2 DEF DeleteConfig, Serve, Changing, Cleared, Loaded, NoClient
    <2>5. overlapped' <=> overlapped \/ OtherChanging(p)
      BY <1>2 DEF DeleteConfig
    <2>6. \A q \in Processes : Changing(q)' <=> q = p \/ Changing(q)
      BY <2>3, <2>4 DEF Changing
    <2>7. OnlyOverlapDiverges'
      BY <2>6 DEF OnlyOverlapDiverges
    <2>8. OtherChanging(p)' <=> OtherChanging(p)
      BY <2>6 DEF OtherChanging
    <2>9. ASSUME NEW q \in Processes, q # p, Changing(q)
          PROVE  overlapped' /\ ~local'[q].quiet
      BY <2>3, <2>5, <2>9 DEF OtherChanging
    <2>10. ChangeInv'
      <3> SUFFICES ASSUME NEW q \in Processes, Changing(q)'
                   PROVE  ChangeIsKept(q)'
        BY DEF ChangeInv
      <3>1. CASE q = p
        BY <2>3, <2>4, <2>5, <2>8, <3>1 DEF ChangeIsKept, Loaded
      <3>2. CASE q # p
        BY <2>6, <2>9, <3>2 DEF ChangeIsKept
      <3> QED BY <3>1, <3>2
    <2> QED BY <2>7, <2>10
  <1>3. ASSUME NEW p \in Processes, StoreConfig(p)
        PROVE  ChangeInv' /\ OnlyOverlapDiverges'
    <2>1. /\ \A q \in Processes : q # p => local'[q] = local[q]
          /\ local'[p].at = "configure"
          /\ local'[p].client = local[p].client
          /\ local'[p].quiet = local[p].quiet
      BY <1>3 DEF StoreConfig, TypeOK, Local
    <2>2. local[p].at = "put" /\ UNCHANGED <<memory, overlapped>>
      BY <1>3 DEF StoreConfig, service
    <2>3. Loaded(table)' = Merged(local[p].body)
      BY <1>3 DEF StoreConfig, TypeOK, Loaded, Merged
    <2>4. \A q \in Processes : Changing(q)' <=> Changing(q)
      BY <2>1, <2>2 DEF Changing
    <2>5. \A q \in Processes : OtherChanging(q)' <=> OtherChanging(q)
      BY <2>4 DEF OtherChanging
    <2>6. Changing(p)
      BY <2>2 DEF Changing
    <2>7. OnlyOverlapDiverges'
      BY <2>4, <2>6 DEF OnlyOverlapDiverges
    <2>8. ASSUME NEW q \in Processes, q # p, Changing(q)
          PROVE  overlapped /\ ~local[q].quiet
      BY <2>6, <2>8 DEF ChangeInv, ChangeIsKept, OtherChanging
    <2>9. ChangeInv'
      <3> SUFFICES ASSUME NEW q \in Processes, Changing(q)'
                   PROVE  ChangeIsKept(q)'
        BY DEF ChangeInv
      <3>1. CASE q = p
        BY <2>1, <2>2, <2>3, <2>5, <2>6, <3>1 DEF ChangeInv, ChangeIsKept, Loaded
      <3>2. CASE q # p
        BY <2>1, <2>2, <2>4, <2>8, <3>2 DEF ChangeIsKept
      <3> QED BY <3>1, <3>2
    <2> QED BY <2>7, <2>9
  <1>4. ASSUME NEW p \in Processes, Configure(p)
        PROVE  ChangeInv' /\ OnlyOverlapDiverges'
    <2>1. /\ \A q \in Processes : q # p => local'[q] = local[q]
          /\ local'[p].at = "idle"
      BY <1>4, EndsFacts DEF Configure
    <2>2. /\ local[p].at = "configure" /\ memory' = local[p].client
          /\ table' = table
          /\ overlapped' <=> overlapped /\ ~local[p].quiet
      BY <1>4 DEF Configure
    <2>3. Changing(p)
      BY <2>2 DEF Changing
    <2>4. \A q \in Processes : Changing(q)' <=> q # p /\ Changing(q)
      BY <2>1 DEF Changing
    <2>5. CASE local[p].quiet
      <3>1. \A q \in Processes : ~Changing(q)'
        BY <2>3, <2>4, <2>5 DEF ChangeInv, ChangeIsKept, OtherChanging
      <3>2. memory' = Loaded(table)'
        BY <2>2, <2>3, <2>5 DEF ChangeInv, ChangeIsKept, Loaded
      <3> QED BY <3>1, <3>2 DEF ChangeInv, ChangeIsKept, OnlyOverlapDiverges
    <2>6. CASE ~local[p].quiet
      <3>1. overlapped /\ overlapped'
        BY <2>2, <2>3, <2>6 DEF ChangeInv, ChangeIsKept
      <3>2. ASSUME NEW q \in Processes, q # p, Changing(q)
            PROVE  ~local'[q].quiet
        BY <2>1, <2>3, <3>2 DEF ChangeInv, ChangeIsKept, OtherChanging
      <3> QED BY <2>4, <3>1, <3>2 DEF ChangeInv, ChangeIsKept, OnlyOverlapDiverges
    <2> QED BY <2>5, <2>6
  <1>5. ASSUME NEW p \in Processes, StatementFails(p), local[p].at = "put"
        PROVE  ChangeInv' /\ OnlyOverlapDiverges'
    <2>1. /\ \A q \in Processes : q # p => local'[q] = local[q]
          /\ local'[p].at = "idle"
      BY <1>5, EndsFacts DEF StatementFails
    <2>2. UNCHANGED <<memory, overlapped, table>>
      BY <1>5 DEF StatementFails, service
    <2>3. Changing(p)
      BY <1>5 DEF Changing
    <2>4. \A q \in Processes : Changing(q)' <=> q # p /\ Changing(q)
      BY <2>1 DEF Changing
    <2>5. OnlyOverlapDiverges'
      BY <1>5, <2>2, <2>3 DEF ChangeInv, ChangeIsKept, OnlyOverlapDiverges, Loaded
    <2>6. ASSUME NEW q \in Processes, q # p, Changing(q)
          PROVE  overlapped' /\ ~local'[q].quiet
      BY <2>1, <2>2, <2>3, <2>6 DEF ChangeInv, ChangeIsKept, OtherChanging
    <2>7. ChangeInv'
      BY <2>4, <2>6 DEF ChangeInv, ChangeIsKept
    <2> QED BY <2>5, <2>7
  <1>6. ASSUME NEW p \in Processes,
               \/ Ask(p) \/ Authorization(p) \/ AuthorizationFails(p) \/ Cycle(p)
               \/ Answered(p) \/ (p = Manager /\ Run)
               \/ (StatementFails(p) /\ local[p].at # "put")
        PROVE  ChangeInv' /\ OnlyOverlapDiverges'
    <2>1. UNCHANGED <<memory, overlapped, table.id, table.secret>>
      BY <1>6 DEF Ask, Start, Poll, TraktSyncNow, Authorization, Answered, CodeGiven, TokenGiven,
         TokenRefused, PersistToken, Authorized, Trigger, AuthorizationFails, Cycle, SyncNow, ReadToken,
         ReadClient, FinishCycle, Run, TimerFires, Woken, StatementFails, service, TypeOK
    <2>2. local[p].at \notin {"put", "configure"}
      BY <1>6 DEF Ask, Start, Poll, TraktSyncNow, Serve, Authorization, Answered, CodeGiven, TokenGiven,
         TokenRefused, PersistToken, Authorized, Trigger, AuthorizationFails, Cycle, SyncNow,
         ReadToken, ReadClient, FinishCycle, Run, TimerFires, Woken, StatementFails
    <2>3. \/ Ends(p) \/ \E to \in Steps \ {"put", "configure"} : Goes(p, to)
          \/ TokenGiven(p) \/ PersistToken(p) \/ ReadToken(p)
      BY <1>6 DEF Ask, Start, Poll, TraktSyncNow, Authorization, Answered, CodeGiven, TokenRefused, Authorized,
         Trigger, AuthorizationFails, Cycle, SyncNow, ReadClient, FinishCycle, Run, TimerFires,
         Woken, StatementFails, Steps
    <2>4. /\ \A q \in Processes : q # p => local'[q] = local[q]
          /\ local'[p].at \notin {"put", "configure"}
      <3>1. CASE Ends(p)
        BY <3>1, EndsFacts
      <3>2. CASE \E to \in Steps \ {"put", "configure"} : Goes(p, to)
        BY <3>2, GoesFacts
      <3>3. CASE TokenGiven(p) \/ PersistToken(p)
        BY <3>3 DEF TokenGiven, PersistToken, TypeOK, Local
      <3>4. CASE ReadToken(p)
        <4>1. \/ Ends(p)
              \/ local' = [local EXCEPT ![p].at = "client", ![p].token = table.token]
          BY <3>4 DEF ReadToken
        <4> QED BY <4>1, EndsFacts DEF TypeOK, Local
      <3> QED BY <2>3, <3>1, <3>2, <3>3, <3>4
    <2> QED BY <2>1, <2>2, <2>4, Bystander DEF Changing
  <1>7. CASE Restart
    <2>1. \A q \in Processes : ~Changing(q)'
      BY <1>7 DEF Restart, Changing, Idle
    <2>2. memory' = Loaded(table)'
      BY <1>7 DEF Restart, Loaded
    <2> QED BY <2>1, <2>2 DEF ChangeInv, ChangeIsKept, OnlyOverlapDiverges
  <1>8. CASE UNCHANGED vars
    BY <1>8, Bystander DEF vars, service
  <1>9. Manager \in Processes
    BY DEF Processes
  <1> QED BY <1>1, <1>2, <1>3, <1>4, <1>5, <1>6, <1>7, <1>8, <1>9
    DEF Next, Arrives, GoesOn, Answered

-----------------------------------------------------------------------------
(* The inductive invariant holds when the process starts. *)
LEMMA InvInit == Init => IInv
  <1> SUFFICES ASSUME Init
               PROVE  IInv
    OBVIOUS
  <1>1. TypeOK /\ StepInv
    BY TypeInit
  <1>2. \A p \in Processes : local[p].at = "idle"
    BY DEF Init, Idle
  <1>3. ChangeInv /\ OneCycleAtATime
    BY <1>2 DEF Init, ChangeInv, Changing, OneCycleAtATime, InCycle
  <1>4. OnlyOverlapDiverges /\ CodeIsForClient /\ RemovalRemovesToken
    BY DEF Init, OnlyOverlapDiverges, CodeIsForClient, RemovalRemovesToken
  <1> QED BY <1>1, <1>3, <1>4 DEF IInv

(* The inductive invariant, from the steps above. *)
LEMMA Invariant == Spec => []IInv
  <1>1. IInv /\ [Next]_vars => IInv'
    BY TypeStep, ChangeStep, CycleStep, CodeStep, RemovalStep DEF IInv
  <1> QED BY InvInit, <1>1, PTL DEF Spec

(* A cycle never begins while another runs, whoever asks for it (SyncNow).   *)
THEOREM CyclesExclude == Spec => []OneCycleAtATime
  <1>1. IInv => OneCycleAtATime
    BY DEF IInv
  <1> QED BY Invariant, <1>1, PTL

(* Configure and the handlers of the credentials keep memory and table in    *)
(* step, but for changes that overlap.                                      *)
THEOREM MemoryIsTable == Spec => []OnlyOverlapDiverges
  <1>1. IInv => OnlyOverlapDiverges
    BY DEF IInv
  <1> QED BY Invariant, <1>1, PTL

(* Start, Poll and Configure never leave the code of another application.    *)
THEOREM CodesBelong == Spec => []CodeIsForClient
  <1>1. IInv => CodeIsForClient
    BY DEF IInv
  <1> QED BY Invariant, <1>1, PTL

(* DeleteIntegration leaves no token, but for a poll that was under way.     *)
THEOREM RemovalIsComplete == Spec => []RemovalRemovesToken
  <1>1. IInv => RemovalRemovesToken
    BY DEF IInv
  <1> QED BY Invariant, <1>1, PTL

=============================================================================
