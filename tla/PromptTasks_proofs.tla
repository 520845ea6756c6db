------------------------- MODULE PromptTasks_proofs -------------------------
(***************************************************************************)
(* Proofs about PromptTasks, for any season, limit and number of batches,  *)
(* settings, failures and restarts.                                        *)
(***************************************************************************)
EXTENDS PromptTasks, FiniteOrders, SequenceTheorems

Task == [media: Media, state: {"pending", "snoozed", "resolved"}]

(* What is released is the beginning of the season. *)
ReleaseInv ==
    /\ IsFiniteSet(released)
    /\ \A e \in released : \A f \in Episodes : f <= e => f \in released

(* A normal episode that is watched is released, or it was watched early. *)
WatchedInv == early \/ watched \intersect Normal \subseteq released

(* The notifier does not hold a task it has marked. *)
BatchInv == step \in {"send", "failed"} => \A t \in ids : notes[t] # "sent"

(* A task of which no mark was lost has been announced at most once, and is  *)
(* marked or about to be.                                                   *)
ToldInv ==
    \A t \in DOMAIN tasks \ unmarked :
        \/ told[t] = 0
        \/ told[t] = 1 /\ (notes[t] = "sent" \/ (step = "sent" /\ t \in ids))

IInv ==
    /\ TypeOK /\ OneOpenTask
    /\ ReleaseInv /\ WatchedInv /\ SeasonIsAskedForWhenComplete
    /\ BatchInv /\ ToldInv

-----------------------------------------------------------------------------
(* A list to which another is appended. *)
Appended(a, s, n, c, k, X) ==
    /\ a \in [1 .. (n + k) -> X]
    /\ \A i \in 1 .. n : a[i] = s[i]
    /\ \A i \in (n + 1) .. (n + k) : a[i] = c[i - n]

LEMMA Extended ==
  ASSUME NEW X, NEW n \in Nat, NEW k \in Nat,
         NEW s \in [1 .. n -> X], NEW c \in [1 .. k -> X], NEW a, a = s \o c
  PROVE  Appended(a, s, n, c, k, X)
  <1>1. s \in Seq(X) /\ c \in Seq(X) /\ Len(s) = n /\ Len(c) = k
    OBVIOUS
  <1>2. a \in Seq(X) /\ Len(a) = n + k
    <2>1. s \o c \in Seq(X) /\ Len(s \o c) = Len(s) + Len(c)
      BY <1>1, ConcatProperties
    <2> QED BY <2>1, <1>1
  <1>3. \A i \in 1 .. (n + k) : a[i] = IF i <= n THEN s[i] ELSE c[i - n]
    BY <1>1
  <1>4. a \in [1 .. (n + k) -> X]
    BY <1>2, LenProperties, Zenon
  <1>5. ASSUME NEW i \in 1 .. n PROVE a[i] = s[i]
    <2>1. i \in 1 .. (n + k) /\ i <= n
      OBVIOUS
    <2> QED BY <2>1, <1>3
  <1>6. ASSUME NEW i \in (n + 1) .. (n + k) PROVE a[i] = c[i - n]
    <2>1. i \in 1 .. (n + k) /\ ~(i <= n)
      OBVIOUS
    <2> QED BY <2>1, <1>3
  <1> QED BY <1>4, <1>5, <1>6 DEF Appended

(* InOrder lists every element of a finite set once. *)
LEMMA InOrderFacts ==
  ASSUME NEW S, IsFiniteSet(S), S \subseteq Int
  PROVE  /\ Cardinality(S) \in Nat
         /\ InOrder(S) \in [1 .. Cardinality(S) -> S]
         /\ \A i, j \in 1 .. Cardinality(S) : InOrder(S)[i] = InOrder(S)[j] => i = j
         /\ \A m \in S : \E i \in 1 .. Cardinality(S) : InOrder(S)[i] = m
  <1> DEFINE n == Cardinality(S)
             D == 1 .. n
             s == InOrder(S)
  <1>1. n \in Nat
    BY FS_CardinalityType
  <1>2. s \in [D -> S] /\ \A i, j \in D : i < j => s[i] < s[j]
    <2>1. \E l \in [D -> S] : \A i, j \in D : i < j => l[i] < l[j]
      <3>1. PICK l : Lists(l, S)
        BY ListExists
      <3>2. l \in [D -> S] /\ \A i, j \in D : i < j => l[i] < l[j]
        BY <3>1 DEF Lists, Ascending
      <3> QED BY <3>2
    <2> QED BY <2>1 DEF InOrder
  <1>3. IsFiniteSet(D) /\ Cardinality(D) = n
    BY <1>1, FS_Interval
  <1> HIDE DEF n, s
  <1>4. \A i, j \in D : s[i] = s[j] => i = j
    <2> SUFFICES ASSUME NEW i \in D, NEW j \in D, s[i] = s[j], i # j PROVE FALSE
      OBVIOUS
    <2>1. i < j \/ j < i
      BY <1>1
    <2>2. s[i] \in S /\ s[j] \in S
      BY <1>2
    <2>3. s[i] \in Int /\ s[j] \in Int
      BY <2>2
    <2> QED BY <1>2, <2>1, <2>3
  <1> HIDE DEF D
  <1>5. s \in Injection(D, S)
    BY <1>2, <1>4 DEF Injection, IsInjective
  <1>6. s \in Surjection(D, S)
    BY <1>3, <1>5, FS_Injection DEF n
  <1>7. \A m \in S : \E i \in D : s[i] = m
    BY <1>6 DEF Surjection
  <1> QED BY <1>1, <1>2, <1>4, <1>7 DEF n, s, D

-----------------------------------------------------------------------------
(* What a batch is asked about. *)
LEMMA MediaAreNumbers == Media \subseteq Nat
  BY EpisodesAssumption, MediaAssumption DEF Media

LEMMA NewestFacts ==
  ASSUME TypeOK, ReleaseInv, released \intersect Normal # {}
  PROVE  /\ Newest(released) \in released \intersect Normal
         /\ \A e \in released \intersect Normal : e <= Newest(released)
  <1> DEFINE R == released \intersect Normal
  <1>1. IsFiniteSet(R)
    BY FS_Subset DEF ReleaseInv
  <1>2. R \subseteq Int /\ R # {}
    <2>1. released \subseteq Episodes
      BY DEF TypeOK
    <2>2. R \subseteq Nat
      BY <2>1, EpisodesAssumption
    <2> QED BY <2>2
  <1> HIDE DEF R
  <1>3. Max(R) \in R /\ \A e \in R : e <= Max(R)
    BY <1>1, <1>2, MaxIsGreatest
  <1> QED BY <1>3 DEF R, Newest

(* The movie, the season and the newest episode are all there is to decide. *)
LEMMA DecisionsFacts ==
  ASSUME TypeOK, ReleaseInv, NEW new \in SUBSET Episodes, NEW movie \in BOOLEAN,
         NEW asked \in SUBSET enabled
  PROVE  /\ IsFiniteSet(Decisions(released, new, watched, movie, asked))
         /\ Decisions(released, new, watched, movie, asked) \subseteq Media
         /\ Season \in Decisions(released, new, watched, movie, asked) <=>
                /\ "tv" \in asked
                /\ AllReleased(released)
                /\ CaughtUp(released, watched \union new)
                /\ FirstWatched(new, watched) # {}
         /\ \A e \in Episodes \intersect Decisions(released, new, watched, movie, asked) :
                /\ released \intersect Normal # {} /\ e = Newest(released)
                /\ e \in FirstWatched(new, watched)
                /\ ~AllReleased(released)
                /\ CaughtUp(released, watched \union new)
  <1> DEFINE D == Decisions(released, new, watched, movie, asked)
             E == EpisodeDecisions(released, new, watched)
             S == SeasonDecisions(released, new, watched)
  <1>1. E \subseteq {Newest(released)} /\ E \subseteq Episodes
    <2>1. E \subseteq {Newest(released)} /\ (E # {} => released \intersect Normal # {})
      BY DEF EpisodeDecisions
    <2>2. CASE E # {}
      BY <2>1, <2>2, NewestFacts DEF Normal
    <2> QED BY <2>1, <2>2
  <1>2. S \subseteq {Season}
    BY DEF SeasonDecisions
  <1>3. D \subseteq {Movie, Season, Newest(released)}
    BY <1>1, <1>2 DEF Decisions
  <1>4. IsFiniteSet({Movie, Season, Newest(released)})
    <2>1. IsFiniteSet({Movie}) /\ IsFiniteSet({Season}) /\ IsFiniteSet({Newest(released)})
      BY FS_Singleton
    <2>2. IsFiniteSet({Movie} \union {Season})
      BY <2>1, FS_Union
    <2>3. IsFiniteSet(({Movie} \union {Season}) \union {Newest(released)})
      BY <2>1, <2>2, FS_Union
    <2>4. {Movie, Season, Newest(released)} = ({Movie} \union {Season}) \union {Newest(released)}
      OBVIOUS
    <2> QED BY <2>3, <2>4
  <1>5. IsFiniteSet(D)
    <2> HIDE DEF D
    <2> QED BY <1>3, <1>4, FS_Subset
  <1>6. D \subseteq Media
    BY <1>1, <1>2 DEF Decisions, Media
  <1>7. Season \notin Episodes /\ Movie \notin Episodes /\ Movie # Season
    BY MediaAssumption, EpisodesAssumption
  <1>8. Season \in D <=> "tv" \in asked /\ Season \in S
    BY <1>1, <1>7 DEF Decisions
  <1>9. Season \in D <=> /\ "tv" \in asked
                         /\ AllReleased(released)
                         /\ CaughtUp(released, watched \union new)
                         /\ FirstWatched(new, watched) # {}
    BY <1>8 DEF SeasonDecisions
  <1>10. ASSUME NEW e \in Episodes \intersect D
         PROVE  /\ released \intersect Normal # {} /\ e = Newest(released)
                /\ e \in FirstWatched(new, watched)
                /\ ~AllReleased(released)
                /\ CaughtUp(released, watched \union new)
    <2>1. e \in E
      BY <1>2, <1>7 DEF Decisions
    <2> QED BY <2>1 DEF EpisodeDecisions, NewestIsNew
  <1> QED BY <1>5, <1>6, <1>9, <1>10

(* The tasks made of decisions: one for each that has none open. *)
MadeOf(c, n, D) ==
    /\ c \in [1 .. n -> Task]
    /\ \A i \in 1 .. n : c[i].media \in D /\ ~HasTask(c[i].media)
    /\ \A i, j \in 1 .. n : c[i].media = c[j].media => i = j
    /\ \A m \in D : HasTask(m) \/ \E i \in 1 .. n : c[i].media = m

LEMMA NewTasksFacts ==
  ASSUME NEW D, IsFiniteSet(D), D \subseteq Media
  PROVE  \E n \in Nat : MadeOf(NewTasks(D), n, D)
  <1> DEFINE C == {m \in D : ~HasTask(m)}
             n == Cardinality(C)
             s == InOrder(C)
             c == NewTasks(D)
  <1>1. IsFiniteSet(C) /\ C \subseteq Int
    <2>1. C \subseteq D
      OBVIOUS
    <2>2. C \subseteq Nat
      BY <2>1, MediaAreNumbers
    <2> HIDE DEF C
    <2>3. IsFiniteSet(C)
      BY <2>1, FS_Subset
    <2>4. C \subseteq Int
      BY <2>2
    <2> QED BY <2>3, <2>4
  <1>2. /\ n \in Nat /\ s \in [1 .. n -> C]
        /\ \A i, j \in 1 .. n : s[i] = s[j] => i = j
        /\ \A m \in C : \E i \in 1 .. n : s[i] = m
    <2> HIDE DEF C
    <2> QED BY <1>1, InOrderFacts
  <1>3. c = [i \in 1 .. n |-> [media |-> s[i], state |-> "pending"]]
    BY <1>2 DEF NewTasks
  <1> HIDE DEF n, s, c
  <1>4. \A i \in 1 .. n : s[i] \in C
    BY <1>2
  <1>5. c \in [1 .. n -> Task]
    BY <1>3, <1>4 DEF Task
  <1>6. \A i \in 1 .. n : c[i].media = s[i]
    BY <1>3
  <1>7. \A i \in 1 .. n : c[i].media \in D /\ ~HasTask(c[i].media)
    BY <1>4, <1>6
  <1>8. \A i, j \in 1 .. n : c[i].media = c[j].media => i = j
    BY <1>2, <1>6
  <1>9. \A m \in D : HasTask(m) \/ \E i \in 1 .. n : c[i].media = m
    BY <1>2, <1>6
  <1> QED BY <1>2, <1>5, <1>7, <1>8, <1>9 DEF c, MadeOf

(* What a batch adds to the tasks: those of its decisions, at the end. *)
Grown(D) ==
    /\ tasks' \in Seq(Task)
    /\ DOMAIN tasks \subseteq DOMAIN tasks'
    /\ notes' \in [DOMAIN tasks' -> {"none", "retry", "due", "sent"}]
    /\ told' \in [DOMAIN tasks' -> Nat]
    /\ \A t \in DOMAIN tasks : tasks'[t] = tasks[t] /\ notes'[t] = notes[t] /\ told'[t] = told[t]
    /\ \A t \in DOMAIN tasks' \ DOMAIN tasks :
           /\ tasks'[t].media \in D /\ ~HasTask(tasks'[t].media)
           /\ told'[t] = 0
    /\ \A t, u \in DOMAIN tasks' \ DOMAIN tasks : tasks'[t].media = tasks'[u].media => t = u
    /\ \A m \in D : HasTask(m) \/ \E t \in DOMAIN tasks' \ DOMAIN tasks : tasks'[t].media = m

LEMMA GrownFacts ==
  ASSUME TypeOK, NEW D, IsFiniteSet(D), D \subseteq Media,
         tasks' = tasks \o NewTasks(D),
         notes' = notes \o [i \in DOMAIN NewTasks(D) |-> "none"],
         told' = told \o [i \in DOMAIN NewTasks(D) |-> 0]
  PROVE  Grown(D)
  <1> DEFINE c == NewTasks(D)
             N == {"none", "retry", "due", "sent"}
             n == Len(tasks)
  <1>1. PICK k \in Nat : MadeOf(NewTasks(D), k, D)
    BY NewTasksFacts
  <1>2. n \in Nat /\ tasks \in [1 .. n -> Task]
    <2>1. tasks \in Seq(Task)
      BY DEF TypeOK, Task
    <2> QED BY <2>1, LenProperties
  <1> HIDE DEF n, c
  <1>3. notes \in [1 .. n -> N] /\ told \in [1 .. n -> Nat] /\ DOMAIN tasks = 1 .. n
    BY <1>2 DEF TypeOK
  <1>4a. c \in [1 .. k -> Task] /\ MadeOf(c, k, D)
    BY <1>1 DEF MadeOf, c
  <1> DEFINE p == [i \in 1 .. k |-> "none"]
             z == [i \in 1 .. k |-> 0]
  <1>4. /\ tasks' = tasks \o c /\ notes' = notes \o p /\ told' = told \o z
        /\ p \in [1 .. k -> N] /\ z \in [1 .. k -> Nat]
        /\ \A i \in 1 .. k : z[i] = 0
    BY <1>4a DEF c
  <1> HIDE DEF p, z, N
  <1>5. /\ tasks' \in [1 .. (n + k) -> Task]
        /\ \A i \in 1 .. n : tasks'[i] = tasks[i]
        /\ \A i \in (n + 1) .. (n + k) : tasks'[i] = c[i - n]
    <2>1. Appended(tasks', tasks, n, c, k, Task)
      BY <1>4a, <1>2, <1>4, Extended
    <2> QED BY <2>1 DEF Appended
  <1>6. /\ notes' \in [1 .. (n + k) -> N]
        /\ \A i \in 1 .. n : notes'[i] = notes[i]
    <2>1. Appended(notes', notes, n, p, k, N)
      BY <1>2, <1>3, <1>4, Extended
    <2> QED BY <2>1 DEF Appended
  <1>7. /\ told' \in [1 .. (n + k) -> Nat]
        /\ \A i \in 1 .. n : told'[i] = told[i]
        /\ \A i \in (n + 1) .. (n + k) : told'[i] = z[i - n]
    <2>1. Appended(told', told, n, z, k, Nat)
      BY <1>2, <1>3, <1>4, Extended
    <2> QED BY <2>1 DEF Appended
  <1>8. \A i \in (n + 1) .. (n + k) : i - n \in 1 .. k
    BY <1>1, <1>2
  <1>9. DOMAIN tasks' = 1 .. (n + k) /\ 1 .. n \subseteq 1 .. (n + k)
    BY <1>1, <1>2, <1>5
  <1>10. DOMAIN tasks' \ DOMAIN tasks = (n + 1) .. (n + k)
    BY <1>1, <1>2, <1>3, <1>9
  <1>11. tasks' \in Seq(Task)
    <2>1. n + k \in Nat
      BY <1>1, <1>2
    <2> QED BY <2>1, <1>5, SeqDef
  <1>12. ASSUME NEW t \in DOMAIN tasks' \ DOMAIN tasks
         PROVE  tasks'[t].media \in D /\ ~HasTask(tasks'[t].media) /\ told'[t] = 0
    <2>1. t \in (n + 1) .. (n + k) /\ t - n \in 1 .. k
      BY <1>8, <1>10
    <2>2. tasks'[t] = c[t - n] /\ told'[t] = z[t - n]
      BY <2>1, <1>5, <1>7
    <2> QED BY <2>1, <2>2, <1>4a, <1>4 DEF MadeOf
  <1>13. ASSUME NEW t \in DOMAIN tasks' \ DOMAIN tasks, NEW u \in DOMAIN tasks' \ DOMAIN tasks,
                tasks'[t].media = tasks'[u].media
         PROVE  t = u
    <2>1. /\ t \in (n + 1) .. (n + k) /\ t - n \in 1 .. k
          /\ u \in (n + 1) .. (n + k) /\ u - n \in 1 .. k
      BY <1>8, <1>10
    <2>2. tasks'[t] = c[t - n] /\ tasks'[u] = c[u - n]
      BY <2>1, <1>5
    <2>3. t - n = u - n
      BY <2>1, <2>2, <1>4a, <1>13 DEF MadeOf
    <2> QED BY <2>1, <2>3, <1>2
  <1>14. ASSUME NEW m \in D
         PROVE  HasTask(m) \/ \E t \in DOMAIN tasks' \ DOMAIN tasks : tasks'[t].media = m
    <2>1. CASE HasTask(m)
      BY <2>1
    <2>2. CASE \E i \in 1 .. k : c[i].media = m
      <3>1. PICK i \in 1 .. k : c[i].media = m
        BY <2>2
      <3>2. i + n \in (n + 1) .. (n + k) /\ (i + n) - n = i
        BY <1>1, <1>2
      <3>3. tasks'[i + n] = c[i]
        BY <3>2, <1>5
      <3> QED BY <3>1, <3>2, <3>3, <1>10
    <2> QED BY <2>1, <2>2, <1>4a DEF MadeOf
  <1>15. /\ notes' \in [DOMAIN tasks' -> N] /\ told' \in [DOMAIN tasks' -> Nat]
         /\ DOMAIN tasks \subseteq DOMAIN tasks'
         /\ \A t \in DOMAIN tasks :
                tasks'[t] = tasks[t] /\ notes'[t] = notes[t] /\ told'[t] = told[t]
    BY <1>3, <1>5, <1>6, <1>7, <1>9
  <1> QED BY <1>11, <1>12, <1>13, <1>14, <1>15 DEF Grown, N

LEMMA ApplyFacts ==
  ASSUME TypeOK, ReleaseInv, ApplyBatch
  PROVE  \E new \in SUBSET Episodes, movie \in BOOLEAN, asked \in SUBSET enabled :
           /\ watched' = watched \union new
           /\ early' = (early \/ ~(FirstWatched(new, watched) \subseteq released))
           /\ muted' = (muted \/ ("tv" \notin asked /\ FirstWatched(new, watched) # {}))
           /\ Grown(Decisions(released, new, watched, movie, asked))
  <1>1. PICK new \in SUBSET Episodes, movie \in BOOLEAN, asked \in SUBSET enabled :
          LET created == NewTasks(Decisions(released, new, watched, movie, asked))
          IN  /\ watched' = watched \union new
              /\ early' = (early \/ ~(FirstWatched(new, watched) \subseteq released))
              /\ muted' = (muted \/ ("tv" \notin asked /\ FirstWatched(new, watched) # {}))
              /\ tasks' = tasks \o created
              /\ notes' = notes \o [i \in DOMAIN created |-> "none"]
              /\ told' = told \o [i \in DOMAIN created |-> 0]
    BY DEF ApplyBatch
  <1> DEFINE D == Decisions(released, new, watched, movie, asked)
  <1>2. IsFiniteSet(D) /\ D \subseteq Media
    BY DecisionsFacts
  <1>3. Grown(D)
    <2>1. /\ tasks' = tasks \o NewTasks(D)
          /\ notes' = notes \o [i \in DOMAIN NewTasks(D) |-> "none"]
          /\ told' = told \o [i \in DOMAIN NewTasks(D) |-> 0]
      BY <1>1
    <2> HIDE DEF D
    <2> QED BY <2>1, <1>2, GrownFacts
  <1> QED BY <1>1, <1>3

-----------------------------------------------------------------------------
(* What the other actions do to tasks and batches. *)
LEMMA TaskFacts ==
  ASSUME TypeOK
  PROVE  /\ tasks \in Seq(Task) /\ Len(tasks) \in Nat /\ DOMAIN tasks = 1 .. Len(tasks)
         /\ IsFiniteSet(DOMAIN tasks) /\ DOMAIN tasks \subseteq Int
  <1>1. tasks \in Seq(Task)
    BY DEF TypeOK, Task
  <1>2. Len(tasks) \in Nat /\ DOMAIN tasks = 1 .. Len(tasks)
    BY <1>1, LenProperties
  <1>3. IsFiniteSet(DOMAIN tasks)
    BY <1>2, FS_Interval
  <1> QED BY <1>1, <1>2, <1>3

LEMMA ResolveFacts ==
  ASSUME TypeOK, Resolve
  PROVE  /\ tasks' \in Seq(Task) /\ DOMAIN tasks' = DOMAIN tasks
         /\ \A t \in DOMAIN tasks : tasks'[t].media = tasks[t].media /\ (Open(t)' => Open(t))
  <1>1. PICK t \in DOMAIN tasks, state \in {"resolved", "snoozed"} :
          Open(t) /\ tasks' = [tasks EXCEPT ![t].state = state]
    BY DEF Resolve
  <1>2. tasks \in [1 .. Len(tasks) -> Task] /\ Len(tasks) \in Nat /\ DOMAIN tasks = 1 .. Len(tasks)
    BY TaskFacts
  <1>3. [tasks[t] EXCEPT !.state = state] \in Task
    BY <1>2 DEF Task
  <1>4. tasks' \in [1 .. Len(tasks) -> Task] /\ DOMAIN tasks' = DOMAIN tasks
    BY <1>1, <1>2, <1>3
  <1>5. tasks' \in Seq(Task)
    BY <1>2, <1>4, SeqDef
  <1>6. ASSUME NEW u \in DOMAIN tasks
        PROVE  tasks'[u].media = tasks[u].media /\ (Open(u)' => Open(u))
    <2>1. CASE u = t
      <3>1. tasks'[u] = [tasks[t] EXCEPT !.state = state] /\ tasks[t] \in Task
        BY <1>1, <1>2, <2>1
      <3>2. tasks'[u].media = tasks[u].media
        BY <3>1, <2>1 DEF Task
      <3> QED BY <3>2, <1>1, <2>1
    <2>2. CASE u # t
      <3>1. tasks'[u] = tasks[u]
        BY <1>1, <2>2
      <3> QED BY <3>1 DEF Open
    <2> QED BY <2>1, <2>2
  <1> QED BY <1>4, <1>5, <1>6

(* A batch to announce is never empty: its first task always fits. *)
LEMMA SelectFacts ==
  ASSUME TypeOK, SelectTasks
  PROVE  ids' # {} /\ \A t \in ids' : t \in DOMAIN tasks /\ Announceable(t)
  <1> DEFINE due == {t \in DOMAIN tasks : Announceable(t)}
             m == Min(due)
             first == {u \in due : u <= m}
  <1>1. due # {} /\ ids' = {t \in due : Cardinality({u \in due : u <= t}) <= Limit}
    BY DEF SelectTasks
  <1>2. IsFiniteSet(due) /\ due \subseteq Int
    <2>1. due \subseteq DOMAIN tasks /\ IsFiniteSet(DOMAIN tasks) /\ DOMAIN tasks \subseteq Int
      BY TaskFacts
    <2> HIDE DEF due
    <2>2. IsFiniteSet(due)
      BY <2>1, FS_Subset
    <2> QED BY <2>1, <2>2
  <1>3. m \in due /\ \A u \in due : m <= u
    <2> HIDE DEF due
    <2> QED BY <1>1, <1>2, MinIsLeast
  <1>4. first = {m}
    <2> HIDE DEF due, m
    <2>1. \A u \in due : u <= m => u = m
      BY <1>2, <1>3
    <2> QED BY <2>1, <1>2, <1>3
  <1>5. Cardinality({m}) = 1
    BY FS_Singleton
  <1>6. Cardinality(first) <= Limit
    <2> HIDE DEF first, m
    <2> QED BY <1>4, <1>5, LimitAssumption
  <1>7. m \in ids'
    <2> HIDE DEF due, m
    <2> QED BY <1>1, <1>3, <1>6
  <1> QED BY <1>1, <1>7

LEMMA PutOffFacts ==
  ASSUME TypeOK, PutOff
  PROVE  Min(ids) \in ids
  <1>1. ids \subseteq DOMAIN tasks /\ ids # {}
    BY DEF TypeOK, PutOff
  <1>2. IsFiniteSet(ids) /\ ids \subseteq Int
    <2>1. IsFiniteSet(ids)
      BY <1>1, TaskFacts, FS_Subset
    <2> QED BY <2>1, <1>1, TaskFacts
  <1> QED BY <1>1, <1>2, MinIsLeast

-----------------------------------------------------------------------------
(* Types. *)
LEMMA TypeInit == Init => TypeOK
  <1> SUFFICES ASSUME Init PROVE TypeOK
    OBVIOUS
  <1>1. tasks = <<>> /\ notes = <<>> /\ told = <<>>
    BY DEF Init
  <1>2. tasks \in Seq([media: Media, state: {"pending", "snoozed", "resolved"}])
    BY <1>1, EmptySeq
  <1>3. DOMAIN tasks = {} /\ notes \in [{} -> {"none", "retry", "due", "sent"}] /\ told \in [{} -> Nat]
    BY <1>1
  <1> QED BY <1>2, <1>3 DEF Init, TypeOK

LEMMA TypeStep ==
  ASSUME TypeOK, ReleaseInv, [Next]_vars
  PROVE  TypeOK'
  <1> DEFINE N == {"none", "retry", "due", "sent"}
  <1>0. /\ tasks \in Seq(Task) /\ notes \in [DOMAIN tasks -> N] /\ told \in [DOMAIN tasks -> Nat]
        /\ ids \subseteq DOMAIN tasks /\ unmarked \subseteq DOMAIN tasks
        /\ (step # "idle" <=> ids # {}) /\ step \in {"idle", "send", "sent", "failed"}
        /\ released \subseteq Episodes /\ watched \subseteq Episodes /\ enabled \subseteq Topics
        /\ early \in BOOLEAN /\ muted \in BOOLEAN
        /\ given \in Nat /\ toggles \in Nat /\ failures \in Nat
    BY DEF TypeOK, Task
  <1>1. CASE Release
    BY <1>1, <1>0 DEF Release, TypeOK, Task, notifier, budget
  <1>2. CASE TogglePrompts
    BY <1>2, <1>0 DEF TogglePrompts, TypeOK, Task, world, notifier, Topics
  <1>3. CASE ApplyBatch
    <2>1. PICK new \in SUBSET Episodes, movie \in BOOLEAN, asked \in SUBSET enabled :
            /\ watched' = watched \union new
            /\ early' = (early \/ ~(FirstWatched(new, watched) \subseteq released))
            /\ muted' = (muted \/ ("tv" \notin asked /\ FirstWatched(new, watched) # {}))
            /\ Grown(Decisions(released, new, watched, movie, asked))
      BY <1>3, ApplyFacts
    <2>2. /\ tasks' \in Seq(Task) /\ DOMAIN tasks \subseteq DOMAIN tasks'
          /\ notes' \in [DOMAIN tasks' -> N] /\ told' \in [DOMAIN tasks' -> Nat]
      BY <2>1 DEF Grown
    <2>3. /\ given' \in Nat
          /\ UNCHANGED <<released, enabled, step, ids, unmarked, toggles, failures>>
      BY <1>3, <1>0 DEF ApplyBatch
    <2>4. watched' \subseteq Episodes /\ early' \in BOOLEAN /\ muted' \in BOOLEAN
      BY <2>1, <1>0, Zenon
    <2> QED BY <2>2, <2>3, <2>4, <1>0 DEF TypeOK, Task
  <1>4. CASE Resolve
    <2>1. tasks' \in Seq(Task) /\ DOMAIN tasks' = DOMAIN tasks
      BY <1>4, ResolveFacts
    <2>2. UNCHANGED <<released, watched, early, muted, enabled, notes, step, ids, told, unmarked,
                      given, toggles, failures>>
      BY <1>4 DEF Resolve, world, notifier, budget
    <2> QED BY <2>1, <2>2, <1>0 DEF TypeOK, Task
  <1>5. CASE SelectTasks
    <2>1. ids' # {} /\ ids' \subseteq DOMAIN tasks
      BY <1>5, SelectFacts
    <2>2. /\ step' = "send"
          /\ UNCHANGED <<released, watched, early, muted, enabled, tasks, notes, told, unmarked,
                         given, toggles, failures>>
      BY <1>5 DEF SelectTasks, world, budget
    <2> QED BY <2>1, <2>2, <1>0 DEF TypeOK, Task
  <1>6. CASE SendAccepted
    <2>1. told' \in [DOMAIN tasks -> Nat]
      BY <1>6, <1>0 DEF SendAccepted, Tell
    <2> QED BY <2>1, <1>6, <1>0 DEF SendAccepted, TypeOK, Task, world, budget
  <1>7. CASE MarkSent
    BY <1>7, <1>0 DEF MarkSent, TypeOK, Task, world, budget
  <1>8. CASE PutOff
    <2>1. Min(ids) \in ids
      BY <1>8, PutOffFacts
    <2> QED BY <2>1, <1>8, <1>0 DEF PutOff, TypeOK, Task, world, budget
  <1>9. CASE RetryDue
    BY <1>9, <1>0 DEF RetryDue, TypeOK, Task, world, budget
  <1>10. CASE SendFails
    <2>1. told' \in [DOMAIN tasks -> Nat] /\ unmarked' \subseteq DOMAIN tasks
      <3>1. CASE Tell /\ unmarked' = unmarked \union ids
        BY <3>1, <1>0 DEF Tell
      <3>2. CASE UNCHANGED <<told, unmarked>>
        BY <3>2, <1>0
      <3> QED BY <3>1, <3>2, <1>10 DEF SendFails
    <2> QED BY <2>1, <1>10, <1>0 DEF SendFails, TypeOK, Task, world
  <1>11. CASE Restart
    BY <1>11, <1>0 DEF Restart, TypeOK, Task, world
  <1>12. CASE UNCHANGED vars
    BY <1>12, <1>0 DEF vars, TypeOK, Task, world, notifier, budget
  <1> QED BY <1>1, <1>2, <1>3, <1>4, <1>5, <1>6, <1>7, <1>8, <1>9, <1>10, <1>11, <1>12 DEF Next, Poll

-----------------------------------------------------------------------------
(* One open task per title. *)
LEMMA OneOpenStep ==
  ASSUME TypeOK, ReleaseInv, OneOpenTask, [Next]_vars
  PROVE  OneOpenTask'
  <1>1. CASE ApplyBatch
    <2>1. PICK D : Grown(D)
      BY <1>1, ApplyFacts
    <2> SUFFICES ASSUME NEW t \in DOMAIN tasks', NEW u \in DOMAIN tasks',
                        Open(t)', Open(u)', tasks'[t].media = tasks'[u].media
                 PROVE  t = u
      BY DEF OneOpenTask
    <2>2. \A v \in DOMAIN tasks : tasks'[v] = tasks[v]
      BY <2>1 DEF Grown
    <2>3. \A v \in DOMAIN tasks' \ DOMAIN tasks : ~HasTask(tasks'[v].media)
      BY <2>1 DEF Grown
    <2>4. CASE t \in DOMAIN tasks /\ u \in DOMAIN tasks
      BY <2>2, <2>4 DEF OneOpenTask, Open
    <2>5. CASE t \in DOMAIN tasks /\ u \notin DOMAIN tasks
      BY <2>2, <2>3, <2>5 DEF HasTask, Open
    <2>6. CASE t \notin DOMAIN tasks /\ u \in DOMAIN tasks
      BY <2>2, <2>3, <2>6 DEF HasTask, Open
    <2>7. CASE t \notin DOMAIN tasks /\ u \notin DOMAIN tasks
      BY <2>1, <2>7 DEF Grown
    <2> QED BY <2>4, <2>5, <2>6, <2>7
  <1>2. CASE Resolve
    BY <1>2, ResolveFacts DEF OneOpenTask
  <1>3. CASE UNCHANGED tasks
    BY <1>3 DEF OneOpenTask, Open
  <1>4. ApplyBatch \/ Resolve \/ UNCHANGED tasks
    BY DEF Next, Poll, vars, Release, TogglePrompts, SelectTasks, SendAccepted, MarkSent, PutOff,
           RetryDue, SendFails, Restart
  <1> QED BY <1>1, <1>2, <1>3, <1>4

(* The season. *)
LEMMA ReleaseStep ==
  ASSUME TypeOK, ReleaseInv, [Next]_vars
  PROVE  ReleaseInv'
  <1>1. CASE Release
    <2>1. PICK e \in Episodes \ released :
            (\A f \in Episodes \ released : e <= f) /\ released' = released \union {e}
      BY <1>1 DEF Release
    <2>2. IsFiniteSet(released')
      <3>1. IsFiniteSet(released \union {e})
        BY FS_AddElement DEF ReleaseInv
      <3> QED BY <3>1, <2>1
    <2>3. ASSUME NEW d \in released', NEW f \in Episodes, f <= d PROVE f \in released'
      <3>1. CASE d \in released
        BY <3>1, <2>1, <2>3 DEF ReleaseInv
      <3>2. CASE d = e
        <4>1. f \notin released => e <= f /\ f <= e
          BY <3>2, <2>1, <2>3
        <4>2. e \in Nat /\ f \in Nat
          BY EpisodesAssumption
        <4> QED BY <4>1, <4>2, <2>1
      <3> QED BY <3>1, <3>2, <2>1
    <2> QED BY <2>2, <2>3 DEF ReleaseInv
  <1>2. CASE UNCHANGED released
    BY <1>2 DEF ReleaseInv
  <1>3. Release \/ UNCHANGED released
    BY DEF Next, Poll, vars, world, TogglePrompts, ApplyBatch, Resolve, SelectTasks, SendAccepted,
           MarkSent, PutOff, RetryDue, SendFails, Restart
  <1> QED BY <1>1, <1>2, <1>3

(* What the actions do to what is known of the season. *)
LEMMA WorldStep ==
  ASSUME [Next]_vars
  PROVE  \/ Release \/ ApplyBatch
         \/ Resolve /\ UNCHANGED world
         \/ UNCHANGED <<world, tasks>>
  BY DEF Next, Poll, vars, world, TogglePrompts, Resolve, SelectTasks, SendAccepted,
         MarkSent, PutOff, RetryDue, SendFails, Restart

LEMMA WatchedStep ==
  ASSUME TypeOK, ReleaseInv, WatchedInv, [Next]_vars
  PROVE  WatchedInv'
  <1>1. CASE Release
    BY <1>1 DEF Release, WatchedInv
  <1>2. CASE ApplyBatch
    <2>1. PICK new \in SUBSET Episodes :
            /\ watched' = watched \union new
            /\ early' = (early \/ ~(FirstWatched(new, watched) \subseteq released))
      BY <1>2, ApplyFacts
    <2>2. UNCHANGED released
      BY <1>2 DEF ApplyBatch
    <2>3. CASE early \/ ~(FirstWatched(new, watched) \subseteq released)
      BY <2>1, <2>3 DEF WatchedInv
    <2>4. CASE ~early /\ FirstWatched(new, watched) \subseteq released
      <3>1. watched' \intersect Normal \subseteq released
        BY <2>1, <2>4 DEF WatchedInv, FirstWatched
      <3> QED BY <3>1, <2>2 DEF WatchedInv
    <2> QED BY <2>3, <2>4
  <1>3. CASE UNCHANGED world
    BY <1>3 DEF WatchedInv, world
  <1> QED BY <1>1, <1>2, <1>3, WorldStep

LEMMA SeasonStep ==
  ASSUME TypeOK, ReleaseInv, WatchedInv, SeasonIsAskedForWhenComplete, [Next]_vars
  PROVE  SeasonIsAskedForWhenComplete'
  <1> DEFINE Asked == \E t \in DOMAIN tasks : tasks[t].media = Season
  <1>0. (Asked => SeasonIsComplete) /\ (SeasonIsComplete /\ Normal # {} => early \/ muted \/ Asked)
    BY DEF SeasonIsAskedForWhenComplete
  <1> SUFFICES /\ Asked' => SeasonIsComplete'
               /\ SeasonIsComplete' /\ Normal # {} => early' \/ muted' \/ Asked'
    BY DEF SeasonIsAskedForWhenComplete
  <1>1. CASE Release
    <2>1. /\ released \subseteq released'
          /\ UNCHANGED <<watched, early, muted, tasks>>
      BY <1>1 DEF Release
    <2>2. SeasonIsComplete => SeasonIsComplete'
      BY <2>1 DEF SeasonIsComplete
    <2>3. SeasonIsComplete' => early \/ SeasonIsComplete
      BY <2>1 DEF SeasonIsComplete, WatchedInv
    <2>4. Asked' <=> Asked
      BY <2>1
    <2> HIDE DEF Asked
    <2> QED BY <2>1, <2>2, <2>3, <2>4, <1>0
  <1>2. CASE ApplyBatch
    <2>1. PICK new \in SUBSET Episodes, movie \in BOOLEAN, asked \in SUBSET enabled :
            /\ watched' = watched \union new
            /\ early' = (early \/ ~(FirstWatched(new, watched) \subseteq released))
            /\ muted' = (muted \/ ("tv" \notin asked /\ FirstWatched(new, watched) # {}))
            /\ Grown(Decisions(released, new, watched, movie, asked))
      BY <1>2, ApplyFacts
    <2> DEFINE D == Decisions(released, new, watched, movie, asked)
    <2>2. Season \in D <=> /\ "tv" \in asked
                           /\ AllReleased(released)
                           /\ CaughtUp(released, watched \union new)
                           /\ FirstWatched(new, watched) # {}
      BY DecisionsFacts
    <2> HIDE DEF D
    <2>3. /\ DOMAIN tasks \subseteq DOMAIN tasks'
          /\ \A t \in DOMAIN tasks : tasks'[t] = tasks[t]
          /\ \A t \in DOMAIN tasks' \ DOMAIN tasks : tasks'[t].media \in D
          /\ \A m \in D : HasTask(m) \/ \E t \in DOMAIN tasks' \ DOMAIN tasks : tasks'[t].media = m
      BY <2>1 DEF Grown, D
    <2>4. released' = released
      BY <1>2 DEF ApplyBatch
    <2>5. SeasonIsComplete' <=> AllReleased(released) /\ CaughtUp(released, watched \union new)
      BY <2>1, <2>4 DEF SeasonIsComplete, AllReleased, CaughtUp
    <2>6. SeasonIsComplete => SeasonIsComplete'
      BY <2>1, <2>4 DEF SeasonIsComplete
    <2>7. Asked => Asked'
      BY <2>3
    <2>8. Asked' => SeasonIsComplete'
      <3>1. Asked' => Asked \/ Season \in D
        BY <2>3
      <3> HIDE DEF Asked
      <3> QED BY <3>1, <2>2, <2>5, <2>6, <1>0
    <2>9. ASSUME SeasonIsComplete', Normal # {} PROVE early' \/ muted' \/ Asked'
      <3>1. CASE SeasonIsComplete
        <4> HIDE DEF Asked
        <4> QED BY <3>1, <2>1, <2>7, <2>9, <1>0, Zenon
      <3>2. CASE ~SeasonIsComplete
        <4>1. FirstWatched(new, watched) # {}
          BY <2>1, <2>4, <2>9, <3>2 DEF SeasonIsComplete, FirstWatched
        <4>2. muted' \/ Season \in D
          BY <4>1, <2>1, <2>2, <2>5, <2>9, Zenon
        <4>3. Season \in D => Asked'
          <5>1. HasTask(Season) => Asked
            BY DEF HasTask
          <5> QED BY <5>1, <2>3, <2>7
        <4> HIDE DEF Asked
        <4> QED BY <4>2, <4>3
      <3> QED BY <3>1, <3>2
    <2> HIDE DEF Asked
    <2> QED BY <2>8, <2>9
  <1>3. CASE Resolve /\ UNCHANGED world
    <2>1. DOMAIN tasks' = DOMAIN tasks /\ \A t \in DOMAIN tasks : tasks'[t].media = tasks[t].media
      BY <1>3, ResolveFacts
    <2>2. Asked' <=> Asked
      BY <2>1
    <2> HIDE DEF Asked
    <2> QED BY <2>2, <1>3, <1>0 DEF SeasonIsComplete, world
  <1>4. CASE UNCHANGED <<world, tasks>>
    <2>1. Asked' <=> Asked
      BY <1>4
    <2> HIDE DEF Asked
    <2> QED BY <2>1, <1>4, <1>0 DEF SeasonIsComplete, world
  <1> HIDE DEF Asked
  <1> QED BY <1>1, <1>2, <1>3, <1>4, WorldStep

-----------------------------------------------------------------------------
(* Announcements. *)
LEMMA BatchStep ==
  ASSUME TypeOK, ReleaseInv, BatchInv, [Next]_vars
  PROVE  BatchInv'
  <1>0. ids \subseteq DOMAIN tasks /\ DOMAIN notes = DOMAIN tasks
    BY DEF TypeOK
  <1>1. CASE ApplyBatch
    <2>1. PICK D : Grown(D)
      BY <1>1, ApplyFacts
    <2>2. UNCHANGED <<step, ids>>
      BY <1>1 DEF ApplyBatch
    <2> QED BY <2>1, <2>2, <1>0 DEF Grown, BatchInv
  <1>2. CASE SelectTasks
    <2>1. \A t \in ids' : Announceable(t)
      BY <1>2, SelectFacts
    <2>2. UNCHANGED notes
      BY <1>2 DEF SelectTasks
    <2> QED BY <2>1, <2>2 DEF BatchInv, Announceable
  <1>3. CASE SendFails
    BY <1>3 DEF SendFails, BatchInv
  <1>4. CASE PutOff
    <2>1. notes' = [notes EXCEPT ![Min(ids)] = "retry"] /\ ids' \subseteq ids /\ step = "failed"
      BY <1>4 DEF PutOff
    <2>2. ASSUME NEW t \in ids' PROVE notes'[t] # "sent"
      BY <2>1, <1>0 DEF BatchInv
    <2> QED BY <2>2 DEF BatchInv
  <1>5. CASE RetryDue
    <2>1. PICK u \in DOMAIN notes : notes' = [notes EXCEPT ![u] = "due"]
      BY <1>5 DEF RetryDue
    <2>2. UNCHANGED <<step, ids>>
      BY <1>5 DEF RetryDue
    <2> QED BY <2>1, <2>2, <1>0 DEF BatchInv
  <1>6. CASE step' \notin {"send", "failed"}
    BY <1>6 DEF BatchInv
  <1>7. CASE UNCHANGED notifier
    BY <1>7 DEF BatchInv, notifier
  <1>8. \/ ApplyBatch \/ SelectTasks \/ SendFails \/ PutOff \/ RetryDue
        \/ step' \notin {"send", "failed"}
        \/ UNCHANGED notifier
    BY DEF Next, Poll, vars, Release, TogglePrompts, Resolve, SendAccepted, MarkSent, Restart
  <1> QED BY <1>1, <1>2, <1>3, <1>4, <1>5, <1>6, <1>7, <1>8

(* One task's part of ToldInv. *)
TaskTold(t) ==
    \/ told[t] = 0
    \/ told[t] = 1 /\ (notes[t] = "sent" \/ (step = "sent" /\ t \in ids))

LEMMA ToldStep ==
  ASSUME TypeOK, ReleaseInv, BatchInv, ToldInv, [Next]_vars
  PROVE  ToldInv'
  <1>0. /\ ids \subseteq DOMAIN tasks /\ unmarked \subseteq DOMAIN tasks
        /\ DOMAIN notes = DOMAIN tasks /\ DOMAIN told = DOMAIN tasks
    BY DEF TypeOK
  <1>0a. \A t \in DOMAIN tasks \ unmarked : TaskTold(t)
    BY DEF ToldInv, TaskTold
  <1> SUFFICES ASSUME NEW t \in DOMAIN tasks' \ unmarked' PROVE TaskTold(t)'
    BY DEF ToldInv, TaskTold
  <1>1. CASE ApplyBatch
    <2>1. PICK D : Grown(D)
      BY <1>1, ApplyFacts
    <2>2. UNCHANGED <<step, ids, unmarked>>
      BY <1>1 DEF ApplyBatch
    <2>3. CASE t \in DOMAIN tasks
      <3>1. told'[t] = told[t] /\ notes'[t] = notes[t]
        BY <2>1, <2>3 DEF Grown
      <3> QED BY <3>1, <2>2, <2>3, <1>0a DEF TaskTold
    <2>4. CASE t \notin DOMAIN tasks
      BY <2>1, <2>4 DEF Grown, TaskTold
    <2> QED BY <2>3, <2>4
  <1>2. CASE Resolve
    <2>1. DOMAIN tasks' = DOMAIN tasks
      BY <1>2, ResolveFacts
    <2> QED BY <2>1, <1>2, <1>0a DEF Resolve, notifier, TaskTold
  <1>3. CASE SelectTasks
    BY <1>3, <1>0a DEF SelectTasks, TaskTold
  <1>4. CASE SendAccepted
    <2>1. /\ told' = [u \in DOMAIN told |-> told[u] + (IF u \in ids THEN 1 ELSE 0)]
          /\ step = "send" /\ step' = "sent"
          /\ UNCHANGED <<tasks, notes, ids, unmarked>>
      BY <1>4 DEF SendAccepted, Tell
    <2>2. t \in DOMAIN tasks \ unmarked /\ TaskTold(t) /\ told[t] \in Nat
      BY <2>1, <1>0a DEF TypeOK
    <2>3. CASE t \in ids
      <3>1. notes[t] # "sent"
        BY <2>1, <2>3 DEF BatchInv
      <3>2. told[t] = 0
        BY <3>1, <2>1, <2>2 DEF TaskTold
      <3> QED BY <3>2, <2>1, <2>2, <2>3, <1>0 DEF TaskTold
    <2>4. CASE t \notin ids
      <3>1. told'[t] = told[t]
        BY <2>1, <2>2, <2>4, <1>0
      <3> QED BY <3>1, <2>1, <2>2, <2>4 DEF TaskTold
    <2> QED BY <2>3, <2>4
  <1>5. CASE MarkSent
    <2>1. /\ notes' = [u \in DOMAIN notes |-> IF u \in ids THEN "sent" ELSE notes[u]]
          /\ UNCHANGED <<tasks, told, unmarked>>
      BY <1>5 DEF MarkSent
    <2> QED BY <2>1, <1>0, <1>0a DEF TaskTold
  <1>6. CASE PutOff
    <2>1. /\ notes' = [notes EXCEPT ![Min(ids)] = "retry"]
          /\ step = "failed"
          /\ UNCHANGED <<tasks, told, unmarked>>
      BY <1>6 DEF PutOff
    <2>2. Min(ids) \in ids /\ notes[Min(ids)] # "sent"
      BY <2>1, <1>6, PutOffFacts DEF BatchInv
    <2>3. TaskTold(t) /\ t \in DOMAIN tasks
      BY <2>1, <1>0a
    <2>4. told[t] = 0 \/ (told[t] = 1 /\ notes[t] = "sent")
      BY <2>1, <2>3 DEF TaskTold
    <2>5. notes[t] = "sent" => notes'[t] = "sent"
      BY <2>1, <2>2, <2>3, <1>0
    <2> QED BY <2>1, <2>4, <2>5 DEF TaskTold
  <1>7. CASE RetryDue
    <2>1. PICK u \in DOMAIN notes : notes[u] = "retry" /\ notes' = [notes EXCEPT ![u] = "due"]
      BY <1>7 DEF RetryDue
    <2>2. UNCHANGED <<tasks, told, unmarked, step, ids>>
      BY <1>7 DEF RetryDue
    <2> QED BY <2>1, <2>2, <1>0, <1>0a DEF TaskTold
  <1>8. CASE SendFails
    <2>1. step = "send" /\ UNCHANGED <<tasks, notes, ids>>
      BY <1>8 DEF SendFails
    <2>2. CASE Tell /\ unmarked' = unmarked \union ids
      <3>1. t \in DOMAIN tasks /\ t \notin unmarked /\ t \notin ids
        BY <2>1, <2>2
      <3>2. told'[t] = told[t] + 0 /\ told[t] \in Nat
        BY <2>2, <3>1, <1>0 DEF Tell, TypeOK
      <3>3. told'[t] = told[t]
        BY <3>2
      <3>4. told[t] = 0 \/ (told[t] = 1 /\ notes[t] = "sent")
        BY <3>1, <2>1, <1>0a DEF TaskTold
      <3> QED BY <3>3, <3>4, <2>1 DEF TaskTold
    <2>3. CASE UNCHANGED <<told, unmarked>>
      <3>1. told[t] = 0 \/ (told[t] = 1 /\ notes[t] = "sent")
        BY <2>1, <2>3, <1>0a DEF TaskTold
      <3> QED BY <3>1, <2>1, <2>3 DEF TaskTold
    <2> QED BY <2>2, <2>3, <1>8 DEF SendFails
  <1>9. CASE Restart
    <2>1. /\ unmarked' = (IF step = "sent" THEN unmarked \union ids ELSE unmarked)
          /\ UNCHANGED <<tasks, notes, told>>
      BY <1>9 DEF Restart
    <2>2. told[t] = 0 \/ (told[t] = 1 /\ notes[t] = "sent")
      BY <2>1, <1>0a DEF TaskTold
    <2> QED BY <2>1, <2>2 DEF TaskTold
  <1>10. CASE UNCHANGED <<tasks, notifier>>
    BY <1>10, <1>0a DEF notifier, TaskTold
  <1>11. \/ ApplyBatch \/ Resolve \/ SelectTasks \/ SendAccepted \/ MarkSent \/ PutOff \/ RetryDue
         \/ SendFails \/ Restart
         \/ UNCHANGED <<tasks, notifier>>
    BY DEF Next, Poll, vars, Release, TogglePrompts
  <1> QED BY <1>1, <1>2, <1>3, <1>4, <1>5, <1>6, <1>7, <1>8, <1>9, <1>10, <1>11

-----------------------------------------------------------------------------
LEMMA InvInit == Init => IInv
  <1> SUFFICES ASSUME Init PROVE IInv
    OBVIOUS
  <1>1. TypeOK
    BY TypeInit
  <1>2. /\ tasks = <<>> /\ DOMAIN tasks = {} /\ step = "idle"
        /\ released = {} /\ watched = {}
    BY DEF Init
  <1>3. IsFiniteSet({})
    BY FS_EmptySet
  <1> QED BY <1>1, <1>2, <1>3 DEF IInv, OneOpenTask, ReleaseInv, WatchedInv, BatchInv, ToldInv,
                                  SeasonIsAskedForWhenComplete, SeasonIsComplete

LEMMA InvStep == IInv /\ [Next]_vars => IInv'
  BY TypeStep, OneOpenStep, ReleaseStep, WatchedStep, SeasonStep, BatchStep, ToldStep DEF IInv

LEMMA Invariant == Spec => []IInv
  BY InvInit, InvStep, PTL DEF Spec

(* The statements keep the three tables in step: every task has its row of   *)
(* announcements, and the notifier always holds tasks that exist.            *)
THEOREM PromptTypes == Spec => []TypeOK
  BY Invariant, PTL DEF IInv

(* Apply and the user's resolutions never leave a title with two open tasks. *)
THEOREM TitleIsAskedOnce == Spec => []OneOpenTask
  BY Invariant, PTL DEF IInv

(* Evaluate asks about a season when and only when it is complete, unless it *)
(* was watched early or while nothing was asked.                            *)
THEOREM SeasonIsAskedFor == Spec => []SeasonIsAskedForWhenComplete
  BY Invariant, PTL DEF IInv

(* pollTasks announces a task again only when its mark was lost. *)
THEOREM TaskIsAnnouncedOnce == Spec => []AnnouncedOnce
  <1>1. IInv => AnnouncedOnce
    <2> SUFFICES ASSUME IInv, NEW t \in DOMAIN tasks, told[t] > 1, t \notin unmarked PROVE FALSE
      BY DEF AnnouncedOnce
    <2>1. told[t] = 0 \/ told[t] = 1
      BY DEF IInv, ToldInv
    <2> QED BY <2>1
  <1> QED BY <1>1, Invariant, PTL

(* Evaluate asks about an episode only when it is the newest and has just    *)
(* been watched, with nothing before it left.                               *)
THEOREM EpisodeIsAskedFor == Spec => EpisodeIsAskedForWhenCaughtUp
  <1>1. ASSUME IInv, [Next]_vars
        PROVE  [\A t \in DOMAIN tasks' \ DOMAIN tasks :
                    LET e == tasks'[t].media
                    IN  e \in Episodes =>
                          /\ e \in Normal \intersect released /\ e \notin watched /\ e \in watched'
                          /\ \A f \in Normal : f \in released <=> f <= e
                          /\ {f \in Normal : f <= e} \subseteq watched'
                          /\ \E f \in Normal : f > e]_vars
    <2>1. CASE ApplyBatch
      <3>1. PICK new \in SUBSET Episodes, movie \in BOOLEAN, asked \in SUBSET enabled :
              /\ watched' = watched \union new
              /\ Grown(Decisions(released, new, watched, movie, asked))
        BY <1>1, <2>1, ApplyFacts DEF IInv
      <3> DEFINE D == Decisions(released, new, watched, movie, asked)
      <3> SUFFICES ASSUME NEW t \in DOMAIN tasks' \ DOMAIN tasks,
                          NEW e, e = tasks'[t].media, e \in Episodes
                   PROVE  /\ e \in Normal \intersect released /\ e \notin watched /\ e \in watched'
                          /\ \A f \in Normal : f \in released <=> f <= e
                          /\ {f \in Normal : f <= e} \subseteq watched'
                          /\ \E f \in Normal : f > e
        OBVIOUS
      <3>2. e \in D
        BY <3>1 DEF Grown
      <3>3. /\ released \intersect Normal # {} /\ e = Newest(released)
            /\ e \in FirstWatched(new, watched)
            /\ ~AllReleased(released)
            /\ CaughtUp(released, watched \union new)
        BY <3>2, <1>1, DecisionsFacts DEF IInv
      <3>4. e \in released \intersect Normal /\ \A f \in released \intersect Normal : f <= e
        BY <3>3, <1>1, NewestFacts DEF IInv
      <3>5. \A f \in Normal : f \in released <=> f <= e
        BY <3>4, <1>1 DEF IInv, ReleaseInv, Normal
      <3>6. e \notin watched /\ e \in watched'
        BY <3>1, <3>3 DEF FirstWatched
      <3>7. {f \in Normal : f <= e} \subseteq watched'
        BY <3>1, <3>3, <3>5 DEF CaughtUp
      <3>8. \E f \in Normal : f > e
        <4>1. PICK f \in Normal : f \notin released
          BY <3>3 DEF AllReleased
        <4>2. f \in Nat /\ e \in Nat /\ ~(f <= e)
          BY <4>1, <3>4, <3>5, EpisodesAssumption DEF Normal
        <4> QED BY <4>2
      <3> QED BY <3>4, <3>5, <3>6, <3>7, <3>8
    <2>2. CASE Resolve
      BY <2>2, <1>1, ResolveFacts DEF IInv
    <2>3. CASE UNCHANGED tasks
      BY <2>3
    <2>4. ApplyBatch \/ Resolve \/ UNCHANGED tasks
      BY <1>1 DEF Next, Poll, vars, Release, TogglePrompts, SelectTasks, SendAccepted, MarkSent,
                  PutOff, RetryDue, SendFails, Restart
    <2> QED BY <2>1, <2>2, <2>3, <2>4
  <1> QED BY <1>1, Invariant, PTL DEF Spec, EpisodeIsAskedForWhenCaughtUp
=============================================================================
