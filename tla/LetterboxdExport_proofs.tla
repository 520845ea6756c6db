----------------------- MODULE LetterboxdExport_proofs -----------------------
(***************************************************************************)
(* Proofs about LetterboxdExport, for any movies, watches, timezones and   *)
(* sizes, and any number of edits and batches.                             *)
(***************************************************************************)
EXTENDS LetterboxdExport, FiniteOrders, SequenceTheorems

Working == at # "idle"

HasRow == at \in {"rating", "review", "revisions", "decide"}

TablesType ==
    /\ batches \in Seq(Batch)
    /\ rows \in Seq(Row)
    /\ Working => location \in Zones
    /\ HasRow => row \in Row

WatchInv == IsFiniteSet({e \in Events : watch[e] # NoWatch})

(* What was never written is not there. *)
CurrentInv ==
    \A m \in Movies, k \in Kinds : changes[m][k] = 0 => current[m][k] = NoValue

-----------------------------------------------------------------------------
(* One row: its values are the current ones as long as its revisions are,    *)
(* and it stands for watches of its movie and day.                          *)
Read(r) ==
    \A k \in Kinds :
        /\ r.seen[k] <= changes[r.key[1]][k]
        /\ r.seen[k] = changes[r.key[1]][k] => r.values[k] = current[r.key[1]][k]

Revised(r) == \A k \in Kinds : r.seen[k] <= r.revision[k] /\ r.revision[k] <= changes[r.key[1]][k]

Placed(r, z) ==
    /\ r.events # {}
    /\ \A e \in r.events : watch[e] # NoWatch /\ r.key = <<watch[e][1], z[watch[e][2]]>>

(* Rows in the order of their days. *)
Ordered(s) ==
    \A i, j \in DOMAIN s : i < j => s[i].key[2] <= s[j].key[2] /\ s[i].key # s[j].key

(* A day that is not the latest one carries nothing. *)
OnlyLatest(r) == ~IsLatest(watched, r.key) => r.values = Nothing /\ r.revision = Unrevised

-----------------------------------------------------------------------------
(* The batches. *)
RowsInv ==
    \A b \in DOMAIN batches :
        LET s == batches[b].rows
        IN  /\ s # <<>> /\ Ordered(s)
            /\ \A i \in DOMAIN s : Read(s[i]) /\ Revised(s[i]) /\ Placed(s[i], batches[b].zone)

TornInv ==
    \A b \in DOMAIN batches : \A i \in DOMAIN batches[b].rows :
        LET r == batches[b].rows[i]
        IN  r.key[1] \notin torn => \A k \in Kinds : r.revision[k] <= r.seen[k]

(* A later batch knows the watches of the ones before it: a day that one of  *)
(* them has overtaken carries nothing.                                      *)
OvertakenInv ==
    \A b, c \in DOMAIN batches :
        b < c /\ batches[b].zone = batches[c].zone =>
            \A i \in DOMAIN batches[b].rows, j \in DOMAIN batches[c].rows :
                LET r == batches[b].rows[i]
                    s == batches[c].rows[j]
                IN  r.key[1] = s.key[1] /\ s.key[2] < r.key[2] => s.revision = Unrevised

(* A row that is still of the latest day of its movie carries revisions that *)
(* no batch before it surpasses.                                            *)
Surpasses(r, s) == r.key[1] = s.key[1] => \A k \in Kinds : s.revision[k] <= r.revision[k]

RevisionInv ==
    \A b, c \in DOMAIN batches :
        b < c =>
            \A i \in DOMAIN batches[b].rows, j \in DOMAIN batches[c].rows :
                LET r == batches[c].rows[j]
                IN  IsLatest(WatchedIn(batches[c].zone), r.key)
                        => Surpasses(r, batches[b].rows[i])

-----------------------------------------------------------------------------
(* Confirmations: they are numbered, and the diary shows the last one of a   *)
(* movie and day.                                                           *)
ConfirmedInv ==
    \A b, c \in DOMAIN batches :
        Confirmed(b) /\ batches[b].confirmed = batches[c].confirmed => b = c

CountInv == confirmations = Cardinality({b \in DOMAIN batches : Confirmed(b)})

ShowsKey(b, key) ==
    /\ Confirmed(b)
    /\ \E i \in DOMAIN batches[b].rows : batches[b].rows[i].key = key

LastToShow(b, key) ==
    /\ ShowsKey(b, key)
    /\ \A c \in DOMAIN batches : ShowsKey(c, key) => batches[c].confirmed <= batches[b].confirmed

DiaryInv ==
    \A b \in DOMAIN batches : \A i \in DOMAIN batches[b].rows :
        LET r == batches[b].rows[i]
        IN  LastToShow(b, r.key) => diary[r.key] = r.values

-----------------------------------------------------------------------------
(* The generator: what it has loaded is still so, and covers every batch. *)
LoadedInv ==
    Working =>
        /\ \A e \in Events : watched[e] # NoWatch =>
               watch[e] # NoWatch /\ watched[e] = <<watch[e][1], location[watch[e][2]]>>
        /\ todo \subseteq KeysOf(watched)
        /\ \A b \in DOMAIN batches : batches[b].zone = location =>
               \A i \in DOMAIN batches[b].rows : batches[b].rows[i].key \in KeysOf(watched)

(* A row that has been put together. *)
Finished(r) ==
    /\ Read(r) /\ Revised(r)
    /\ OnlyLatest(r)
    /\ IsLatest(watched, r.key) =>
           \A b \in DOMAIN batches : \A i \in DOMAIN batches[b].rows :
               Surpasses(r, batches[b].rows[i])

(* A row of a day the generator has taken up. *)
Taken(r) ==
    /\ Placed(r, location)
    /\ r.key \in KeysOf(watched) \ todo
    /\ \A key \in todo : r.key[2] <= key[2]

MadeInv ==
    Working =>
        /\ Ordered(rows)
        /\ \A i \in DOMAIN rows : Taken(rows[i]) /\ Finished(rows[i])

MakingInv ==
    HasRow =>
        /\ Taken(row) /\ Read(row) /\ OnlyLatest(row)
        /\ \A i \in DOMAIN rows : rows[i].key[2] <= row.key[2] /\ rows[i].key # row.key
        /\ at # "decide" => IsLatest(watched, row.key)
        /\ at = "decide" => Finished(row)

IdleInv == ~Working => rows = <<>>

IInv ==
    /\ TypeOK /\ TablesType /\ WatchInv /\ CurrentInv
    /\ RowsInv /\ TornInv /\ OvertakenInv /\ RevisionInv
    /\ ConfirmedInv /\ CountInv /\ DiaryInv
    /\ LoadedInv /\ MadeInv /\ MakingInv /\ IdleInv
    /\ OneDayCarriesTheRating /\ FilesHoldTheBatch

-----------------------------------------------------------------------------
(* Lists of lists. *)
Flattens(g, fs) == g[1] = fs[1] /\ \A i \in 2 .. Len(fs) : g[i] = g[i - 1] \o fs[i]

LEMMA FlattenIs ==
  ASSUME NEW X, NEW fs \in Seq(Seq(X)), fs # <<>>
  PROVE  \E g : Flattens(g, fs) /\ FlattenSeq(fs) = g[Len(fs)]
  <1> DEFINE n == Len(fs)
             D == 1 .. n
             step == [i \in 1 .. (n - 1) |-> [a \in Seq(X) |-> a \o fs[i + 1]]]
             Is(g) == g = [i \in D |-> IF i = 1 THEN fs[i] ELSE g[i - 1] \o fs[i]]
  <1>1. n \in Nat /\ n >= 1 /\ \A i \in D : fs[i] \in Seq(X)
    OBVIOUS
  <1> HIDE DEF n
  <1>2. \A i \in 1 .. (n - 1) : i + 1 \in D
    BY <1>1
  <1>3. step \in [1 .. (n - 1) -> [Seq(X) -> Seq(X)]]
    <2>1. ASSUME NEW i \in 1 .. (n - 1) PROVE [a \in Seq(X) |-> a \o fs[i + 1]] \in [Seq(X) -> Seq(X)]
      <3>1. fs[i + 1] \in Seq(X)
        BY <1>1, <1>2
      <3> QED BY <3>1
    <2> QED BY <2>1
  <1>4. fs[1] \in Seq(X) /\ n - 1 \in Nat
    BY <1>1
  <1>5. PICK f \in [0 .. (n - 1) -> Seq(X)] : Follows(f, n - 1, fs[1], step)
    <2> HIDE DEF step
    <2> QED BY <1>3, <1>4, RecursionExists
  <1>6. f[0] = fs[1] /\ \A i \in 1 .. (n - 1) : f[i] = f[i - 1] \o fs[i + 1]
    <2>1. f[0] = fs[1] /\ \A i \in 1 .. (n - 1) : f[i] = step[i][f[i - 1]]
      BY <1>5 DEF Follows
    <2>2. \A i \in 1 .. (n - 1) : f[i - 1] \in Seq(X)
      BY <1>1, <1>5
    <2> QED BY <2>1, <2>2
  <1> DEFINE h == [i \in D |-> f[i - 1]]
  <1>7. Is(h)
    <2>1. ASSUME NEW i \in D PROVE f[i - 1] = IF i = 1 THEN fs[i] ELSE h[i - 1] \o fs[i]
      <3>1. CASE i = 1
        BY <3>1, <1>6
      <3>2. CASE i # 1
        <4>1. i - 1 \in 1 .. (n - 1) /\ i - 1 \in D /\ (i - 1) + 1 = i
          BY <3>2, <1>1
        <4>2. h[i - 1] = f[(i - 1) - 1]
          BY <4>1
        <4> QED BY <3>2, <4>1, <4>2, <1>6
      <3> QED BY <3>1, <3>2
    <2> QED BY <2>1
  <1> DEFINE g == CHOOSE x : Is(x)
  <1>8. Is(g)
    <2> HIDE DEF h, Is
    <2> QED BY <1>7
  <1>9. FlattenSeq(fs) = g[n]
    BY <1>1 DEF FlattenSeq, n
  <1> HIDE DEF g
  <1>10. Flattens(g, fs)
    <2>1. \A i \in D : g[i] = IF i = 1 THEN fs[i] ELSE g[i - 1] \o fs[i]
      BY <1>8
    <2>2. g[1] = fs[1] /\ \A i \in 2 .. n : g[i] = g[i - 1] \o fs[i]
      <3>1. 1 \in D /\ \A i \in 2 .. n : i \in D /\ i # 1
        BY <1>1
      <3> HIDE DEF D
      <3> QED BY <2>1, <3>1
    <2> QED BY <2>2 DEF Flattens, n
  <1> QED BY <1>9, <1>10 DEF n

LEMMA FlattenOne ==
  ASSUME NEW X, NEW f \in Seq(X)
  PROVE  FlattenSeq(<<f>>) = f
  <1>1. <<f>> \in Seq(Seq(X)) /\ <<f>> # <<>> /\ Len(<<f>>) = 1 /\ <<f>>[1] = f
    OBVIOUS
  <1> DEFINE fs == <<f>>
  <1> HIDE DEF fs
  <1>2. PICK g : Flattens(g, fs) /\ FlattenSeq(fs) = g[Len(fs)]
    BY <1>1, FlattenIs DEF fs
  <1>3. FlattenSeq(fs) = f
    BY <1>1, <1>2 DEF Flattens, fs
  <1> QED BY <1>3 DEF fs

LEMMA FlattenAppend ==
  ASSUME NEW X, NEW fs \in Seq(Seq(X)), NEW f \in Seq(X)
  PROVE  FlattenSeq(Append(fs, f)) = FlattenSeq(fs) \o f /\ FlattenSeq(fs) \in Seq(X)
  <1>1. CASE fs = <<>>
    <2>1. Append(fs, f) = <<f>> /\ FlattenSeq(fs) = <<>>
      BY <1>1 DEF FlattenSeq
    <2>2. FlattenSeq(Append(fs, f)) = f
      BY <2>1, FlattenOne
    <2>3. <<>> \o f = f
      OBVIOUS
    <2> QED BY <2>1, <2>2, <2>3
  <1>2. CASE fs # <<>>
    <2> DEFINE a == Append(fs, f)
               n == Len(fs)
    <2>1. /\ a \in Seq(Seq(X)) /\ a # <<>> /\ Len(a) = n + 1
          /\ n \in Nat /\ n >= 1
          /\ a[n + 1] = f /\ \A i \in 1 .. n : a[i] = fs[i] /\ fs[i] \in Seq(X)
      BY <1>2, AppendProperties
    <2> HIDE DEF a
    <2>2. PICK g : Flattens(g, fs) /\ FlattenSeq(fs) = g[n]
      BY <1>2, FlattenIs
    <2>3. PICK h : Flattens(h, a) /\ FlattenSeq(a) = h[Len(a)]
      BY <2>1, FlattenIs
    <2> HIDE DEF n
    <2>4. /\ g[1] = fs[1] /\ \A i \in 2 .. n : g[i] = g[i - 1] \o fs[i]
          /\ h[1] = a[1] /\ \A i \in 2 .. (n + 1) : h[i] = h[i - 1] \o a[i]
          /\ FlattenSeq(fs) = g[n] /\ FlattenSeq(a) = h[n + 1]
      BY <2>1, <2>2, <2>3 DEF Flattens, n
    <2> DEFINE T == {i \in Nat : i = 0 \/ (g[i] = h[i] /\ g[i] \in Seq(X))}
    <2>5. ASSUME NEW i \in 0 .. n, i \in T, i < n PROVE i + 1 \in T
      <3>1. i + 1 \in 1 .. n /\ a[i + 1] = fs[i + 1] /\ fs[i + 1] \in Seq(X)
        BY <2>1, <2>5
      <3>2. CASE i = 0
        BY <3>1, <3>2, <2>1, <2>4
      <3>3. CASE i # 0
        <4>1. i + 1 \in 2 .. n /\ i + 1 \in 2 .. (n + 1) /\ (i + 1) - 1 = i
          BY <3>3, <2>1, <2>5
        <4>2. g[i + 1] = g[i] \o fs[i + 1] /\ h[i + 1] = h[i] \o a[i + 1]
          BY <4>1, <2>4
        <4>3. g[i] = h[i] /\ g[i] \in Seq(X)
          BY <3>3, <2>5
        <4>4. g[i + 1] \in Seq(X)
          BY <4>2, <4>3, <3>1
        <4>5. g[i + 1] = h[i + 1] /\ i + 1 \in Nat
          BY <4>2, <4>3, <3>1
        <4> QED BY <4>4, <4>5
      <3> QED BY <3>2, <3>3
    <2>6. 0 \in T
      OBVIOUS
    <2>7. 0 .. n \subseteq T
      <3> HIDE DEF T
      <3> QED BY <2>1, <2>5, <2>6, UpTo
    <2>8. g[n] = h[n] /\ g[n] \in Seq(X)
      BY <2>1, <2>7
    <2>9. n + 1 \in 2 .. (n + 1) /\ (n + 1) - 1 = n
      BY <2>1
    <2>10. h[n + 1] = h[n] \o f
      BY <2>1, <2>4, <2>9
    <2> QED BY <2>4, <2>8, <2>10 DEF a
  <1> QED BY <1>1, <1>2

(* A list with one entry more. *)
Extends(a, s, e, S) ==
    /\ a \in Seq(S) /\ a # <<>>
    /\ Len(s) \in Nat /\ Len(a) = Len(s) + 1
    /\ \A i \in 1 .. Len(s) : a[i] = s[i]
    /\ a[Len(s) + 1] = e

LEMMA AppendExtends ==
  ASSUME NEW S, NEW s \in Seq(S), NEW e \in S, NEW a, a = Append(s, e)
  PROVE  Extends(a, s, e, S)
  <1>1. /\ Append(s, e) \in Seq(S) /\ Append(s, e) # <<>>
        /\ Len(Append(s, e)) = Len(s) + 1
        /\ \A i \in 1 .. Len(s) : Append(s, e)[i] = s[i]
        /\ Append(s, e)[Len(s) + 1] = e
    BY AppendProperties
  <1> QED BY <1>1 DEF Extends

(* A list is all but its last entry, and its last. *)
LEMMA FrontLast ==
  ASSUME NEW S, NEW s \in Seq(S), s # <<>>
  PROVE  Front(s) \in Seq(S) /\ Last(s) \in S /\ s = Append(Front(s), Last(s))
  <1> DEFINE n == Len(s)
  <1>1. n \in Nat /\ n >= 1 /\ \A i \in 1 .. n : s[i] \in S
    OBVIOUS
  <1>2. /\ Front(s) \in Seq(S) /\ Len(Front(s)) = n - 1
        /\ \A i \in 1 .. (n - 1) : Front(s)[i] = s[i]
    <2>1. \A i \in 1 .. (n - 1) : s[i] \in S
      BY <1>1
    <2>2. /\ SubSeq(s, 1, n - 1) \in Seq(S)
          /\ Len(SubSeq(s, 1, n - 1)) = IF 1 <= n - 1 THEN (n - 1) - 1 + 1 ELSE 0
          /\ \A i \in 1 .. (n - 1) - 1 + 1 : SubSeq(s, 1, n - 1)[i] = s[1 + i - 1]
      <3>1. 1 \in Int /\ n - 1 \in Int
        BY <1>1
      <3> HIDE DEF n
      <3> QED BY <2>1, <3>1, SubSeqProperties
    <2>3. Front(s) = SubSeq(s, 1, n - 1)
      BY DEF Front
    <2> DEFINE f == Front(s)
    <2>4. /\ f \in Seq(S)
          /\ Len(f) = IF 1 <= n - 1 THEN (n - 1) - 1 + 1 ELSE 0
          /\ \A i \in 1 .. (n - 1) - 1 + 1 : f[i] = s[1 + i - 1]
      BY <2>2, <2>3
    <2> HIDE DEF n, f
    <2>5. Len(f) = n - 1
      BY <1>1, <2>4
    <2>6. ASSUME NEW i \in 1 .. (n - 1) PROVE f[i] = s[i]
      <3>1. i \in 1 .. (n - 1) - 1 + 1 /\ 1 + i - 1 = i
        BY <1>1
      <3> QED BY <2>4, <3>1
    <2> QED BY <2>4, <2>5, <2>6 DEF f
  <1>3. Last(s) = s[n] /\ Last(s) \in S
    BY <1>1 DEF Last
  <1> DEFINE a == Append(Front(s), Last(s))
  <1>4. a \in Seq(S) /\ Len(a) = n /\ \A i \in 1 .. n : a[i] = s[i]
    <2>1. /\ a \in Seq(S) /\ Len(a) = (n - 1) + 1
          /\ \A i \in 1 .. (n - 1) : a[i] = Front(s)[i]
          /\ a[(n - 1) + 1] = s[n]
      BY <1>2, <1>3, AppendProperties
    <2> QED BY <2>1, <1>1, <1>2
  <1> HIDE DEF a
  <1>5. a = s
    BY <1>4, SeqEqual
  <1> QED BY <1>2, <1>3, <1>5 DEF a

-----------------------------------------------------------------------------
(* The files of a batch. *)
LEMMA SizeIsNatural ==
  ASSUME NEW r
  PROVE  Size(r) \in Nat
  <1> DEFINE K == {k \in Kinds : r.values[k] # NoValue}
  <1>1. IsFiniteSet(Kinds)
    <2>1. IsFiniteSet({"rating"}) /\ IsFiniteSet({"review"})
      BY FS_Singleton
    <2>2. IsFiniteSet({"rating"} \union {"review"})
      BY <2>1, FS_Union
    <2>3. Kinds = {"rating"} \union {"review"}
      BY DEF Kinds
    <2> QED BY <2>2, <2>3
  <1>2. Cardinality(K) \in Nat
    <2>1. K \subseteq Kinds
      OBVIOUS
    <2> HIDE DEF K
    <2> QED BY <1>1, <2>1, FS_Subset, FS_CardinalityType
  <1> QED BY <1>2 DEF Size

Sums(g, file) == g[0] = HeaderSize /\ \A i \in 1 .. Len(file) : g[i] = g[i - 1] + Size(file[i])

LEMMA FileSizeIs ==
  ASSUME NEW file \in Seq(Row)
  PROVE  \E g : Sums(g, file) /\ FileSize(file) = g[Len(file)]
  <1> DEFINE n == Len(file)
             D == 0 .. n
             step == [i \in 1 .. n |-> [a \in Nat |-> a + Size(file[i])]]
             Is(g) == g = [i \in D |-> IF i = 0 THEN HeaderSize ELSE g[i - 1] + Size(file[i])]
  <1>1. n \in Nat /\ HeaderSize \in Nat
    BY SizeAssumption
  <1> HIDE DEF n
  <1>2. step \in [1 .. n -> [Nat -> Nat]]
    <2>1. \A i \in 1 .. n : Size(file[i]) \in Nat
      BY SizeIsNatural
    <2> QED BY <2>1
  <1>3. PICK f \in [0 .. n -> Nat] : Follows(f, n, HeaderSize, step)
    <2> HIDE DEF step
    <2> QED BY <1>1, <1>2, RecursionExists
  <1>4. f[0] = HeaderSize /\ \A i \in 1 .. n : f[i] = f[i - 1] + Size(file[i])
    <2>1. f[0] = HeaderSize /\ \A i \in 1 .. n : f[i] = step[i][f[i - 1]]
      BY <1>3 DEF Follows
    <2>2. \A i \in 1 .. n : f[i - 1] \in Nat
      BY <1>1, <1>3
    <2> QED BY <2>1, <2>2
  <1>5. Is(f)
    <2>1. \A i \in D : i # 0 => i \in 1 .. n
      BY <1>1
    <2> QED BY <1>3, <1>4, <2>1
  <1> DEFINE g == CHOOSE x : Is(x)
  <1>6. Is(g)
    <2> HIDE DEF Is
    <2> QED BY <1>5
  <1>7. FileSize(file) = g[n]
    BY DEF FileSize, n
  <1> HIDE DEF g
  <1>8. Sums(g, file)
    <2>1. \A i \in D : g[i] = IF i = 0 THEN HeaderSize ELSE g[i - 1] + Size(file[i])
      BY <1>6
    <2>2. 0 \in D /\ \A i \in 1 .. n : i \in D /\ i # 0
      BY <1>1
    <2> HIDE DEF D
    <2> QED BY <2>1, <2>2 DEF Sums, n
  <1> QED BY <1>7, <1>8 DEF n

LEMMA FileSizeFacts ==
  ASSUME NEW file \in Seq(Row)
  PROVE  /\ FileSize(file) \in Nat
         /\ Len(file) = 1 => FileSize(file) = HeaderSize + Size(file[1])
  <1> DEFINE n == Len(file)
  <1>1. PICK g : Sums(g, file) /\ FileSize(file) = g[n]
    BY FileSizeIs
  <1>2. n \in Nat
    OBVIOUS
  <1>3. g[0] = HeaderSize /\ \A i \in 1 .. n : g[i] = g[i - 1] + Size(file[i])
    BY <1>1 DEF Sums
  <1> HIDE DEF n
  <1> DEFINE T == {i \in Nat : g[i] \in Nat}
  <1>4. 0 \in T
    BY <1>3, SizeAssumption
  <1>5. ASSUME NEW i \in 0 .. n, i \in T, i < n PROVE i + 1 \in T
    <2>1. i + 1 \in 1 .. n /\ (i + 1) - 1 = i
      BY <1>2, <1>5
    <2>2. g[i + 1] = g[i] + Size(file[i + 1])
      BY <1>3, <2>1
    <2>3. Size(file[i + 1]) \in Nat
      BY SizeIsNatural
    <2> QED BY <2>1, <2>2, <2>3, <1>5
  <1>6. 0 .. n \subseteq T
    <2> HIDE DEF T
    <2> QED BY <1>2, <1>4, <1>5, UpTo
  <1>7. FileSize(file) \in Nat
    BY <1>1, <1>2, <1>6
  <1>8. ASSUME n = 1 PROVE FileSize(file) = HeaderSize + Size(file[1])
    <2>1. g[1] = g[1 - 1] + Size(file[1])
      BY <1>8, <1>3
    <2> QED BY <2>1, <1>8, <1>1, <1>3
  <1> QED BY <1>7, <1>8 DEF n

Fits(files) == \A i \in DOMAIN files : files[i] # <<>> /\ FileSize(files[i]) < MaxBytes

LEMMA Associates ==
  \A S : \A s, t, u \in Seq(S) : s \o (t \o u) = (s \o t) \o u
  BY ConcatAssociative

LEMMA AddRowFacts ==
  ASSUME NEW files \in Seq(Seq(Row)), files # <<>>, NEW r \in Row
  PROVE  /\ AddRow(files, r) \in Seq(Seq(Row)) /\ AddRow(files, r) # <<>>
         /\ FlattenSeq(AddRow(files, r)) = FlattenSeq(files) \o <<r>>
         /\ (files = <<<<>>>> \/ Fits(files)) /\ HeaderSize + Size(r) < MaxBytes
                => Fits(AddRow(files, r))
  <1> DEFINE F == Front(files)
             L == Last(files)
             N == Append(L, r)
  <1>1. F \in Seq(Seq(Row)) /\ L \in Seq(Row) /\ files = Append(F, L)
    BY FrontLast
  <1> HIDE DEF F, L
  <1>2. N \in Seq(Row) /\ N # <<>> /\ N = L \o <<r>>
    <2>1. N \in Seq(Row) /\ N # <<>>
      BY <1>1, AppendProperties
    <2>2. N = L \o <<r>>
      BY <1>1, AppendIsConcat
    <2> QED BY <2>1, <2>2
  <1>3. FlattenSeq(files) = FlattenSeq(F) \o L /\ FlattenSeq(F) \in Seq(Row) /\ FlattenSeq(files) \in Seq(Row)
    <2>1. FlattenSeq(Append(F, L)) = FlattenSeq(F) \o L /\ FlattenSeq(F) \in Seq(Row)
      BY <1>1, FlattenAppend
    <2>2. FlattenSeq(F) \o L \in Seq(Row)
      BY <2>1, <1>1, ConcatProperties
    <2> QED BY <2>1, <2>2, <1>1
  <1>4. <<r>> \in Seq(Row) /\ <<r>> # <<>> /\ Len(<<r>>) = 1 /\ <<r>>[1] = r
    OBVIOUS
  <1>5. FileSize(<<r>>) = HeaderSize + Size(r)
    <2> DEFINE f == <<r>>
    <2>1. f \in Seq(Row) /\ Len(f) = 1 /\ f[1] = r
      BY <1>4
    <2> HIDE DEF f
    <2>2. FileSize(f) = HeaderSize + Size(r)
      BY <2>1, FileSizeFacts
    <2> QED BY <2>2 DEF f
  <1> HIDE DEF N
  <1>6. FileSize(N) \in Nat /\ MaxBytes \in Nat
    BY <1>2, FileSizeFacts, SizeAssumption
  <1>7. CASE FileSize(N) >= MaxBytes
    <2>1. AddRow(files, r) = Append(files, <<r>>)
      BY <1>7 DEF AddRow, N, L
    <2>2. /\ Append(files, <<r>>) \in Seq(Seq(Row)) /\ Append(files, <<r>>) # <<>>
          /\ Len(Append(files, <<r>>)) = Len(files) + 1
          /\ \A i \in 1 .. Len(files) : Append(files, <<r>>)[i] = files[i]
          /\ Append(files, <<r>>)[Len(files) + 1] = <<r>>
      <3> DEFINE f == <<r>>
      <3>1. f \in Seq(Row)
        BY <1>4
      <3> HIDE DEF f
      <3>2. /\ Append(files, f) \in Seq(Seq(Row)) /\ Append(files, f) # <<>>
            /\ Len(Append(files, f)) = Len(files) + 1
            /\ \A i \in 1 .. Len(files) : Append(files, f)[i] = files[i]
            /\ Append(files, f)[Len(files) + 1] = f
        BY <3>1, AppendProperties
      <3> QED BY <3>2 DEF f
    <2>3. FlattenSeq(Append(files, <<r>>)) = FlattenSeq(files) \o <<r>>
      BY <1>4, FlattenAppend
    <2>4. ASSUME files = <<<<>>>> \/ Fits(files), HeaderSize + Size(r) < MaxBytes
          PROVE  Fits(Append(files, <<r>>))
      <3>1. files # <<<<>>>>
        <4>1. SUFFICES ASSUME files = <<<<>>>> PROVE FALSE
          OBVIOUS
        <4>2. L = <<>>
          BY <4>1 DEF L, Last
        <4>3. N = <<r>>
          BY <4>2 DEF N
        <4> QED BY <4>3, <1>5, <1>6, <1>7, <2>4
      <3> DEFINE a == Append(files, <<r>>)
      <3>2. DOMAIN a = 1 .. (Len(files) + 1) /\ Len(files) \in Nat /\ DOMAIN files = 1 .. Len(files)
        BY <2>2
      <3>3. a[Len(files) + 1] = <<r>> /\ \A i \in 1 .. Len(files) : a[i] = files[i]
        BY <2>2
      <3> HIDE DEF a
      <3>4. ASSUME NEW i \in DOMAIN a PROVE a[i] # <<>> /\ FileSize(a[i]) < MaxBytes
        <4>1. CASE i = Len(files) + 1
          BY <4>1, <3>3, <1>4, <1>5, <2>4
        <4>2. CASE i # Len(files) + 1
          <5>1. i \in DOMAIN files /\ a[i] = files[i]
            BY <4>2, <3>2, <3>3
          <5> QED BY <5>1, <3>1, <2>4 DEF Fits
        <4> QED BY <4>1, <4>2
      <3> QED BY <3>4 DEF Fits, a
    <2> QED BY <2>1, <2>2, <2>3, <2>4
  <1>8. CASE ~(FileSize(N) >= MaxBytes)
    <2> DEFINE a == Append(F, N)
    <2>1. AddRow(files, r) = a
      BY <1>8 DEF AddRow, N, L, F
    <2>2. /\ a \in Seq(Seq(Row)) /\ a # <<>>
          /\ Len(a) = Len(F) + 1
          /\ \A i \in 1 .. Len(F) : a[i] = F[i]
          /\ a[Len(F) + 1] = N
      <3>1. a = Append(F, N)
        OBVIOUS
      <3> HIDE DEF a
      <3>2. Extends(a, F, N, Seq(Row))
        BY <3>1, <1>1, <1>2, AppendExtends
      <3> QED BY <3>2 DEF Extends
    <2>3. FlattenSeq(a) = FlattenSeq(F) \o N
      BY <1>1, <1>2, FlattenAppend
    <2>4. FlattenSeq(F) \o N = FlattenSeq(files) \o <<r>>
      <3>1. FlattenSeq(F) \o (L \o <<r>>) = (FlattenSeq(F) \o L) \o <<r>>
        <4> DEFINE f == <<r>>
                   h == FlattenSeq(F)
        <4>1. f \in Seq(Row) /\ h \in Seq(Row)
          BY <1>3, <1>4
        <4> HIDE DEF f, h
        <4>2. h \o (L \o f) = (h \o L) \o f
          BY <4>1, <1>1, Associates
        <4> QED BY <4>2 DEF f, h
      <3> QED BY <3>1, <1>2, <1>3
    <2>5. ASSUME files = <<<<>>>> \/ Fits(files) PROVE Fits(a)
      <3>1. /\ Len(files) = Len(F) + 1 /\ Len(F) \in Nat /\ DOMAIN files = 1 .. (Len(F) + 1)
            /\ \A i \in 1 .. Len(F) : files[i] = F[i]
        BY <1>1, AppendProperties
      <3>2. DOMAIN a = 1 .. (Len(F) + 1)
        BY <2>2
      <3>3. a[Len(F) + 1] = N /\ \A i \in 1 .. Len(F) : a[i] = F[i]
        BY <2>2
      <3> HIDE DEF a
      <3>4. ASSUME NEW i \in DOMAIN a PROVE a[i] # <<>> /\ FileSize(a[i]) < MaxBytes
        <4>1. CASE i = Len(F) + 1
          <5>1. a[i] = N /\ N # <<>>
            BY <4>1, <3>3, <1>2
          <5>2. FileSize(N) < MaxBytes
            BY <1>6, <1>8
          <5> QED BY <5>1, <5>2
        <4>2. CASE i # Len(F) + 1
          <5>1. i \in 1 .. Len(F) /\ i \in DOMAIN files /\ a[i] = files[i]
            BY <4>2, <3>1, <3>2, <3>3
          <5>2. files # <<<<>>>>
            <6>1. SUFFICES ASSUME files = <<<<>>>> PROVE FALSE
              OBVIOUS
            <6>2. Len(files) = 1
              BY <6>1
            <6> QED BY <6>2, <5>1, <3>1
          <5> QED BY <5>1, <5>2, <2>5 DEF Fits
        <4> QED BY <4>1, <4>2
      <3> QED BY <3>4 DEF Fits
    <2> HIDE DEF a
    <2> QED BY <2>1, <2>2, <2>3, <2>4, <2>5
  <1> QED BY <1>7, <1>8

Chunks(g, s) == g[0] = <<<<>>>> /\ \A i \in 1 .. Len(s) : g[i] = AddRow(g[i - 1], s[i])

LEMMA ChunkIs ==
  ASSUME NEW s \in Seq(Row)
  PROVE  \E g : Chunks(g, s) /\ ChunkCSV(s) = g[Len(s)]
  <1> DEFINE n == Len(s)
             D == 0 .. n
             X == {fs \in Seq(Seq(Row)) : fs # <<>>}
             base == <<<<>>>>
             step == [i \in 1 .. n |-> [fs \in X |-> AddRow(fs, s[i])]]
             Is(g) == g = [i \in D |-> IF i = 0 THEN <<<<>>>> ELSE AddRow(g[i - 1], s[i])]
  <1>1. n \in Nat /\ base \in X /\ \A i \in 1 .. n : s[i] \in Row
    OBVIOUS
  <1> HIDE DEF n
  <1>2. step \in [1 .. n -> [X -> X]]
    <2>1. ASSUME NEW i \in 1 .. n, NEW fs \in X PROVE AddRow(fs, s[i]) \in X
      BY <1>1, AddRowFacts
    <2> HIDE DEF X
    <2> QED BY <2>1
  <1>3. PICK f \in [0 .. n -> X] : Follows(f, n, base, step)
    <2> HIDE DEF step, X, base
    <2> QED BY <1>1, <1>2, RecursionExists
  <1>4. f[0] = <<<<>>>> /\ \A i \in 1 .. n : f[i] = AddRow(f[i - 1], s[i])
    <2>1. f[0] = base /\ \A i \in 1 .. n : f[i] = step[i][f[i - 1]]
      BY <1>3 DEF Follows
    <2>2. \A i \in 1 .. n : f[i - 1] \in X
      <3> HIDE DEF X
      <3> QED BY <1>1, <1>3
    <2> QED BY <2>1, <2>2
  <1>5. Is(f)
    <2>1. \A i \in D : i # 0 => i \in 1 .. n
      BY <1>1
    <2>2. f = [i \in D |-> f[i]]
      BY <1>3
    <2> HIDE DEF X
    <2> QED BY <2>2, <1>4, <2>1
  <1> DEFINE g == CHOOSE x : Is(x)
  <1>6. Is(g)
    <2> HIDE DEF Is
    <2> QED BY <1>5
  <1>7. ChunkCSV(s) = g[n]
    BY DEF ChunkCSV, n
  <1> HIDE DEF g
  <1>8. Chunks(g, s)
    <2>1. \A i \in D : g[i] = IF i = 0 THEN <<<<>>>> ELSE AddRow(g[i - 1], s[i])
      BY <1>6
    <2>2. 0 \in D /\ \A i \in 1 .. n : i \in D /\ i # 0
      BY <1>1
    <2> HIDE DEF D
    <2> QED BY <2>1, <2>2 DEF Chunks, n
  <1> QED BY <1>7, <1>8 DEF n

(* chunkCSV neither loses nor repeats nor moves a row, and every file it     *)
(* makes holds a row and stays below the limit.                             *)
LEMMA ChunkFacts ==
  ASSUME NEW s \in Seq(Row), s # <<>>, ~TooLarge(s)
  PROVE  ChunkCSV(s) \in Seq(Seq(Row)) /\ FlattenSeq(ChunkCSV(s)) = s /\ Fits(ChunkCSV(s))
  <1> DEFINE n == Len(s)
  <1>1. PICK g : Chunks(g, s) /\ ChunkCSV(s) = g[n]
    BY ChunkIs
  <1>2. n \in Nat /\ n >= 1 /\ \A i \in 1 .. n : s[i] \in Row
    OBVIOUS
  <1>3. \A i \in 1 .. n : HeaderSize + Size(s[i]) < MaxBytes
    <2>1. \A i \in 1 .. n : ~(HeaderSize + Size(s[i]) >= MaxBytes)
      BY DEF TooLarge
    <2>2. \A i \in 1 .. n : Size(s[i]) \in Nat
      BY SizeIsNatural
    <2> QED BY <2>1, <2>2, SizeAssumption
  <1>4. g[0] = <<<<>>>> /\ \A i \in 1 .. n : g[i] = AddRow(g[i - 1], s[i])
    BY <1>1 DEF Chunks
  <1> DEFINE Good(i) == /\ g[i] \in Seq(Seq(Row)) /\ g[i] # <<>>
                        /\ FlattenSeq(g[i]) = SubSeq(s, 1, i)
                        /\ IF i = 0 THEN g[i] = <<<<>>>> ELSE Fits(g[i])
             T == {i \in Nat : Good(i)}
  <1>5. 0 \in T
    <2>1. FlattenSeq(<<<<>>>>) = <<>>
      <3> DEFINE e == <<>>
      <3>1. e \in Seq(Row)
        OBVIOUS
      <3> HIDE DEF e
      <3>2. FlattenSeq(<<e>>) = e
        BY <3>1, FlattenOne
      <3> QED BY <3>2 DEF e
    <2>2. SubSeq(s, 1, 0) = <<>>
      BY SubSeqEmpty
    <2>3. <<<<>>>> \in Seq(Seq(Row)) /\ <<<<>>>> # <<>>
      OBVIOUS
    <2>4. FlattenSeq(g[0]) = SubSeq(s, 1, 0) /\ g[0] \in Seq(Seq(Row)) /\ g[0] # <<>>
      BY <2>1, <2>2, <2>3, <1>4
    <2> QED BY <2>4, <1>4
  <1>6. ASSUME NEW i \in 0 .. n, i \in T, i < n PROVE i + 1 \in T
    <2>1. i + 1 \in 1 .. n /\ (i + 1) - 1 = i /\ i + 1 # 0 /\ i + 1 \in Nat /\ 1 \in 1 .. (i + 1)
      BY <1>2, <1>6
    <2>2. Good(i)
      BY <1>6
    <2> DEFINE r == s[i + 1]
               fs == g[i]
    <2>3. r \in Row /\ HeaderSize + Size(r) < MaxBytes /\ g[i + 1] = AddRow(fs, r)
      BY <1>2, <1>3, <1>4, <2>1
    <2>4. fs \in Seq(Seq(Row)) /\ fs # <<>> /\ (fs = <<<<>>>> \/ Fits(fs))
      BY <2>2
    <2>5. /\ AddRow(fs, r) \in Seq(Seq(Row)) /\ AddRow(fs, r) # <<>>
          /\ FlattenSeq(AddRow(fs, r)) = FlattenSeq(fs) \o <<r>>
          /\ Fits(AddRow(fs, r))
      <3> HIDE DEF r, fs
      <3> QED BY <2>3, <2>4, AddRowFacts
    <2>6. SubSeq(s, 1, i + 1) = SubSeq(s, 1, (i + 1) - 1) \o <<s[i + 1]>>
      <3> DEFINE j == i + 1
      <3>1. 1 \in 1 .. Len(s) /\ j \in 1 .. Len(s) /\ j \in 1 .. j
        BY <1>2, <2>1
      <3> HIDE DEF j
      <3>2. SubSeq(s, 1, j) = SubSeq(s, 1, j - 1) \o <<s[j]>>
        BY <3>1, SubSeqRecursiveSecond
      <3> QED BY <3>2 DEF j
    <2>7. FlattenSeq(g[i + 1]) = SubSeq(s, 1, i + 1)
      BY <2>1, <2>2, <2>3, <2>5, <2>6
    <2>8. Good(i + 1)
      BY <2>1, <2>3, <2>5, <2>7
    <2> QED BY <2>1, <2>8
  <1>7. 0 .. n \subseteq T
    <2> HIDE DEF T, n
    <2> QED BY <1>2, <1>5, <1>6, UpTo
  <1>8. Good(n) /\ n # 0
    <2> HIDE DEF n, Good
    <2> QED BY <1>2, <1>7
  <1>9. SubSeq(s, 1, n) = s
    BY SubSeqFull
  <1> QED BY <1>1, <1>8, <1>9

-----------------------------------------------------------------------------
(* Types of what the tables and rows hold. *)
LEMMA KeyIsPair ==
  ASSUME NEW key \in Keys
  PROVE  key[1] \in Movies /\ key[2] \in Nat /\ key = <<key[1], key[2]>>
  <1>1. PICK m \in Movies, d \in Days : key = <<m, d>>
    BY DEF Keys
  <1> QED BY <1>1, DaysAssumption

LEMMA RowFacts ==
  ASSUME NEW r \in Row
  PROVE  /\ r.key \in Keys /\ r.key[1] \in Movies /\ r.key[2] \in Nat
         /\ r.key = <<r.key[1], r.key[2]>>
         /\ r.events \subseteq Events
         /\ r.values \in [Kinds -> Value] /\ r.revision \in [Kinds -> Nat] /\ r.seen \in [Kinds -> Nat]
  <1>1. /\ r.key \in Keys
        /\ r.events \subseteq Events
        /\ r.values \in [Kinds -> Value] /\ r.revision \in [Kinds -> Nat] /\ r.seen \in [Kinds -> Nat]
    BY DEF Row
  <1> QED BY <1>1, KeyIsPair

LEMMA BatchFacts ==
  ASSUME TablesType
  PROVE  /\ Len(batches) \in Nat /\ DOMAIN batches = 1 .. Len(batches)
         /\ IsFiniteSet(DOMAIN batches)
         /\ \A b \in DOMAIN batches :
                /\ batches[b] \in Batch
                /\ batches[b].rows \in Seq(Row) /\ batches[b].zone \in Zones
                /\ batches[b].confirmed \in Nat
                /\ Len(batches[b].rows) \in Nat
                /\ DOMAIN batches[b].rows = 1 .. Len(batches[b].rows)
                /\ \A i \in DOMAIN batches[b].rows : batches[b].rows[i] \in Row
  <1>1. batches \in Seq(Batch)
    BY DEF TablesType
  <1>2. Len(batches) \in Nat /\ DOMAIN batches = 1 .. Len(batches) /\ batches \in [1 .. Len(batches) -> Batch]
    BY <1>1, LenProperties
  <1>3. IsFiniteSet(DOMAIN batches)
    BY <1>2, FS_Interval
  <1>4. ASSUME NEW b \in DOMAIN batches
        PROVE  /\ batches[b] \in Batch
               /\ batches[b].rows \in Seq(Row) /\ batches[b].zone \in Zones
               /\ batches[b].confirmed \in Nat
    BY <1>2, <1>4 DEF Batch
  <1>5. \A s \in Seq(Row) : /\ Len(s) \in Nat /\ DOMAIN s = 1 .. Len(s)
                            /\ \A i \in DOMAIN s : s[i] \in Row
    OBVIOUS
  <1> QED BY <1>2, <1>3, <1>4, <1>5

LEMMA KeyFacts ==
  ASSUME TypeOK
  PROVE  /\ KeysOf(watched) \subseteq Keys
         /\ \A z \in Zones : \A e \in Events :
                watch[e] # NoWatch => <<watch[e][1], z[watch[e][2]]>> \in Keys
         /\ \A z \in Zones : KeysOf(WatchedIn(z)) \subseteq Keys
         /\ NoWatch \notin Keys
         /\ \A key \in Keys : key[1] \in Movies /\ key[2] \in Nat /\ key = <<key[1], key[2]>>
  <1>1. watched \in [Events -> Keys \union {NoWatch}] /\ watch \in [Events -> (Movies \X Instants) \union {NoWatch}]
    BY DEF TypeOK
  <1>2. NoWatch \notin Keys
    BY NoWatchAssumption DEF Keys
  <1>3. \A key \in Keys : key[1] \in Movies /\ key[2] \in Nat /\ key = <<key[1], key[2]>>
    BY KeyIsPair
  <1>4. ASSUME NEW z \in Zones, NEW e \in Events, watch[e] # NoWatch
        PROVE  <<watch[e][1], z[watch[e][2]]>> \in Keys
    <2>1. watch[e] \in Movies \X Instants /\ z \in [Instants -> Days]
      BY <1>1, <1>4, DaysAssumption
    <2>2. watch[e][1] \in Movies /\ z[watch[e][2]] \in Days
      BY <2>1
    <2> QED BY <2>2 DEF Keys
  <1>5. KeysOf(watched) \subseteq Keys
    BY <1>1 DEF KeysOf
  <1>6. ASSUME NEW z \in Zones PROVE KeysOf(WatchedIn(z)) \subseteq Keys
    BY <1>4 DEF KeysOf, WatchedIn
  <1> QED BY <1>2, <1>3, <1>4, <1>5, <1>6

-----------------------------------------------------------------------------
(* What a step may do to ratings and reviews, watches and batches. *)
LEMMA WrittenFacts ==
  ASSUME TypeOK, NEW m \in Movies, NEW k \in Kinds, NEW v \in Value, Written(m, k, v)
  PROVE  /\ current' \in [Movies -> [Kinds -> Value]] /\ changes' \in [Movies -> [Kinds -> Nat]]
         /\ changes'[m][k] = changes[m][k] + 1
         /\ \A n \in Movies, j \in Kinds : n # m \/ j # k =>
                changes'[n][j] = changes[n][j] /\ current'[n][j] = current[n][j]
  BY DEF Written, TypeOK

LEMMA StepFacts ==
  ASSUME TypeOK, [Next]_vars
  PROVE  /\ \A m \in Movies, k \in Kinds :
                \/ changes'[m][k] = changes[m][k] /\ current'[m][k] = current[m][k]
                \/ changes'[m][k] = changes[m][k] + 1
         /\ \A e \in Events : watch[e] # NoWatch => watch'[e] = watch[e]
  <1>1. \A m \in Movies, k \in Kinds :
           \/ changes'[m][k] = changes[m][k] /\ current'[m][k] = current[m][k]
           \/ changes'[m][k] = changes[m][k] + 1
    <2>1. CASE Edit
      <3>1. PICK m \in Movies, k \in Kinds, v \in Value : Written(m, k, v)
        BY <2>1 DEF Edit
      <3> QED BY <3>1, WrittenFacts
    <2>2. CASE UNCHANGED <<current, changes>>
      BY <2>2
    <2>3. Edit \/ UNCHANGED <<current, changes>>
      BY DEF Next, Generate, vars, tables, ImportWatch, SetTimezone, LoadWatches, BeginRow,
             LoadValue, LoadRevisions, DecideRow, StoreBatch, NoBatch, Interrupted, ImportAndConfirm
    <2> QED BY <2>1, <2>2, <2>3
  <1>2. \A e \in Events : watch[e] # NoWatch => watch'[e] = watch[e]
    <2>1. CASE ImportWatch
      <3>1. PICK e \in Events, m \in Movies, i \in Instants :
              watch[e] = NoWatch /\ watch' = [watch EXCEPT ![e] = <<m, i>>]
        BY <2>1 DEF ImportWatch
      <3> QED BY <3>1 DEF TypeOK
    <2>2. CASE UNCHANGED watch
      BY <2>2
    <2>3. ImportWatch \/ UNCHANGED watch
      BY DEF Next, Generate, vars, tables, Edit, SetTimezone, LoadWatches, BeginRow,
             LoadValue, LoadRevisions, DecideRow, StoreBatch, NoBatch, Interrupted, ImportAndConfirm
    <2> QED BY <2>1, <2>2, <2>3
  <1> QED BY <1>1, <1>2

(* What is known of a row, and of the latest days, stays so. *)
LEMMA RowKept ==
  ASSUME TypeOK, [Next]_vars, NEW r \in Row
  PROVE  /\ Read(r) => Read(r)'
         /\ Revised(r) => Revised(r)'
         /\ \A z \in Zones : Placed(r, z) => Placed(r, z)'
  <1>1. /\ r.key[1] \in Movies /\ r.events \subseteq Events
        /\ \A k \in Kinds : r.seen[k] \in Nat /\ r.revision[k] \in Nat
    BY RowFacts
  <1>2. \A m \in Movies, k \in Kinds : changes[m][k] \in Nat
    BY DEF TypeOK
  <1>3. \A k \in Kinds :
           \/ changes'[r.key[1]][k] = changes[r.key[1]][k] /\ current'[r.key[1]][k] = current[r.key[1]][k]
           \/ changes'[r.key[1]][k] = changes[r.key[1]][k] + 1
    BY <1>1, StepFacts
  <1>4. Read(r) => Read(r)'
    <2> SUFFICES ASSUME Read(r), NEW k \in Kinds
                 PROVE  /\ r.seen[k] <= changes'[r.key[1]][k]
                        /\ r.seen[k] = changes'[r.key[1]][k] => r.values[k] = current'[r.key[1]][k]
      BY DEF Read
    <2>1. /\ r.seen[k] <= changes[r.key[1]][k]
          /\ r.seen[k] = changes[r.key[1]][k] => r.values[k] = current[r.key[1]][k]
      BY DEF Read
    <2>2. r.seen[k] \in Nat /\ changes[r.key[1]][k] \in Nat
      BY <1>1, <1>2
    <2> QED BY <2>1, <2>2, <1>3
  <1>5. Revised(r) => Revised(r)'
    <2> SUFFICES ASSUME Revised(r), NEW k \in Kinds
                 PROVE  r.seen[k] <= r.revision[k] /\ r.revision[k] <= changes'[r.key[1]][k]
      BY DEF Revised
    <2>1. r.seen[k] <= r.revision[k] /\ r.revision[k] <= changes[r.key[1]][k]
      BY DEF Revised
    <2>2. r.revision[k] \in Nat /\ changes[r.key[1]][k] \in Nat
      BY <1>1, <1>2
    <2> QED BY <2>1, <2>2, <1>3
  <1>6. ASSUME NEW z \in Zones, Placed(r, z) PROVE Placed(r, z)'
    BY <1>6, <1>1, StepFacts DEF Placed
  <1> QED BY <1>4, <1>5, <1>6

LEMMA WatchesGrow ==
  ASSUME TypeOK, TypeOK', [Next]_vars, NEW z \in Zones
  PROVE  /\ KeysOf(WatchedIn(z)) \subseteq KeysOf(WatchedIn(z))'
         /\ \A key : IsLatest(WatchedIn(z), key)' => IsLatest(WatchedIn(z), key)
  <1>1. ASSUME NEW key \in KeysOf(WatchedIn(z)) PROVE key \in KeysOf(WatchedIn(z))'
    <2>1. PICK e \in Events : watch[e] # NoWatch /\ key = <<watch[e][1], z[watch[e][2]]>>
      BY DEF KeysOf, WatchedIn
    <2>2. watch'[e] = watch[e]
      BY <2>1, StepFacts
    <2>3. key # NoWatch
      BY <2>1, KeyFacts
    <2> QED BY <2>1, <2>2, <2>3 DEF KeysOf, WatchedIn
  <1>2. ASSUME NEW key, IsLatest(WatchedIn(z), key)' PROVE IsLatest(WatchedIn(z), key)
    BY <1>1, <1>2 DEF IsLatest
  <1> QED BY <1>1, <1>2

LEMMA BatchesKept ==
  ASSUME TypeOK, TablesType, [Next]_vars
  PROVE  /\ DOMAIN batches \subseteq DOMAIN batches'
         /\ \A b \in DOMAIN batches :
                /\ batches'[b].rows = batches[b].rows
                /\ batches'[b].zone = batches[b].zone
                /\ batches'[b].files = batches[b].files
         /\ ~StoreBatch => DOMAIN batches' = DOMAIN batches
         /\ ~ImportAndConfirm =>
                \A b \in DOMAIN batches : batches'[b] = batches[b]
         /\ StoreBatch =>
                /\ DOMAIN batches' = DOMAIN batches \union {Len(batches) + 1}
                /\ Len(batches) + 1 \notin DOMAIN batches
                /\ batches'[Len(batches) + 1] =
                       [zone |-> location, rows |-> rows, files |-> ChunkCSV(rows), confirmed |-> 0]
  <1>0. /\ Len(batches) \in Nat /\ DOMAIN batches = 1 .. Len(batches)
        /\ \A b \in DOMAIN batches : batches[b] \in Batch
    BY BatchFacts
  <1>1. CASE StoreBatch
    <2> DEFINE n == Len(batches)
               x == [zone |-> location, rows |-> rows, files |-> ChunkCSV(rows), confirmed |-> 0]
    <2>1. batches' = Append(batches, x)
      BY <1>1 DEF StoreBatch
    <2> HIDE DEF x, n
    <2>2. batches \in Seq(Batch \union {x}) /\ x \in Batch \union {x}
      BY DEF TablesType
    <2>3. Extends(batches', batches, x, Batch \union {x})
      BY <2>1, <2>2, AppendExtends
    <2>4. /\ batches' \in Seq(Batch \union {x}) /\ Len(batches') = n + 1 /\ n \in Nat
          /\ \A b \in 1 .. n : batches'[b] = batches[b]
          /\ batches'[n + 1] = x
      BY <2>3 DEF Extends, n
    <2>5. DOMAIN batches' = 1 .. (n + 1)
      BY <2>4, LenProperties
    <2>6. DOMAIN batches' = DOMAIN batches \union {n + 1} /\ n + 1 \notin DOMAIN batches
      BY <2>4, <2>5, <1>0 DEF n
    <2>7. \A b \in DOMAIN batches : batches'[b] = batches[b]
      BY <2>4, <1>0 DEF n
    <2> QED BY <1>1, <2>4, <2>6, <2>7 DEF n, x
  <1>2. CASE ImportAndConfirm
    <2>1. PICK b \in DOMAIN batches : batches' = [batches EXCEPT ![b].confirmed = confirmations + 1]
      BY <1>2 DEF ImportAndConfirm
    <2>2. DOMAIN batches' = DOMAIN batches
      BY <2>1
    <2>3. ASSUME NEW c \in DOMAIN batches
          PROVE  /\ batches'[c].rows = batches[c].rows
                 /\ batches'[c].zone = batches[c].zone
                 /\ batches'[c].files = batches[c].files
      <3>1. CASE c = b
        <4>1. batches'[c] = [batches[c] EXCEPT !.confirmed = confirmations + 1] /\ batches[c] \in Batch
          BY <2>1, <3>1, <1>0
        <4> QED BY <4>1 DEF Batch
      <3>2. CASE c # b
        BY <2>1, <3>2
      <3> QED BY <3>1, <3>2
    <2>4. ~StoreBatch
      <3>1. at' = at
        BY <1>2 DEF ImportAndConfirm, generator
      <3> QED BY <3>1 DEF StoreBatch, Done
    <2> QED BY <2>2, <2>3, <2>4, <1>2
  <1>3. CASE UNCHANGED batches
    <2>1. ~StoreBatch
      <3>1. SUFFICES ASSUME StoreBatch PROVE FALSE
        OBVIOUS
      <3> DEFINE x == [zone |-> location, rows |-> rows, files |-> ChunkCSV(rows), confirmed |-> 0]
      <3>2. batches' = Append(batches, x)
        BY <3>1 DEF StoreBatch
      <3> HIDE DEF x
      <3>3. batches \in Seq(Batch \union {x}) /\ x \in Batch \union {x}
        BY DEF TablesType
      <3>4. Extends(batches', batches, x, Batch \union {x})
        BY <3>2, <3>3, AppendExtends
      <3> QED BY <3>4, <1>0, <1>3 DEF Extends
    <2> QED BY <1>3, <2>1
  <1>4. StoreBatch \/ ImportAndConfirm \/ UNCHANGED batches
    BY DEF Next, Generate, vars, tables, Edit, SetTimezone, ImportWatch, LoadWatches, BeginRow,
           LoadValue, LoadRevisions, DecideRow, NoBatch, Interrupted
  <1> QED BY <1>1, <1>2, <1>3, <1>4

(* What a confirmed import shows: the rows of the batch, whose files hold it. *)
Imports(b) ==
    /\ ~Confirmed(b)
    /\ batches' = [batches EXCEPT ![b].confirmed = confirmations + 1]
    /\ diary' \in [Keys -> [Kinds -> Value]]
    /\ \A key \in Keys :
           \/ \E i \in DOMAIN batches[b].rows :
                  batches[b].rows[i].key = key /\ diary'[key] = batches[b].rows[i].values
           \/ /\ \A i \in DOMAIN batches[b].rows : batches[b].rows[i].key # key
              /\ diary'[key] = diary[key]

LEMMA ImportFacts ==
  ASSUME TypeOK, TablesType, FilesHoldTheBatch, ImportAndConfirm
  PROVE  \E b \in DOMAIN batches : Imports(b)
  <1>1. PICK b \in DOMAIN batches :
          LET s == FlattenSeq(batches[b].files)
              entries == {s[i].key : i \in DOMAIN s}
              entry(key) == s[CHOOSE i \in DOMAIN s : s[i].key = key]
          IN  /\ MayConfirm(b)
              /\ batches' = [batches EXCEPT ![b].confirmed = confirmations + 1]
              /\ diary' = [key \in Keys |->
                              IF key \in entries THEN entry(key).values ELSE diary[key]]
    BY DEF ImportAndConfirm
  <1> DEFINE s == batches[b].rows
             n(key) == CHOOSE i \in DOMAIN s : s[i].key = key
  <1>2. FlattenSeq(batches[b].files) = s
    BY DEF FilesHoldTheBatch
  <1>3. diary' = [key \in Keys |->
                     IF key \in {s[i].key : i \in DOMAIN s} THEN s[n(key)].values ELSE diary[key]]
    BY <1>1, <1>2
  <1>4. \A i \in DOMAIN s : s[i].values \in [Kinds -> Value]
    BY BatchFacts, RowFacts
  <1> HIDE DEF s
  <1>5. ASSUME NEW key \in Keys
        PROVE  /\ \/ \E i \in DOMAIN s : s[i].key = key /\ diary'[key] = s[i].values
                  \/ (\A i \in DOMAIN s : s[i].key # key) /\ diary'[key] = diary[key]
               /\ diary'[key] \in [Kinds -> Value]
    <2>1. CASE \E i \in DOMAIN s : s[i].key = key
      <3>1. n(key) \in DOMAIN s /\ s[n(key)].key = key
        BY <2>1
      <3>2. diary'[key] = s[n(key)].values
        BY <1>3, <2>1
      <3> HIDE DEF n
      <3> QED BY <3>1, <3>2, <1>4
    <2>2. CASE \A i \in DOMAIN s : s[i].key # key
      <3>1. diary'[key] = diary[key]
        BY <1>3, <2>2
      <3> QED BY <3>1, <2>2 DEF TypeOK
    <2> QED BY <2>1, <2>2
  <1>6. diary' \in [Keys -> [Kinds -> Value]]
    <2>1. diary' = [key \in Keys |-> diary'[key]]
      BY <1>3
    <2> HIDE DEF n
    <2> QED BY <2>1, <1>5
  <1>7. ~Confirmed(b) /\ batches' = [batches EXCEPT ![b].confirmed = confirmations + 1]
    BY <1>1 DEF MayConfirm
  <1>8. Imports(b)
    <2>1. \A key \in Keys :
             \/ \E i \in DOMAIN s : s[i].key = key /\ diary'[key] = s[i].values
             \/ (\A i \in DOMAIN s : s[i].key # key) /\ diary'[key] = diary[key]
      BY <1>5
    <2> HIDE DEF n
    <2> QED BY <2>1, <1>6, <1>7 DEF Imports, s
  <1> QED BY <1>8

(* The number of confirmations. *)
LEMMA CountStep ==
  ASSUME TypeOK, TablesType, FilesHoldTheBatch, CountInv, [Next]_vars
  PROVE  CountInv'
  <1> DEFINE C == {b \in DOMAIN batches : Confirmed(b)}
  <1>0. confirmations \in Nat /\ confirmations = Cardinality(C)
    BY BatchFacts DEF TypeOK, CountInv
  <1>1. CASE StoreBatch
    <2>1. confirmations' = confirmations
      BY <1>1 DEF StoreBatch
    <2>2. ~ImportAndConfirm
      <3>1. at' = "idle" /\ at = "row"
        BY <1>1 DEF StoreBatch, Done
      <3> QED BY <3>1 DEF ImportAndConfirm, generator
    <2>3. C' = C
      <3> DEFINE n == Len(batches) + 1
      <3>1. ASSUME NEW m, m = n PROVE ~Confirmed(m)'
        <4>1. batches'[m] = [zone |-> location, rows |-> rows, files |-> ChunkCSV(rows), confirmed |-> 0]
          BY <1>1, <3>1, BatchesKept
        <4>2. batches'[m].confirmed = 0
          BY <4>1
        <4> QED BY <4>2 DEF Confirmed
      <3>2. ASSUME NEW b \in DOMAIN batches PROVE Confirmed(b)' <=> Confirmed(b)
        BY <2>2, BatchesKept DEF Confirmed
      <3>3. DOMAIN batches' = DOMAIN batches \union {n}
        BY <1>1, BatchesKept
      <3>4. C' = {b \in DOMAIN batches' : Confirmed(b)'}
        OBVIOUS
      <3> HIDE DEF n
      <3> QED BY <3>1, <3>2, <3>3, <3>4
    <2> HIDE DEF C
    <2> QED BY <2>1, <2>3, <1>0 DEF CountInv, C
  <1>2. CASE ImportAndConfirm
    <2>1. PICK b \in DOMAIN batches : Imports(b)
      BY <1>2, ImportFacts
    <2>2. confirmations' = confirmations + 1
      BY <1>2 DEF ImportAndConfirm
    <2>3. DOMAIN batches' = DOMAIN batches /\ batches[b] \in Batch
      BY <2>1, BatchFacts DEF Imports
    <2>4. C' = C \union {b}
      <3>1. Confirmed(b)'
        BY <2>1, <2>3, <1>0 DEF Imports, Confirmed, Batch
      <3>2. ASSUME NEW c \in DOMAIN batches, c # b PROVE Confirmed(c)' <=> Confirmed(c)
        BY <2>1, <3>2 DEF Imports, Confirmed
      <3> QED BY <3>1, <3>2, <2>3
    <2>5. b \notin C /\ IsFiniteSet(C)
      <3>1. b \notin C
        BY <2>1 DEF Imports
      <3>2. C \subseteq DOMAIN batches
        OBVIOUS
      <3> HIDE DEF C
      <3> QED BY <3>1, <3>2, BatchFacts, FS_Subset
    <2> HIDE DEF C
    <2>6. Cardinality(C \union {b}) = Cardinality(C) + 1
      BY <2>5, FS_AddElement
    <2> QED BY <2>2, <2>4, <2>6, <1>0 DEF CountInv, C
  <1>3. CASE UNCHANGED <<batches, confirmations>>
    BY <1>3 DEF CountInv, Confirmed
  <1>4. StoreBatch \/ ImportAndConfirm \/ UNCHANGED <<batches, confirmations>>
    BY DEF Next, Generate, vars, tables, Edit, SetTimezone, ImportWatch, LoadWatches, BeginRow,
           LoadValue, LoadRevisions, DecideRow, NoBatch, Interrupted
  <1> QED BY <1>1, <1>2, <1>3, <1>4

-----------------------------------------------------------------------------
(* Types. *)
LEMMA TypeInit == Init => TypeOK /\ TablesType
  <1> SUFFICES ASSUME Init PROVE TypeOK /\ TablesType
    OBVIOUS
  <1>1. batches = <<>> /\ rows = <<>> /\ at = "idle"
    BY DEF Init
  <1>2. batches \in Seq(Batch) /\ rows \in Seq(Row) /\ DOMAIN batches = {} /\ Len(batches) = 0
    BY <1>1
  <1>3. Nothing \in [Kinds -> Value] /\ Unrevised \in [Kinds -> Nat]
    BY DEF Nothing, Unrevised, Value
  <1>4. 0 \in 0 .. Len(batches)
    BY <1>2
  <1> QED BY <1>1, <1>2, <1>3, <1>4 DEF Init, TypeOK, TablesType, Working, HasRow

(* The tables. *)
LEMMA TablesStep ==
  ASSUME TypeOK, TablesType, FilesHoldTheBatch, CountInv, [Next]_vars
  PROVE  /\ watch' \in [Events -> (Movies \X Instants) \union {NoWatch}]
         /\ zone' \in Zones
         /\ current' \in [Movies -> [Kinds -> Value]]
         /\ changes' \in [Movies -> [Kinds -> Nat]]
         /\ diary' \in [Keys -> [Kinds -> Value]]
         /\ torn' \subseteq Movies
         /\ edits' \in Nat
  <1>0. /\ watch \in [Events -> (Movies \X Instants) \union {NoWatch}]
        /\ zone \in Zones
        /\ current \in [Movies -> [Kinds -> Value]]
        /\ changes \in [Movies -> [Kinds -> Nat]]
        /\ diary \in [Keys -> [Kinds -> Value]]
        /\ torn \subseteq Movies
        /\ edits \in Nat
    BY DEF TypeOK
  <1>1. CASE ImportWatch
    BY <1>1, <1>0 DEF ImportWatch
  <1>2. CASE SetTimezone
    BY <1>2, <1>0 DEF SetTimezone
  <1>3. CASE Edit
    <2>1. PICK m \in Movies, k \in Kinds, v \in Value : Written(m, k, v)
      BY <1>3 DEF Edit
    <2>2. current' \in [Movies -> [Kinds -> Value]] /\ changes' \in [Movies -> [Kinds -> Nat]]
      BY <2>1, WrittenFacts
    <2> QED BY <2>2, <1>3, <1>0 DEF Edit
  <1>4. CASE StoreBatch
    <2>1. torn' = torn \union TornIn(rows)
      BY <1>4 DEF StoreBatch
    <2>2. rows \in Seq(Row)
      BY DEF TablesType
    <2>3. \A i \in DOMAIN rows : rows[i].key[1] \in Movies
      BY <2>2, RowFacts
    <2>4. TornIn(rows) \subseteq Movies
      BY <2>3 DEF TornIn
    <2> QED BY <2>1, <2>4, <1>4, <1>0 DEF StoreBatch
  <1>5. CASE ImportAndConfirm
    <2>1. diary' \in [Keys -> [Kinds -> Value]]
      BY <1>5, ImportFacts DEF Imports
    <2> QED BY <2>1, <1>5, <1>0 DEF ImportAndConfirm
  <1>6. CASE UNCHANGED <<tables, edits>>
    BY <1>6, <1>0 DEF tables
  <1>7. \/ ImportWatch \/ SetTimezone \/ Edit \/ StoreBatch \/ ImportAndConfirm
        \/ UNCHANGED <<tables, edits>>
    BY DEF Next, Generate, vars, LoadWatches, BeginRow, LoadValue, LoadRevisions, DecideRow,
           NoBatch, Interrupted
  <1> QED BY <1>1, <1>2, <1>3, <1>4, <1>5, <1>6, <1>7

LEMMA BatchesStep ==
  ASSUME TypeOK, TablesType, FilesHoldTheBatch, CountInv, [Next]_vars
  PROVE  /\ batches' \in Seq(Batch)
         /\ \A b \in DOMAIN batches' :
                batches'[b].confirmed \in 0 .. confirmations' /\ batches'[b].rows # <<>>
         /\ confirmations' \in 0 .. Len(batches')
  <1>0. /\ batches \in Seq(Batch) /\ confirmations \in 0 .. Len(batches)
        /\ Len(batches) \in Nat /\ DOMAIN batches = 1 .. Len(batches)
        /\ \A b \in DOMAIN batches : /\ batches[b] \in Batch
                                     /\ batches[b].confirmed \in 0 .. confirmations
                                     /\ batches[b].rows # <<>>
    BY BatchFacts DEF TypeOK, TablesType
  <1>1. CASE StoreBatch
    <2> DEFINE x == [zone |-> location, rows |-> rows, files |-> ChunkCSV(rows), confirmed |-> 0]
    <2>1. /\ batches' = Append(batches, x) /\ confirmations' = confirmations
          /\ rows # <<>> /\ ~TooLarge(rows) /\ at = "row"
      BY <1>1 DEF StoreBatch
    <2>2. rows \in Seq(Row) /\ location \in Zones
      BY <2>1 DEF TablesType, Working
    <2>3. ChunkCSV(rows) \in Seq(Seq(Row))
      BY <2>1, <2>2, ChunkFacts
    <2>4. x \in Batch /\ x.confirmed = 0 /\ x.rows # <<>>
      BY <2>1, <2>2, <2>3 DEF Batch
    <2> HIDE DEF x
    <2>5. Extends(batches', batches, x, Batch)
      BY <2>1, <2>4, <1>0, AppendExtends
    <2>6. /\ batches' \in Seq(Batch) /\ Len(batches') = Len(batches) + 1
          /\ \A b \in 1 .. Len(batches) : batches'[b] = batches[b]
          /\ batches'[Len(batches) + 1] = x
      BY <2>5 DEF Extends
    <2>7. ASSUME NEW b \in DOMAIN batches'
          PROVE  batches'[b].confirmed \in 0 .. confirmations' /\ batches'[b].rows # <<>>
      <3>1. DOMAIN batches' = 1 .. (Len(batches) + 1)
        BY <2>6, LenProperties
      <3>2. CASE b = Len(batches) + 1
        BY <3>2, <2>1, <2>4, <2>6, <1>0
      <3>3. CASE b # Len(batches) + 1
        <4>1. b \in DOMAIN batches /\ batches'[b] = batches[b]
          BY <3>1, <3>3, <2>6, <1>0
        <4> QED BY <4>1, <2>1, <1>0
      <3> QED BY <3>2, <3>3
    <2> QED BY <2>1, <2>6, <2>7, <1>0
  <1>2. CASE ImportAndConfirm
    <2>1. PICK b \in DOMAIN batches : Imports(b)
      BY <1>2, ImportFacts
    <2>2. /\ batches' = [batches EXCEPT ![b].confirmed = confirmations + 1]
          /\ confirmations' = confirmations + 1
      BY <1>2, <2>1 DEF ImportAndConfirm, Imports
    <2> DEFINE x == [batches[b] EXCEPT !.confirmed = confirmations + 1]
    <2>3. x \in Batch /\ x.confirmed = confirmations + 1 /\ x.rows = batches[b].rows
      <3>1. batches[b] \in Batch
        BY <1>0
      <3>2. confirmations + 1 \in Nat
        BY <1>0
      <3> DEFINE n == confirmations + 1
      <3> HIDE DEF n
      <3>3. /\ [batches[b] EXCEPT !.confirmed = n] \in Batch
            /\ [batches[b] EXCEPT !.confirmed = n].confirmed = n
            /\ [batches[b] EXCEPT !.confirmed = n].rows = batches[b].rows
        BY <3>1, <3>2 DEF Batch, n
      <3> QED BY <3>3 DEF n
    <2>4. batches' = [batches EXCEPT ![b] = x]
      BY <2>2
    <2> HIDE DEF x
    <2>5. batches' \in Seq(Batch) /\ DOMAIN batches' = DOMAIN batches /\ Len(batches') = Len(batches)
      BY <2>3, <2>4, <1>0, ExceptSeq
    <2>6. ASSUME NEW c \in DOMAIN batches'
          PROVE  batches'[c].confirmed \in 0 .. confirmations' /\ batches'[c].rows # <<>>
      <3>1. CASE c = b
        BY <3>1, <2>2, <2>3, <2>4, <1>0
      <3>2. CASE c # b
        <4>1. c \in DOMAIN batches /\ batches'[c] = batches[c]
          BY <3>2, <2>4, <2>5
        <4> QED BY <4>1, <2>2, <1>0
      <3> QED BY <3>1, <3>2
    <2>7. confirmations' <= Len(batches')
      <3>1. CountInv'
        BY CountStep
      <3> DEFINE C == {c \in DOMAIN batches' : Confirmed(c)'}
      <3>2. confirmations' = Cardinality(C)
        BY <3>1 DEF CountInv
      <3>3. C \subseteq 1 .. Len(batches)
        BY <2>5, <1>0
      <3>4. IsFiniteSet(1 .. Len(batches)) /\ Cardinality(1 .. Len(batches)) = Len(batches)
        <4> DEFINE n == Len(batches)
        <4>1. n \in Int /\ 1 \in Int /\ n >= 0
          BY <1>0
        <4> HIDE DEF n
        <4>2. IsFiniteSet(1 .. n) /\ Cardinality(1 .. n) = IF 1 > n THEN 0 ELSE n - 1 + 1
          BY <4>1, FS_Interval
        <4>3. Cardinality(1 .. n) = n
          BY <4>1, <4>2
        <4> QED BY <4>2, <4>3 DEF n
      <3> HIDE DEF C
      <3>5. Cardinality(C) <= Cardinality(1 .. Len(batches))
        BY <3>3, <3>4, FS_Subset
      <3> QED BY <3>2, <3>4, <3>5, <2>5
    <2> QED BY <2>2, <2>5, <2>6, <2>7, <1>0
  <1>3. CASE UNCHANGED <<batches, confirmations>>
    BY <1>3, <1>0
  <1>4. StoreBatch \/ ImportAndConfirm \/ UNCHANGED <<batches, confirmations>>
    BY DEF Next, Generate, vars, tables, Edit, SetTimezone, ImportWatch, LoadWatches, BeginRow,
           LoadValue, LoadRevisions, DecideRow, NoBatch, Interrupted
  <1> QED BY <1>1, <1>2, <1>3, <1>4

-----------------------------------------------------------------------------
(* The generator. *)
LEMMA GeneratorSteps ==
  ASSUME [Next]_vars
  PROVE  \/ UNCHANGED generator
         \/ Done
         \/ LoadWatches \/ BeginRow
         \/ LoadValue("rating", "review") \/ LoadValue("review", "revisions")
         \/ LoadRevisions \/ DecideRow
  BY DEF Next, Generate, vars, Edit, SetTimezone, ImportWatch, StoreBatch, NoBatch, Interrupted,
         ImportAndConfirm

LEMMA NewRowFacts ==
  ASSUME NEW key \in Keys
  PROVE  /\ NewRow(watched, key) \in Row
         /\ NewRow(watched, key).key = key
         /\ NewRow(watched, key).events = EventsOn(watched, key)
         /\ NewRow(watched, key).values = Nothing
         /\ NewRow(watched, key).revision = Unrevised
         /\ NewRow(watched, key).seen = Unrevised
  <1>1. Nothing \in [Kinds -> Value] /\ Unrevised \in [Kinds -> Nat]
    BY DEF Nothing, Unrevised, Value
  <1>2. EventsOn(watched, key) \subseteq Events
    BY DEF EventsOn
  <1> QED BY <1>1, <1>2 DEF NewRow, Row

LEMMA LoadFacts ==
  ASSUME TypeOK, NEW k \in Kinds, NEW next, row \in Row, LoadValue(k, next)
  PROVE  /\ row' \in Row
         /\ row'.key = row.key /\ row'.events = row.events /\ row'.revision = row.revision
         /\ row'.values[k] = current[row.key[1]][k] /\ row'.seen[k] = changes[row.key[1]][k]
         /\ \A j \in Kinds : j # k => row'.values[j] = row.values[j] /\ row'.seen[j] = row.seen[j]
  <1> DEFINE v == current[row.key[1]][k]
             n == changes[row.key[1]][k]
  <1>1. v \in Value /\ n \in Nat
    <2>1. row.key[1] \in Movies
      BY RowFacts
    <2> QED BY <2>1 DEF TypeOK
  <1>2. row' = [row EXCEPT !.values[k] = v, !.seen[k] = n]
    BY DEF LoadValue
  <1> HIDE DEF v, n
  <1> DEFINE vs == [row.values EXCEPT ![k] = v]
             ns == [row.seen EXCEPT ![k] = n]
  <1>3. row' = [row EXCEPT !.values = vs, !.seen = ns]
    BY <1>2
  <1>4. /\ vs \in [Kinds -> Value] /\ ns \in [Kinds -> Nat]
        /\ vs[k] = v /\ ns[k] = n
        /\ \A j \in Kinds : j # k => vs[j] = row.values[j] /\ ns[j] = row.seen[j]
    BY <1>1, RowFacts
  <1> HIDE DEF vs, ns
  <1>5. /\ row' \in Row /\ row'.values = vs /\ row'.seen = ns
        /\ row'.key = row.key /\ row'.events = row.events /\ row'.revision = row.revision
    BY <1>3, <1>4 DEF Row
  <1> QED BY <1>4, <1>5 DEF v, n

LEMMA RevisionFacts ==
  ASSUME TypeOK, row \in Row, LoadRevisions
  PROVE  /\ row' \in Row /\ row'.revision = changes[row.key[1]]
         /\ row'.key = row.key /\ row'.events = row.events
         /\ row'.values = row.values /\ row'.seen = row.seen
  <1>1. row.key[1] \in Movies /\ changes[row.key[1]] \in [Kinds -> Nat]
    BY RowFacts DEF TypeOK
  <1>2. row' = [row EXCEPT !.revision = changes[row.key[1]]]
    BY DEF LoadRevisions
  <1> QED BY <1>1, <1>2 DEF Row

LEMMA GeneratorStep ==
  ASSUME TypeOK, TablesType, [Next]_vars
  PROVE  /\ location' \in Zones \union {<<>>}
         /\ at' \in {"idle", "row", "rating", "review", "revisions", "decide"}
         /\ todo' \subseteq Keys
         /\ watched' \in [Events -> Keys \union {NoWatch}]
         /\ rows' \in Seq(Row)
         /\ Working' => location' \in Zones
         /\ HasRow' => row' \in Row
  <1>0. /\ location \in Zones \union {<<>>}
        /\ at \in {"idle", "row", "rating", "review", "revisions", "decide"}
        /\ todo \subseteq Keys
        /\ watched \in [Events -> Keys \union {NoWatch}]
        /\ rows \in Seq(Row) /\ zone \in Zones
        /\ Working => location \in Zones
        /\ HasRow => row \in Row
    BY DEF TypeOK, TablesType
  <1>1. CASE UNCHANGED generator
    BY <1>1, <1>0 DEF generator, Working, HasRow
  <1>2. CASE Done
    BY <1>2 DEF Done, Working, HasRow
  <1>3. CASE LoadWatches
    <2>1. watched' = WatchedIn(zone) /\ todo' = KeysOf(WatchedIn(zone)) /\ at' = "row" /\ location' = zone
      BY <1>3 DEF LoadWatches
    <2>2. KeysOf(WatchedIn(zone)) \subseteq Keys
      BY <1>0, KeyFacts
    <2>3. WatchedIn(zone) \in [Events -> Keys \union {NoWatch}]
      <3>1. \A e \in Events : watch[e] # NoWatch => <<watch[e][1], zone[watch[e][2]]>> \in Keys
        BY <1>0, KeyFacts
      <3> QED BY <3>1 DEF WatchedIn
    <2>4. rows' = rows
      BY <1>3 DEF LoadWatches
    <2> QED BY <2>1, <2>2, <2>3, <2>4, <1>0 DEF HasRow
  <1>4. CASE BeginRow
    <2>1. PICK key \in todo : /\ todo' = todo \ {key} /\ row' = NewRow(watched, key)
                              /\ at' \in {"rating", "decide"}
      BY <1>4 DEF BeginRow
    <2>2. row' \in Row
      BY <2>1, <1>0, NewRowFacts
    <2>3. at = "row" /\ UNCHANGED <<location, watched, rows>>
      BY <1>4 DEF BeginRow
    <2>4. location \in Zones
      BY <2>3, <1>0 DEF Working
    <2> QED BY <2>1, <2>2, <2>3, <2>4, <1>0
  <1>5. CASE LoadValue("rating", "review") \/ LoadValue("review", "revisions")
    <2>1. at \in {"rating", "review"} /\ at' \in {"review", "revisions"}
          /\ UNCHANGED <<location, todo, watched, rows>>
      BY <1>5 DEF LoadValue
    <2>2. row \in Row /\ location \in Zones
      BY <2>1, <1>0 DEF HasRow, Working
    <2>3. row' \in Row
      <3>1. "rating" \in Kinds /\ "review" \in Kinds
        BY DEF Kinds
      <3> QED BY <2>2, <3>1, <1>5, LoadFacts
    <2> QED BY <2>1, <2>2, <2>3, <1>0
  <1>6. CASE LoadRevisions
    <2>1. at = "revisions" /\ at' = "decide" /\ UNCHANGED <<location, todo, watched, rows>>
      BY <1>6 DEF LoadRevisions
    <2>2. row \in Row /\ location \in Zones
      BY <2>1, <1>0 DEF HasRow, Working
    <2>3. row' \in Row
      BY <2>2, <1>6, RevisionFacts
    <2> QED BY <2>1, <2>2, <2>3, <1>0
  <1>7. CASE DecideRow
    <2>1. at = "decide" /\ at' = "row" /\ UNCHANGED <<location, todo, watched>>
          /\ rows' \in {rows, Append(rows, row)}
      BY <1>7 DEF DecideRow
    <2>2. row \in Row /\ location \in Zones
      BY <2>1, <1>0 DEF HasRow, Working
    <2>3. Append(rows, row) \in Seq(Row)
      BY <2>2, <1>0, AppendProperties
    <2> QED BY <2>1, <2>2, <2>3, <1>0 DEF HasRow
  <1> QED BY <1>1, <1>2, <1>3, <1>4, <1>5, <1>6, <1>7, GeneratorSteps

LEMMA TypeStep ==
  ASSUME TypeOK, TablesType, FilesHoldTheBatch, CountInv, [Next]_vars
  PROVE  TypeOK' /\ TablesType'
  <1>1. /\ watch' \in [Events -> (Movies \X Instants) \union {NoWatch}]
        /\ zone' \in Zones
        /\ current' \in [Movies -> [Kinds -> Value]]
        /\ changes' \in [Movies -> [Kinds -> Nat]]
        /\ diary' \in [Keys -> [Kinds -> Value]]
        /\ torn' \subseteq Movies
        /\ edits' \in Nat
    BY TablesStep
  <1>2. /\ batches' \in Seq(Batch)
        /\ \A b \in DOMAIN batches' :
               batches'[b].confirmed \in 0 .. confirmations' /\ batches'[b].rows # <<>>
        /\ confirmations' \in 0 .. Len(batches')
    BY BatchesStep
  <1>3. /\ location' \in Zones \union {<<>>}
        /\ at' \in {"idle", "row", "rating", "review", "revisions", "decide"}
        /\ todo' \subseteq Keys
        /\ watched' \in [Events -> Keys \union {NoWatch}]
        /\ rows' \in Seq(Row)
        /\ Working' => location' \in Zones
        /\ HasRow' => row' \in Row
    BY GeneratorStep
  <1> QED BY <1>1, <1>2, <1>3 DEF TypeOK, TablesType

-----------------------------------------------------------------------------
(* A batch after a step is one from before it, or the one just stored. *)
Old(b) ==
    /\ b \in DOMAIN batches
    /\ batches'[b].rows = batches[b].rows
    /\ batches'[b].zone = batches[b].zone
    /\ batches'[b].files = batches[b].files

New(b) ==
    /\ StoreBatch
    /\ b = Len(batches) + 1 /\ b \notin DOMAIN batches /\ \A c \in DOMAIN batches : c < b
    /\ batches'[b].rows = rows
    /\ batches'[b].zone = location
    /\ batches'[b].files = ChunkCSV(rows)
    /\ batches'[b].confirmed = 0

LEMMA OldOrNew ==
  ASSUME TypeOK, TablesType, [Next]_vars, NEW b \in DOMAIN batches'
  PROVE  Old(b) \/ New(b)
  <1>1. CASE b \in DOMAIN batches
    BY <1>1, BatchesKept DEF Old
  <1>2. CASE b \notin DOMAIN batches
    <2>1. StoreBatch
      BY <1>2, BatchesKept
    <2>2. b = Len(batches) + 1
      BY <1>2, <2>1, BatchesKept
    <2>3. \A c \in DOMAIN batches : c < b
      BY <2>2, BatchFacts
    <2>4. batches'[b] = [zone |-> location, rows |-> rows, files |-> ChunkCSV(rows), confirmed |-> 0]
      BY <2>1, <2>2, BatchesKept
    <2>5. /\ batches'[b].rows = rows /\ batches'[b].zone = location
          /\ batches'[b].files = ChunkCSV(rows) /\ batches'[b].confirmed = 0
      BY <2>4
    <2> QED BY <1>2, <2>1, <2>2, <2>3, <2>5 DEF New
  <1> QED BY <1>1, <1>2

LEMMA StoredRows ==
  ASSUME TypeOK, TablesType, StoreBatch
  PROVE  /\ Working /\ location \in Zones /\ at = "row"
         /\ rows \in Seq(Row) /\ rows # <<>> /\ ~TooLarge(rows)
         /\ \A i \in DOMAIN rows : rows[i] \in Row
  <1>1. at = "row" /\ rows # <<>> /\ ~TooLarge(rows)
    BY DEF StoreBatch
  <1>2. rows \in Seq(Row)
    BY DEF TablesType
  <1>3. \A i \in DOMAIN rows : rows[i] \in Row
    BY <1>2
  <1> QED BY <1>1, <1>2, <1>3 DEF TablesType, Working

LEMMA FilesStep ==
  ASSUME TypeOK, TablesType, FilesHoldTheBatch, [Next]_vars
  PROVE  FilesHoldTheBatch'
  <1>1. ASSUME NEW b \in DOMAIN batches'
        PROVE  /\ FlattenSeq(batches'[b].files) = batches'[b].rows
               /\ Fits(batches'[b].files)
    <2>1. CASE Old(b)
      <3>1. /\ b \in DOMAIN batches
            /\ batches'[b].rows = batches[b].rows /\ batches'[b].files = batches[b].files
        BY <2>1 DEF Old
      <3>2. FlattenSeq(batches[b].files) = batches[b].rows /\ Fits(batches[b].files)
        BY <3>1 DEF FilesHoldTheBatch, Fits
      <3> QED BY <3>1, <3>2
    <2>2. CASE New(b)
      <3>1. StoreBatch /\ batches'[b].rows = rows /\ batches'[b].files = ChunkCSV(rows)
        BY <2>2 DEF New
      <3> QED BY <3>1, StoredRows, ChunkFacts
    <2> QED BY <2>1, <2>2, OldOrNew
  <1> QED BY <1>1 DEF FilesHoldTheBatch, Fits

(* Watches, ratings and reviews. *)
LEMMA WatchStep ==
  ASSUME TypeOK, WatchInv, [Next]_vars
  PROVE  WatchInv'
  <1> DEFINE W == {e \in Events : watch[e] # NoWatch}
             V == {e \in Events : watch'[e] # NoWatch}
  <1>1. CASE ImportWatch
    <2>1. PICK e \in Events, m \in Movies, i \in Instants : watch' = [watch EXCEPT ![e] = <<m, i>>]
      BY <1>1 DEF ImportWatch
    <2>2. V \subseteq W \union {e}
      BY <2>1 DEF TypeOK
    <2>3. IsFiniteSet(W)
      BY DEF WatchInv
    <2> HIDE DEF W, V
    <2>4. IsFiniteSet(W \union {e})
      BY <2>3, FS_AddElement
    <2>5. IsFiniteSet(V)
      BY <2>2, <2>4, FS_Subset
    <2> QED BY <2>5 DEF WatchInv, V
  <1>2. CASE UNCHANGED watch
    BY <1>2 DEF WatchInv
  <1>3. ImportWatch \/ UNCHANGED watch
    BY DEF Next, Generate, vars, tables, Edit, SetTimezone, LoadWatches, BeginRow,
           LoadValue, LoadRevisions, DecideRow, StoreBatch, NoBatch, Interrupted, ImportAndConfirm
  <1> QED BY <1>1, <1>2, <1>3

LEMMA CurrentStep ==
  ASSUME TypeOK, CurrentInv, [Next]_vars
  PROVE  CurrentInv'
  <1>1. ASSUME NEW m \in Movies, NEW k \in Kinds, changes'[m][k] = 0
        PROVE  current'[m][k] = NoValue
    <2>1. changes[m][k] \in Nat
      BY DEF TypeOK
    <2>2. changes'[m][k] = changes[m][k] /\ current'[m][k] = current[m][k]
      BY <1>1, <2>1, StepFacts
    <2> QED BY <1>1, <2>2 DEF CurrentInv
  <1> QED BY <1>1 DEF CurrentInv

LEMMA IdleStep ==
  ASSUME TypeOK, IdleInv, [Next]_vars
  PROVE  IdleInv'
  <1>1. CASE UNCHANGED generator
    BY <1>1 DEF IdleInv, Working, generator
  <1>2. CASE Done
    BY <1>2 DEF Done, IdleInv
  <1>3. CASE at' # "idle"
    BY <1>3 DEF IdleInv, Working
  <1>4. ASSUME LoadWatches \/ BeginRow \/ LoadValue("rating", "review")
               \/ LoadValue("review", "revisions") \/ LoadRevisions \/ DecideRow
        PROVE  at' # "idle"
    BY <1>4 DEF LoadWatches, BeginRow, LoadValue, LoadRevisions, DecideRow
  <1> QED BY <1>1, <1>2, <1>3, <1>4, GeneratorSteps

(* The rows of the batches. *)
LEMMA RowsStep ==
  ASSUME TypeOK, TablesType, RowsInv, MadeInv, [Next]_vars
  PROVE  RowsInv'
  <1>1. ASSUME NEW b \in DOMAIN batches', NEW s, s = batches'[b].rows, NEW z, z = batches'[b].zone
        PROVE  /\ s # <<>> /\ Ordered(s)
               /\ \A i \in DOMAIN s : Read(s[i])' /\ Revised(s[i])' /\ Placed(s[i], z)'
    <2>1. /\ s # <<>> /\ Ordered(s) /\ z \in Zones
          /\ \A i \in DOMAIN s : s[i] \in Row /\ Read(s[i]) /\ Revised(s[i]) /\ Placed(s[i], z)
      <3>1. CASE Old(b)
        <4>1. b \in DOMAIN batches /\ s = batches[b].rows /\ z = batches[b].zone
          BY <3>1, <1>1 DEF Old
        <4>2. batches[b].zone \in Zones /\ \A i \in DOMAIN batches[b].rows : batches[b].rows[i] \in Row
          BY <4>1, BatchFacts
        <4> QED BY <4>1, <4>2 DEF RowsInv
      <3>2. CASE New(b)
        <4>1. StoreBatch /\ s = rows /\ z = location
          BY <3>2, <1>1 DEF New
        <4>2. /\ Working /\ location \in Zones /\ rows # <<>>
              /\ \A i \in DOMAIN rows : rows[i] \in Row
          BY <4>1, StoredRows
        <4>3. Ordered(rows) /\ \A i \in DOMAIN rows : Taken(rows[i]) /\ Finished(rows[i])
          BY <4>2 DEF MadeInv
        <4>4. \A i \in DOMAIN rows : Read(rows[i]) /\ Revised(rows[i]) /\ Placed(rows[i], location)
          BY <4>3 DEF Taken, Finished
        <4> QED BY <4>1, <4>2, <4>3, <4>4
      <3> QED BY <3>1, <3>2, OldOrNew
    <2>2. ASSUME NEW i \in DOMAIN s, NEW r, r = s[i] PROVE Read(r)' /\ Revised(r)' /\ Placed(r, z)'
      <3>1. r \in Row /\ Read(r) /\ Revised(r) /\ Placed(r, z)
        BY <2>1, <2>2
      <3> QED BY <3>1, <2>1, RowKept
    <2> QED BY <2>1, <2>2
  <1>2. ASSUME NEW b \in DOMAIN batches', NEW i \in DOMAIN batches'[b].rows
        PROVE  /\ Read(batches[b].rows[i])' /\ Revised(batches[b].rows[i])'
               /\ Placed(batches[b].rows[i], batches[b].zone)'
    <2>1. PICK s : s = batches'[b].rows
      OBVIOUS
    <2>2. PICK z : z = batches'[b].zone
      OBVIOUS
    <2>3. Read(s[i])' /\ Revised(s[i])' /\ Placed(s[i], z)'
      BY <1>1, <1>2, <2>1, <2>2
    <2> QED BY <2>1, <2>2, <2>3 DEF Read, Revised, Placed
  <1>3. ASSUME NEW b \in DOMAIN batches'
        PROVE  batches'[b].rows # <<>> /\ Ordered(batches[b].rows)'
    <2>1. PICK s : s = batches'[b].rows
      OBVIOUS
    <2>2. PICK z : z = batches'[b].zone
      OBVIOUS
    <2>3. s # <<>> /\ Ordered(s)
      BY <1>1, <2>1, <2>2
    <2> QED BY <2>1, <2>3 DEF Ordered
  <1> QED BY <1>2, <1>3 DEF RowsInv

LEMMA TornStep ==
  ASSUME TypeOK, TablesType, TornInv, [Next]_vars
  PROVE  TornInv'
  <1>1. ASSUME NEW b \in DOMAIN batches', NEW i \in DOMAIN batches'[b].rows,
               batches'[b].rows[i].key[1] \notin torn', NEW k \in Kinds
        PROVE  batches'[b].rows[i].revision[k] <= batches'[b].rows[i].seen[k]
    <2>1. CASE Old(b)
      <3>1. b \in DOMAIN batches /\ batches'[b].rows = batches[b].rows
        BY <2>1 DEF Old
      <3>2. torn \subseteq torn'
        BY DEF Next, Generate, vars, tables, Edit, SetTimezone, ImportWatch, LoadWatches, BeginRow,
               LoadValue, LoadRevisions, DecideRow, StoreBatch, NoBatch, Interrupted, ImportAndConfirm
      <3> QED BY <3>1, <3>2, <1>1 DEF TornInv
    <2>2. CASE New(b)
      <3>1. StoreBatch /\ batches'[b].rows = rows
        BY <2>2 DEF New
      <3>2. rows[i] \in Row /\ i \in DOMAIN rows
        BY <3>1, <1>1, StoredRows
      <3>3. torn' = torn \union TornIn(rows)
        BY <3>1 DEF StoreBatch
      <3>4. ~(rows[i].seen[k] < rows[i].revision[k])
        BY <1>1, <3>1, <3>2, <3>3 DEF TornIn
      <3>5. rows[i].seen[k] \in Nat /\ rows[i].revision[k] \in Nat
        BY <3>2, RowFacts
      <3> QED BY <3>1, <3>4, <3>5
    <2> QED BY <2>1, <2>2, OldOrNew
  <1> QED BY <1>1 DEF TornInv

-----------------------------------------------------------------------------
(* Confirmations. *)
LEMMA ImportedFacts ==
  ASSUME TypeOK, TablesType, NEW d \in DOMAIN batches, Imports(d)
  PROVE  /\ DOMAIN batches' = DOMAIN batches
         /\ batches'[d].confirmed = confirmations + 1
         /\ \A b \in DOMAIN batches : b # d => batches'[b] = batches[b]
         /\ \A b \in DOMAIN batches : batches'[b].rows = batches[b].rows
         /\ \A b \in DOMAIN batches : batches[b].confirmed \in Nat /\ batches[b].confirmed <= confirmations
         /\ confirmations \in Nat
  <1>1. batches[d] \in Batch /\ batches' = [batches EXCEPT ![d].confirmed = confirmations + 1]
    BY BatchFacts DEF Imports
  <1>2. batches'[d].confirmed = confirmations + 1 /\ batches'[d].rows = batches[d].rows
    <2> DEFINE n == confirmations + 1
    <2> HIDE DEF n
    <2>1. batches'[d] = [batches[d] EXCEPT !.confirmed = n]
      BY <1>1 DEF n
    <2>2. batches'[d].confirmed = n /\ batches'[d].rows = batches[d].rows
      BY <2>1, <1>1 DEF Batch
    <2> QED BY <2>2 DEF n
  <1>3. confirmations \in Nat /\ \A b \in DOMAIN batches : batches[b].confirmed \in 0 .. confirmations
    BY BatchFacts DEF TypeOK
  <1> QED BY <1>1, <1>2, <1>3

LEMMA ConfirmedStep ==
  ASSUME TypeOK, TablesType, FilesHoldTheBatch, ConfirmedInv, [Next]_vars
  PROVE  ConfirmedInv'
  <1>1. CASE ImportAndConfirm
    <2>1. PICK d \in DOMAIN batches : Imports(d)
      BY <1>1, ImportFacts
    <2>2. ASSUME NEW b \in DOMAIN batches, NEW c \in DOMAIN batches,
                 batches'[b].confirmed > 0, batches'[b].confirmed = batches'[c].confirmed
          PROVE  b = c
      <3>1. /\ batches'[d].confirmed = confirmations + 1 /\ confirmations \in Nat
            /\ b # d => batches'[b].confirmed = batches[b].confirmed
            /\ c # d => batches'[c].confirmed = batches[c].confirmed
            /\ batches[b].confirmed <= confirmations /\ batches[c].confirmed <= confirmations
            /\ batches[b].confirmed \in Nat /\ batches[c].confirmed \in Nat
        BY <2>1, ImportedFacts
      <3>2. CASE b = d /\ c = d
        BY <3>2
      <3>3. CASE b # d /\ c # d
        BY <3>1, <3>3, <2>2 DEF ConfirmedInv, Confirmed
      <3>4. CASE b = d /\ c # d
        BY <3>1, <3>4, <2>2
      <3>5. CASE b # d /\ c = d
        BY <3>1, <3>5, <2>2
      <3> QED BY <3>2, <3>3, <3>4, <3>5
    <2>3. DOMAIN batches' = DOMAIN batches
      BY <2>1, ImportedFacts
    <2> QED BY <2>2, <2>3 DEF ConfirmedInv, Confirmed
  <1>2. CASE ~ImportAndConfirm
    <2>1. ASSUME NEW b \in DOMAIN batches'
          PROVE  \/ b \in DOMAIN batches /\ batches'[b].confirmed = batches[b].confirmed
                 \/ batches'[b].confirmed = 0 /\ New(b)
      BY <1>2, OldOrNew, BatchesKept DEF Old, New
    <2>2. ASSUME NEW b \in DOMAIN batches', NEW c \in DOMAIN batches',
                 batches'[b].confirmed > 0, batches'[b].confirmed = batches'[c].confirmed
          PROVE  b = c
      <3>1. batches'[b].confirmed # 0 /\ batches'[c].confirmed # 0
        BY <2>2
      <3>2. /\ b \in DOMAIN batches /\ batches'[b].confirmed = batches[b].confirmed
            /\ c \in DOMAIN batches /\ batches'[c].confirmed = batches[c].confirmed
        BY <2>1, <3>1
      <3> QED BY <3>2, <2>2 DEF ConfirmedInv, Confirmed
    <2> QED BY <2>2 DEF ConfirmedInv, Confirmed
  <1> QED BY <1>1, <1>2

LEMMA DiaryStep ==
  ASSUME TypeOK, TablesType, FilesHoldTheBatch, RowsInv, DiaryInv, [Next]_vars
  PROVE  DiaryInv'
  <1>1. CASE ImportAndConfirm
    <2>1. PICK d \in DOMAIN batches : Imports(d)
      BY <1>1, ImportFacts
    <2>2. /\ DOMAIN batches' = DOMAIN batches
          /\ \A b \in DOMAIN batches : batches'[b].rows = batches[b].rows
      BY <2>1, ImportedFacts
    <2>3. ASSUME NEW b \in DOMAIN batches, NEW i \in DOMAIN batches[b].rows,
                 NEW key, key = batches[b].rows[i].key, LastToShow(b, key)'
          PROVE  diary'[key] = batches[b].rows[i].values
      <3>0. key \in Keys
        BY <2>3, BatchFacts, RowFacts
      <3>1. /\ batches'[d].confirmed = confirmations + 1 /\ confirmations \in Nat
            /\ \A c \in DOMAIN batches : c # d => batches'[c] = batches[c]
            /\ \A c \in DOMAIN batches : batches[c].confirmed \in Nat /\ batches[c].confirmed <= confirmations
        BY <2>1, ImportedFacts
      <3>2. CASE \E j \in DOMAIN batches[d].rows : batches[d].rows[j].key = key
        <4>1. ShowsKey(d, key)'
          <5>1. Confirmed(d)'
            BY <3>1 DEF Confirmed
          <5> QED BY <5>1, <3>2, <2>2 DEF ShowsKey
        <4>2. batches'[d].confirmed <= batches'[b].confirmed
          BY <4>1, <2>2, <2>3 DEF LastToShow
        <4>3. b = d
          <5>1. SUFFICES ASSUME b # d PROVE FALSE
            OBVIOUS
          <5>2. batches'[b].confirmed = batches[b].confirmed
            BY <5>1, <3>1
          <5> QED BY <5>2, <4>2, <3>1
        <4>4. PICK j \in DOMAIN batches[d].rows :
                batches[d].rows[j].key = key /\ diary'[key] = batches[d].rows[j].values
          BY <2>1, <3>0, <3>2 DEF Imports
        <4>5. i = j
          <5>1. i \in Nat /\ j \in Nat
            BY <4>3, <4>4, BatchFacts
          <5>2. Ordered(batches[d].rows)
            BY DEF RowsInv
          <5>3. ~(i < j) /\ ~(j < i)
            BY <5>2, <4>3, <4>4, <2>3 DEF Ordered
          <5> QED BY <5>1, <5>3
        <4> QED BY <4>3, <4>4, <4>5
      <3>3. CASE \A j \in DOMAIN batches[d].rows : batches[d].rows[j].key # key
        <4>1. diary'[key] = diary[key]
          BY <2>1, <3>0, <3>3 DEF Imports
        <4>2. b # d /\ batches'[b] = batches[b]
          BY <2>3, <3>3, <3>1
        <4>3. ASSUME NEW c \in DOMAIN batches, ShowsKey(c, key)
              PROVE  batches[c].confirmed <= batches[b].confirmed
          <5>1. c # d /\ batches'[c] = batches[c]
            BY <4>3, <3>3, <3>1 DEF ShowsKey
          <5>2. ShowsKey(c, key)'
            BY <5>1, <4>3, <2>2 DEF ShowsKey, Confirmed
          <5>3. batches'[c].confirmed <= batches'[b].confirmed
            BY <5>2, <2>2, <2>3 DEF LastToShow
          <5> QED BY <5>1, <5>3, <4>2
        <4>4. ShowsKey(b, key)
          BY <4>2, <2>3, <2>2 DEF LastToShow, ShowsKey, Confirmed
        <4>5. LastToShow(b, key)
          BY <4>3, <4>4 DEF LastToShow
        <4> QED BY <4>1, <4>5, <2>3 DEF DiaryInv
      <3> QED BY <3>2, <3>3
    <2> QED BY <2>2, <2>3 DEF DiaryInv
  <1>2. CASE StoreBatch
    <2>0. diary' = diary /\ ~ImportAndConfirm
      BY <1>2 DEF StoreBatch, ImportAndConfirm, generator, Done
    <2>1. ASSUME NEW b \in DOMAIN batches'
          PROVE  \/ b \in DOMAIN batches /\ batches'[b] = batches[b]
                 \/ batches'[b].confirmed = 0
      BY <2>0, OldOrNew, BatchesKept DEF Old, New
    <2>2. ASSUME NEW b \in DOMAIN batches', NEW i \in DOMAIN batches'[b].rows,
                 NEW key, key = batches'[b].rows[i].key, LastToShow(b, key)'
          PROVE  diary'[key] = batches'[b].rows[i].values
      <3>1. batches'[b].confirmed # 0
        BY <2>2 DEF LastToShow, ShowsKey, Confirmed
      <3>2. b \in DOMAIN batches /\ batches'[b] = batches[b]
        BY <2>1, <3>1
      <3>3. ShowsKey(b, key)
        BY <2>2, <3>2 DEF LastToShow, ShowsKey, Confirmed
      <3>4. ASSUME NEW c \in DOMAIN batches, ShowsKey(c, key)
            PROVE  batches[c].confirmed <= batches[b].confirmed
        <4>1. c \in DOMAIN batches' /\ batches'[c] = batches[c]
          BY <2>0, BatchesKept
        <4>2. ShowsKey(c, key)'
          BY <4>1, <3>4 DEF ShowsKey, Confirmed
        <4> QED BY <4>1, <4>2, <3>2, <2>2 DEF LastToShow
      <3>5. LastToShow(b, key)
        BY <3>3, <3>4 DEF LastToShow
      <3> QED BY <3>5, <3>2, <2>0, <2>2 DEF DiaryInv
    <2> QED BY <2>2 DEF DiaryInv
  <1>3. CASE UNCHANGED <<batches, diary>>
    BY <1>3 DEF DiaryInv, LastToShow, ShowsKey, Confirmed
  <1>4. StoreBatch \/ ImportAndConfirm \/ UNCHANGED <<batches, diary>>
    BY DEF Next, Generate, vars, tables, Edit, SetTimezone, ImportWatch, LoadWatches, BeginRow,
           LoadValue, LoadRevisions, DecideRow, NoBatch, Interrupted
  <1> QED BY <1>1, <1>2, <1>3, <1>4

-----------------------------------------------------------------------------
(* What the generator has loaded. *)
LEMMA NotStoring ==
  ASSUME TypeOK, TablesType, [Next]_vars, Working'
  PROVE  /\ ~StoreBatch /\ DOMAIN batches' = DOMAIN batches
         /\ \A b \in DOMAIN batches :
                batches'[b].rows = batches[b].rows /\ batches'[b].zone = batches[b].zone
  <1>1. ~StoreBatch
    BY DEF StoreBatch, Done, Working
  <1> QED BY <1>1, BatchesKept

LEMMA PlacedKey ==
  ASSUME TypeOK, NEW r \in Row, NEW z \in Zones, Placed(r, z)
  PROVE  r.key \in KeysOf(WatchedIn(z))
  <1>1. PICK e \in Events : watch[e] # NoWatch /\ r.key = <<watch[e][1], z[watch[e][2]]>>
    BY RowFacts DEF Placed
  <1>2. r.key # NoWatch
    BY RowFacts, KeyFacts
  <1> QED BY <1>1, <1>2 DEF KeysOf, WatchedIn

LEMMA LoadedStep ==
  ASSUME TypeOK, TablesType, RowsInv, LoadedInv, [Next]_vars
  PROVE  LoadedInv'
  <1> SUFFICES ASSUME Working' PROVE LoadedInv'
    BY DEF LoadedInv
  <1>1. /\ DOMAIN batches' = DOMAIN batches
        /\ \A b \in DOMAIN batches :
               batches'[b].rows = batches[b].rows /\ batches'[b].zone = batches[b].zone
    BY NotStoring
  <1>2. CASE LoadWatches
    <2>1. watched' = WatchedIn(zone) /\ todo' = KeysOf(watched') /\ location' = zone /\ watch' = watch
      BY <1>2 DEF LoadWatches, tables
    <2>2. zone \in Zones
      BY DEF TypeOK
    <2>3. \A e \in Events : watched'[e] # NoWatch =>
             watch'[e] # NoWatch /\ watched'[e] = <<watch'[e][1], zone[watch'[e][2]]>>
      BY <2>1 DEF WatchedIn
    <2>4. ASSUME NEW b \in DOMAIN batches, batches[b].zone = zone, NEW i \in DOMAIN batches[b].rows
          PROVE  batches[b].rows[i].key \in KeysOf(watched')
      <3>1. batches[b].rows[i] \in Row
        BY BatchFacts
      <3>2. Placed(batches[b].rows[i], zone)
        BY <2>4 DEF RowsInv
      <3>3. batches[b].rows[i].key \in KeysOf(WatchedIn(zone))
        BY <3>1, <3>2, <2>2, PlacedKey
      <3> QED BY <3>3, <2>1
    <2> QED BY <1>1, <2>1, <2>3, <2>4 DEF LoadedInv, KeysOf
  <1>3. CASE Working /\ location' = location /\ watched' = watched /\ todo' \subseteq todo
    <2>1. \A e \in Events : watch[e] # NoWatch => watch'[e] = watch[e]
      BY StepFacts
    <2> QED BY <1>1, <1>3, <2>1 DEF LoadedInv, KeysOf
  <1>4. LoadWatches \/ (Working /\ location' = location /\ watched' = watched /\ todo' \subseteq todo)
    <2>1. CASE UNCHANGED generator
      BY <2>1 DEF generator, Working
    <2>2. CASE Done
      BY <2>2 DEF Done, Working
    <2>3. CASE BeginRow
      BY <2>3 DEF BeginRow, Working
    <2>4. CASE LoadValue("rating", "review") \/ LoadValue("review", "revisions")
               \/ LoadRevisions \/ DecideRow
      BY <2>4 DEF LoadValue, LoadRevisions, DecideRow, Working
    <2> QED BY <2>1, <2>2, <2>3, <2>4, GeneratorSteps
  <1> QED BY <1>2, <1>3, <1>4

-----------------------------------------------------------------------------
(* Two batches, the one after the other. *)
LEMMA TwoBatches ==
  ASSUME TypeOK, TablesType, [Next]_vars, NEW b \in DOMAIN batches', NEW c \in DOMAIN batches', b < c
  PROVE  Old(b) /\ (Old(c) \/ New(c))
  <1>1. Old(c) \/ New(c)
    BY OldOrNew
  <1>2. ~New(b)
    <2>1. SUFFICES ASSUME New(b) PROVE FALSE
      OBVIOUS
    <2>2. Len(batches) \in Nat /\ DOMAIN batches = 1 .. Len(batches)
      BY BatchFacts
    <2>3. b = Len(batches) + 1 /\ (c \in DOMAIN batches \/ c = Len(batches) + 1)
      BY <1>1, <2>1 DEF New, Old
    <2> QED BY <2>2, <2>3
  <1> QED BY <1>1, <1>2, OldOrNew

LEMMA OvertakenStep ==
  ASSUME TypeOK, TablesType, OvertakenInv, LoadedInv, MadeInv, [Next]_vars
  PROVE  OvertakenInv'
  <1>1. ASSUME NEW b \in DOMAIN batches', NEW c \in DOMAIN batches', b < c,
               batches'[b].zone = batches'[c].zone,
               NEW i \in DOMAIN batches'[b].rows, NEW j \in DOMAIN batches'[c].rows,
               NEW r, r = batches'[b].rows[i], NEW s, s = batches'[c].rows[j],
               r.key[1] = s.key[1], s.key[2] < r.key[2]
        PROVE  s.revision = Unrevised
    <2>1. Old(b) /\ (Old(c) \/ New(c))
      BY <1>1, TwoBatches
    <2>2. CASE Old(c)
      <3>1. /\ b \in DOMAIN batches /\ batches'[b].rows = batches[b].rows /\ batches'[b].zone = batches[b].zone
            /\ c \in DOMAIN batches /\ batches'[c].rows = batches[c].rows /\ batches'[c].zone = batches[c].zone
        BY <2>1, <2>2 DEF Old
      <3>2. /\ b \in DOMAIN batches /\ c \in DOMAIN batches /\ b < c
            /\ batches[b].zone = batches[c].zone
            /\ i \in DOMAIN batches[b].rows /\ r = batches[b].rows[i]
            /\ j \in DOMAIN batches[c].rows /\ s = batches[c].rows[j]
        BY <3>1, <1>1
      <3>3. batches[b].rows[i].key[1] = batches[c].rows[j].key[1] /\ batches[c].rows[j].key[2] < batches[b].rows[i].key[2]
        BY <3>2, <1>1
      <3>4. batches[c].rows[j].revision = Unrevised
        BY <3>2, <3>3 DEF OvertakenInv
      <3> QED BY <3>2, <3>4
    <2>3. CASE New(c)
      <3>1. /\ b \in DOMAIN batches /\ batches'[b].rows = batches[b].rows /\ batches'[b].zone = batches[b].zone
            /\ StoreBatch /\ batches'[c].rows = rows /\ batches'[c].zone = location
        BY <2>1, <2>3 DEF Old, New
      <3>2. Working
        BY <3>1, StoredRows
      <3>3. r.key \in KeysOf(watched)
        BY <3>1, <3>2, <1>1 DEF LoadedInv
      <3>4. OnlyLatest(s)
        BY <3>1, <3>2, <1>1 DEF MadeInv, Finished
      <3>5. r \in Row /\ s \in Row
        BY <3>1, <1>1, BatchFacts, StoredRows
      <3>6. ~(r.key[2] <= s.key[2])
        BY <3>5, <1>1, RowFacts
      <3>7. ~IsLatest(watched, s.key)
        BY <3>3, <3>6, <1>1 DEF IsLatest
      <3> QED BY <3>4, <3>7 DEF OnlyLatest
    <2> QED BY <2>1, <2>2, <2>3
  <1> QED BY <1>1 DEF OvertakenInv

LEMMA LoadedLatest ==
  ASSUME TypeOK, LoadedInv, Working, NEW key, IsLatest(WatchedIn(location), key)
  PROVE  IsLatest(watched, key)
  <1>1. ASSUME NEW k \in KeysOf(watched) PROVE k \in KeysOf(WatchedIn(location))
    <2>1. PICK e \in Events : watched[e] = k /\ k # NoWatch
      BY DEF KeysOf
    <2>2. watch[e] # NoWatch /\ k = <<watch[e][1], location[watch[e][2]]>>
      BY <2>1 DEF LoadedInv
    <2> QED BY <2>1, <2>2 DEF KeysOf, WatchedIn
  <1> QED BY <1>1 DEF IsLatest

LEMMA RevisionStep ==
  ASSUME TypeOK, TypeOK', TablesType, RevisionInv, LoadedInv, MadeInv, [Next]_vars
  PROVE  RevisionInv'
  <1>1. ASSUME NEW b \in DOMAIN batches', NEW c \in DOMAIN batches', b < c,
               NEW i \in DOMAIN batches'[b].rows, NEW j \in DOMAIN batches'[c].rows,
               NEW r, r = batches'[c].rows[j], NEW z, z = batches'[c].zone,
               IsLatest(WatchedIn(z), r.key)'
        PROVE  Surpasses(r, batches'[b].rows[i])
    <2>1. Old(b) /\ (Old(c) \/ New(c))
      BY <1>1, TwoBatches
    <2>2. z \in Zones
      <3>1. CASE Old(c)
        BY <3>1, <1>1, BatchFacts DEF Old
      <3>2. CASE New(c)
        BY <3>2, <1>1, StoredRows DEF New
      <3> QED BY <3>1, <3>2, <2>1
    <2> DEFINE key == r.key
    <2>3. IsLatest(WatchedIn(z), key)
      <3>1. IsLatest(WatchedIn(z), key)'
        BY <1>1
      <3> HIDE DEF key
      <3> QED BY <3>1, <2>2, WatchesGrow
    <2>4. CASE Old(c)
      <3>1. /\ b \in DOMAIN batches /\ batches'[b].rows = batches[b].rows
            /\ c \in DOMAIN batches /\ batches'[c].rows = batches[c].rows /\ batches'[c].zone = batches[c].zone
        BY <2>1, <2>4 DEF Old
      <3> QED BY <3>1, <2>3, <1>1 DEF RevisionInv
    <2>5. CASE New(c)
      <3>1. /\ b \in DOMAIN batches /\ batches'[b].rows = batches[b].rows
            /\ StoreBatch /\ batches'[c].rows = rows /\ batches'[c].zone = location
        BY <2>1, <2>5 DEF Old, New
      <3>2. Working
        BY <3>1, StoredRows
      <3>3. IsLatest(watched, r.key)
        BY <3>1, <3>2, <2>3, <1>1, LoadedLatest
      <3>4. Finished(r)
        BY <3>1, <3>2, <1>1 DEF MadeInv
      <3> QED BY <3>1, <3>3, <3>4 DEF Finished
    <2> QED BY <2>1, <2>4, <2>5
  <1>2. ASSUME NEW b \in DOMAIN batches', NEW c \in DOMAIN batches', b < c,
               NEW i \in DOMAIN batches'[b].rows, NEW j \in DOMAIN batches'[c].rows,
               IsLatest(WatchedIn(batches[c].zone), batches[c].rows[j].key)'
        PROVE  Surpasses(batches[c].rows[j], batches[b].rows[i])'
    <2>1. PICK r : r = batches'[c].rows[j]
      OBVIOUS
    <2>2. PICK z : z = batches'[c].zone
      OBVIOUS
    <2>3. IsLatest(WatchedIn(z), r.key)'
      BY <1>2, <2>1, <2>2 DEF IsLatest, WatchedIn, KeysOf
    <2>4. Surpasses(r, batches'[b].rows[i])
      BY <1>1, <1>2, <2>1, <2>2, <2>3
    <2> QED BY <2>1, <2>4 DEF Surpasses
  <1> QED BY <1>2 DEF RevisionInv

(* A batch attaches a movie's values to its latest day. *)
LEMMA OneDayStep ==
  ASSUME TypeOK, TablesType, LoadedInv, MadeInv, OneDayCarriesTheRating, [Next]_vars
  PROVE  OneDayCarriesTheRating'
  <1>1. ASSUME NEW b \in DOMAIN batches',
               NEW i \in DOMAIN batches'[b].rows, NEW j \in DOMAIN batches'[b].rows,
               NEW r, r = batches'[b].rows[i], NEW s, s = batches'[b].rows[j],
               r.values # Nothing, s.values # Nothing, r.key[1] = s.key[1]
        PROVE  i = j
    <2>1. CASE Old(b)
      <3>1. b \in DOMAIN batches /\ batches'[b].rows = batches[b].rows
        BY <2>1 DEF Old
      <3> QED BY <3>1, <1>1 DEF OneDayCarriesTheRating
    <2>2. CASE New(b)
      <3>1. StoreBatch /\ batches'[b].rows = rows
        BY <2>2 DEF New
      <3>2. Working /\ r \in Row /\ s \in Row /\ i \in Nat /\ j \in Nat
        BY <3>1, <1>1, StoredRows
      <3>3. Ordered(rows) /\ Taken(r) /\ Finished(r) /\ Taken(s) /\ Finished(s)
        BY <3>1, <3>2, <1>1 DEF MadeInv
      <3>4. IsLatest(watched, r.key) /\ IsLatest(watched, s.key)
        BY <3>3, <1>1 DEF Finished, OnlyLatest
      <3>5. r.key \in KeysOf(watched) /\ s.key \in KeysOf(watched)
        BY <3>3 DEF Taken
      <3>6. r.key[2] <= s.key[2] /\ s.key[2] <= r.key[2]
        BY <3>4, <3>5, <1>1 DEF IsLatest
      <3>7. r.key = s.key
        BY <3>2, <3>6, <1>1, RowFacts
      <3>8. ~(i < j) /\ ~(j < i)
        BY <3>1, <3>3, <3>7, <1>1 DEF Ordered
      <3> QED BY <3>2, <3>8
    <2> QED BY <2>1, <2>2, OldOrNew
  <1> QED BY <1>1 DEF OneDayCarriesTheRating

-----------------------------------------------------------------------------
(* While the generator goes on, what is known of a row it has put together   *)
(* stays so.                                                                *)
GoesOn == Working /\ Working' /\ location' = location /\ watched' = watched /\ todo' \subseteq todo

LEMMA GeneratorKept ==
  ASSUME TypeOK, TablesType, [Next]_vars, GoesOn, NEW r \in Row
  PROVE  /\ Taken(r) => Taken(r)'
         /\ OnlyLatest(r) => OnlyLatest(r)'
         /\ Finished(r) => Finished(r)'
  <1>1. /\ DOMAIN batches' = DOMAIN batches
        /\ \A b \in DOMAIN batches : batches'[b].rows = batches[b].rows
    BY NotStoring DEF GoesOn
  <1>2. location \in Zones
    BY DEF TablesType, GoesOn
  <1>3. ASSUME Taken(r) PROVE Taken(r)'
    <2>1. Placed(r, location) /\ r.key \in KeysOf(watched) \ todo /\ \A key \in todo : r.key[2] <= key[2]
      BY <1>3 DEF Taken
    <2>2. Placed(r, location)'
      <3>1. PICK z : z = location
        OBVIOUS
      <3>2. Placed(r, z)'
        BY <2>1, <1>2, <3>1, RowKept
      <3> QED BY <3>1, <3>2 DEF Placed, GoesOn
    <2>3. r.key \in (KeysOf(watched) \ todo)' /\ \A key \in todo' : r.key[2] <= key[2]
      BY <2>1 DEF GoesOn, KeysOf
    <2> QED BY <2>2, <2>3 DEF Taken
  <1>4. ASSUME OnlyLatest(r) PROVE OnlyLatest(r)'
    BY <1>4 DEF OnlyLatest, GoesOn, IsLatest, KeysOf
  <1>5. ASSUME Finished(r) PROVE Finished(r)'
    <2>1. Read(r)' /\ Revised(r)'
      BY <1>5, RowKept DEF Finished
    <2>2. OnlyLatest(r)'
      BY <1>4, <1>5 DEF Finished
    <2>3. ASSUME IsLatest(watched, r.key)', NEW b \in DOMAIN batches', NEW i \in DOMAIN batches'[b].rows
          PROVE  Surpasses(r, batches'[b].rows[i])
      <3>1. IsLatest(watched, r.key)
        BY <2>3 DEF GoesOn, IsLatest, KeysOf
      <3>2. \A c \in DOMAIN batches : \A j \in DOMAIN batches[c].rows : Surpasses(r, batches[c].rows[j])
        BY <3>1, <1>5 DEF Finished
      <3>3. b \in DOMAIN batches /\ i \in DOMAIN batches[b].rows /\ batches'[b].rows = batches[b].rows
        BY <1>1, <2>3
      <3>4. Surpasses(r, batches[b].rows[i])
        BY <3>2, <3>3
      <3> QED BY <3>3, <3>4
    <2>4. ASSUME IsLatest(watched, r.key)', NEW b \in DOMAIN batches', NEW i \in DOMAIN batches'[b].rows
          PROVE  Surpasses(r, batches[b].rows[i])'
      BY <2>3, <2>4 DEF Surpasses
    <2> QED BY <2>1, <2>2, <2>4 DEF Finished
  <1> QED BY <1>3, <1>4, <1>5

LEMMA MadeStep ==
  ASSUME TypeOK, TablesType, MadeInv, MakingInv, IdleInv, [Next]_vars
  PROVE  MadeInv'
  <1> SUFFICES ASSUME Working' PROVE MadeInv'
    BY DEF MadeInv
  <1>1. CASE LoadWatches
    <2>1. rows' = <<>>
      BY <1>1 DEF LoadWatches, IdleInv, Working
    <2>2. DOMAIN rows' = {}
      BY <2>1
    <2> QED BY <2>2 DEF MadeInv, Ordered
  <1>2. rows \in Seq(Row) /\ \A i \in DOMAIN rows : rows[i] \in Row
    <2>1. rows \in Seq(Row)
      BY DEF TablesType
    <2> QED BY <2>1
  <1>3. ASSUME GoesOn, Ordered(rows'),
               \A i \in DOMAIN rows' : rows'[i] \in Row /\ Taken(rows'[i]) /\ Finished(rows'[i])
        PROVE  MadeInv'
    <2>1. ASSUME NEW i \in DOMAIN rows' PROVE Taken(rows[i])' /\ Finished(rows[i])'
      <3>1. PICK r : r = rows'[i]
        OBVIOUS
      <3>2. Taken(r)' /\ Finished(r)'
        BY <1>3, <2>1, <3>1, GeneratorKept
      <3>3. Taken(rows[i])'
        BY <3>1, <3>2 DEF Taken, Placed
      <3>4. Read(rows[i])' /\ Revised(rows[i])' /\ OnlyLatest(rows[i])'
        BY <3>1, <3>2 DEF Finished, Read, Revised, OnlyLatest, IsLatest
      <3>5. ASSUME IsLatest(watched, rows[i].key)'
            PROVE  (\A b \in DOMAIN batches : \A j \in DOMAIN batches[b].rows :
                        Surpasses(rows[i], batches[b].rows[j]))'
        BY <3>1, <3>2, <3>5 DEF Finished, Surpasses, IsLatest
      <3> QED BY <3>3, <3>4, <3>5 DEF Finished
    <2> QED BY <1>3, <2>1 DEF MadeInv, Ordered
  <1>4. CASE GoesOn /\ rows' = rows
    <2>1. Ordered(rows) /\ \A i \in DOMAIN rows : Taken(rows[i]) /\ Finished(rows[i])
      BY <1>4 DEF MadeInv, GoesOn
    <2> QED BY <1>2, <1>3, <1>4, <2>1
  <1>5. CASE DecideRow /\ rows' = Append(rows, row)
    <2>1. Working /\ GoesOn /\ HasRow /\ at = "decide"
      BY <1>5 DEF DecideRow, GoesOn, Working, HasRow
    <2>2. row \in Row
      BY <2>1 DEF TablesType
    <2>3. Ordered(rows) /\ \A i \in DOMAIN rows : Taken(rows[i]) /\ Finished(rows[i])
      BY <2>1 DEF MadeInv
    <2>4. /\ Taken(row) /\ Finished(row)
          /\ \A i \in DOMAIN rows : rows[i].key[2] <= row.key[2] /\ rows[i].key # row.key
      BY <2>1 DEF MakingInv
    <2> DEFINE n == Len(rows)
    <2>5. Extends(rows', rows, row, Row)
      BY <1>2, <1>5, <2>2, AppendExtends
    <2>6. /\ n \in Nat /\ DOMAIN rows = 1 .. n /\ DOMAIN rows' = 1 .. (n + 1)
          /\ rows'[n + 1] = row
          /\ \A i \in 1 .. n : rows'[i] = rows[i]
      BY <1>2, <2>5, LenProperties DEF Extends
    <2> HIDE DEF n
    <2>7. ASSUME NEW i \in DOMAIN rows' PROVE rows'[i] \in Row /\ Taken(rows'[i]) /\ Finished(rows'[i])
      <3>1. CASE i = n + 1
        BY <3>1, <2>2, <2>4, <2>6
      <3>2. CASE i # n + 1
        <4>1. i \in DOMAIN rows /\ rows'[i] = rows[i]
          BY <3>2, <2>6
        <4> QED BY <4>1, <1>2, <2>3
      <3> QED BY <3>1, <3>2
    <2>8. ASSUME NEW i \in DOMAIN rows', NEW j \in DOMAIN rows', i < j
          PROVE  rows'[i].key[2] <= rows'[j].key[2] /\ rows'[i].key # rows'[j].key
      <3>1. i \in DOMAIN rows /\ rows'[i] = rows[i]
        BY <2>6, <2>8
      <3>2. CASE j = n + 1
        BY <3>1, <3>2, <2>4, <2>6
      <3>3. CASE j # n + 1
        <4>1. j \in DOMAIN rows /\ rows'[j] = rows[j]
          BY <3>3, <2>6
        <4> QED BY <3>1, <4>1, <2>3, <2>8 DEF Ordered
      <3> QED BY <3>2, <3>3
    <2>9. Ordered(rows')
      BY <2>8 DEF Ordered
    <2> QED BY <1>3, <2>1, <2>7, <2>9
  <1>6. \/ LoadWatches \/ (DecideRow /\ rows' = Append(rows, row))
        \/ (GoesOn /\ rows' = rows)
    <2>1. CASE UNCHANGED generator
      BY <2>1 DEF generator, GoesOn, Working
    <2>2. CASE Done
      BY <2>2 DEF Done, Working
    <2>3. CASE BeginRow
      BY <2>3 DEF BeginRow, GoesOn, Working
    <2>4. CASE LoadValue("rating", "review") \/ LoadValue("review", "revisions") \/ LoadRevisions
      BY <2>4 DEF LoadValue, LoadRevisions, GoesOn, Working
    <2>5. CASE DecideRow
      BY <2>5 DEF DecideRow, GoesOn, Working
    <2> QED BY <2>1, <2>2, <2>3, <2>4, <2>5, GeneratorSteps
  <1> QED BY <1>1, <1>4, <1>5, <1>6

(* The row in the making. *)
LEMMA MakingStep ==
  ASSUME TypeOK, TypeOK', TablesType, TablesType', CurrentInv, RowsInv, LoadedInv, MadeInv, MakingInv,
         [Next]_vars
  PROVE  MakingInv'
  <1> SUFFICES ASSUME HasRow' PROVE MakingInv'
    BY DEF MakingInv
  <1>0. Working'
    BY DEF HasRow, Working
  <1>1. /\ DOMAIN batches' = DOMAIN batches
        /\ \A b \in DOMAIN batches : batches'[b].rows = batches[b].rows
    BY <1>0, NotStoring
  <1>2. ASSUME NEW r, r = row', Taken(r)', Read(r)', OnlyLatest(r)', rows' = rows,
               \A i \in DOMAIN rows : rows[i].key[2] <= r.key[2] /\ rows[i].key # r.key,
               at' # "decide" => IsLatest(watched, r.key)',
               at' = "decide" =>
                   /\ Revised(r)'
                   /\ IsLatest(watched, r.key)' =>
                        \A b \in DOMAIN batches : \A i \in DOMAIN batches[b].rows :
                            Surpasses(r, batches[b].rows[i])
        PROVE  MakingInv'
    <2>1. Taken(row)' /\ Read(row)' /\ OnlyLatest(row)'
      BY <1>2 DEF Taken, Placed, Read, OnlyLatest, IsLatest
    <2>2. \A i \in DOMAIN rows' : rows'[i].key[2] <= row'.key[2] /\ rows'[i].key # row'.key
      BY <1>2
    <2>3. at' # "decide" => IsLatest(watched, row.key)'
      BY <1>2 DEF IsLatest
    <2>4. ASSUME at' = "decide" PROVE Finished(row)'
      <3>1. Revised(row)'
        BY <1>2, <2>4 DEF Revised
      <3>2. ASSUME IsLatest(watched, row.key)', NEW b \in DOMAIN batches', NEW i \in DOMAIN batches'[b].rows
            PROVE  Surpasses(row, batches[b].rows[i])'
        <4>1. IsLatest(watched, r.key)'
          BY <1>2, <3>2 DEF IsLatest
        <4>2. b \in DOMAIN batches /\ i \in DOMAIN batches[b].rows /\ batches'[b].rows = batches[b].rows
          BY <1>1, <3>2
        <4>3. Surpasses(r, batches[b].rows[i])
          BY <1>2, <2>4, <4>1, <4>2
        <4> QED BY <1>2, <4>2, <4>3 DEF Surpasses
      <3> QED BY <2>1, <3>1, <3>2 DEF Finished
    <2> QED BY <2>1, <2>2, <2>3, <2>4 DEF MakingInv
  <1>3. \A i \in DOMAIN rows : rows[i] \in Row
    <2>1. rows \in Seq(Row)
      BY DEF TablesType
    <2> QED BY <2>1
  <1>4. CASE UNCHANGED generator
    <2>1. PICK r : r = row
      OBVIOUS
    <2>2. HasRow /\ GoesOn /\ row' = row /\ rows' = rows /\ at' = at
      BY <1>4 DEF HasRow, GoesOn, Working, generator
    <2>3. r \in Row
      BY <2>1, <2>2 DEF TablesType
    <2>4. /\ Taken(r) /\ Read(r) /\ OnlyLatest(r)
          /\ \A i \in DOMAIN rows : rows[i].key[2] <= r.key[2] /\ rows[i].key # r.key
          /\ at # "decide" => IsLatest(watched, r.key)
          /\ at = "decide" => Finished(r)
      BY <2>1, <2>2 DEF MakingInv
    <2>5. Taken(r)' /\ Read(r)' /\ OnlyLatest(r)'
      BY <2>2, <2>3, <2>4, GeneratorKept, RowKept
    <2>6. at' # "decide" => IsLatest(watched, r.key)'
      BY <2>2, <2>4 DEF GoesOn, IsLatest, KeysOf
    <2>7. ASSUME at' = "decide"
          PROVE  /\ Revised(r)'
                 /\ IsLatest(watched, r.key)' =>
                        \A b \in DOMAIN batches : \A i \in DOMAIN batches[b].rows :
                            Surpasses(r, batches[b].rows[i])
      <3>1. Finished(r)
        BY <2>2, <2>4, <2>7
      <3>2. Revised(r)'
        BY <2>3, <3>1, RowKept DEF Finished
      <3>3. IsLatest(watched, r.key)' => IsLatest(watched, r.key)
        BY <2>2 DEF GoesOn, IsLatest, KeysOf
      <3> QED BY <3>1, <3>2, <3>3 DEF Finished
    <2> QED BY <1>2, <2>1, <2>2, <2>4, <2>5, <2>6, <2>7
  <1>5. CASE BeginRow
    <2>1. PICK key \in todo : /\ NextKey(key)
                              /\ todo' = todo \ {key}
                              /\ row' = NewRow(watched, key)
                              /\ at' = IF IsLatest(watched, key) THEN "rating" ELSE "decide"
      BY <1>5 DEF BeginRow
    <2>2. /\ UNCHANGED <<tables, location, watched, rows>> /\ Working /\ location \in Zones
          /\ key \in Keys /\ key \in KeysOf(watched)
      <3>1. UNCHANGED <<tables, location, watched, rows>> /\ Working
        BY <1>5 DEF BeginRow, Working
      <3> QED BY <2>1, <3>1 DEF TypeOK, TablesType, LoadedInv
    <2>3. PICK r : r = row'
      OBVIOUS
    <2>4. /\ r \in Row /\ r.key = key /\ r.events = EventsOn(watched, key)
          /\ r.values = Nothing /\ r.revision = Unrevised /\ r.seen = Unrevised
      BY <2>1, <2>2, <2>3, NewRowFacts
    <2>5. Placed(r, location)
      <3>1. \A e \in Events : watched[e] # NoWatch =>
               watch[e] # NoWatch /\ watched[e] = <<watch[e][1], location[watch[e][2]]>>
        BY <2>2 DEF LoadedInv
      <3>2. r.events # {} /\ key # NoWatch
        BY <2>2, <2>4 DEF KeysOf, EventsOn
      <3>3. \A e \in r.events : e \in Events /\ watched[e] = key
        BY <2>4 DEF EventsOn
      <3> QED BY <2>4, <3>1, <3>2, <3>3 DEF Placed
    <2>6. Taken(r)'
      <3>1. Placed(r, location)'
        BY <2>2, <2>5 DEF Placed, tables
      <3>2. r.key \in (KeysOf(watched) \ todo)'
        BY <2>1, <2>2, <2>4 DEF KeysOf
      <3>3. \A other \in todo' : r.key[2] <= other[2]
        BY <2>1, <2>4 DEF NextKey
      <3> QED BY <3>1, <3>2, <3>3 DEF Taken
    <2>7. \A m \in Movies, k \in Kinds : changes[m][k] \in Nat
      BY DEF TypeOK
    <2>8. key[1] \in Movies /\ key[2] \in Nat
      BY <2>2, KeyIsPair
    <2>9. Read(r)'
      <3>1. ASSUME NEW k \in Kinds
            PROVE  /\ r.seen[k] <= changes[r.key[1]][k]
                   /\ r.seen[k] = changes[r.key[1]][k] => r.values[k] = current[r.key[1]][k]
        <4>1. r.seen[k] = 0 /\ r.values[k] = NoValue
          BY <2>4 DEF Unrevised, Nothing
        <4>2. changes[key[1]][k] \in Nat /\ (changes[key[1]][k] = 0 => current[key[1]][k] = NoValue)
          BY <2>7, <2>8 DEF CurrentInv
        <4> QED BY <4>1, <4>2, <2>4
      <3> QED BY <2>2, <3>1 DEF Read, tables
    <2>10. OnlyLatest(r)'
      BY <2>4 DEF OnlyLatest
    <2>11. \A i \in DOMAIN rows : rows[i].key[2] <= r.key[2] /\ rows[i].key # r.key
      BY <2>1, <2>2, <2>4 DEF MadeInv, Taken
    <2>12. IsLatest(watched, r.key)' <=> IsLatest(watched, key)
      BY <2>2, <2>4 DEF IsLatest, KeysOf
    <2>13. Revised(r)'
      <3>1. ASSUME NEW k \in Kinds PROVE r.seen[k] <= r.revision[k] /\ r.revision[k] <= changes[r.key[1]][k]
        <4>1. r.seen[k] = 0 /\ r.revision[k] = 0
          BY <2>4 DEF Unrevised
        <4> QED BY <4>1, <2>4, <2>7, <2>8
      <3> QED BY <2>2, <3>1 DEF Revised, tables
    <2>14. rows' = rows
      BY <2>2
    <2>15. at' = "decide" <=> ~IsLatest(watched, r.key)'
      BY <2>1, <2>12
    <2> QED BY <1>2, <2>3, <2>6, <2>9, <2>10, <2>11, <2>13, <2>14, <2>15
  <1>6. ASSUME NEW k \in Kinds, NEW next \in {"review", "revisions"}, k \in {"rating", "review"},
               LoadValue(k, next)
        PROVE  MakingInv'
    <2>1. /\ at = k /\ at' = next /\ UNCHANGED <<tables, location, todo, watched, rows>>
          /\ HasRow /\ GoesOn /\ rows' = rows
      BY <1>6 DEF LoadValue, HasRow, Working, GoesOn
    <2>2. row \in Row
      BY <2>1 DEF TablesType
    <2>3. /\ Taken(row) /\ Read(row)
          /\ \A i \in DOMAIN rows : rows[i].key[2] <= row.key[2] /\ rows[i].key # row.key
          /\ IsLatest(watched, row.key)
      BY <1>6, <2>1 DEF MakingInv
    <2>4. PICK r : r = row'
      OBVIOUS
    <2>5. /\ r \in Row /\ r.key = row.key /\ r.events = row.events
          /\ r.values[k] = current[row.key[1]][k] /\ r.seen[k] = changes[row.key[1]][k]
          /\ \A j \in Kinds : j # k => r.values[j] = row.values[j] /\ r.seen[j] = row.seen[j]
      BY <1>6, <2>2, <2>4, LoadFacts
    <2>6. Taken(r)'
      BY <2>1, <2>3, <2>5 DEF Taken, Placed, KeysOf, tables
    <2>7. Read(r)'
      <3>1. ASSUME NEW j \in Kinds
            PROVE  /\ r.seen[j] <= changes[r.key[1]][j]
                   /\ r.seen[j] = changes[r.key[1]][j] => r.values[j] = current[r.key[1]][j]
        <4>1. CASE j = k
          <5>1. changes[row.key[1]][k] \in Nat
            BY <2>2, RowFacts DEF TypeOK
          <5> QED BY <4>1, <5>1, <2>5
        <4>2. CASE j # k
          BY <4>2, <2>3, <2>5 DEF Read
        <4> QED BY <4>1, <4>2
      <3> QED BY <2>1, <3>1 DEF Read, tables
    <2>8. IsLatest(watched, r.key)'
      BY <2>1, <2>3, <2>5 DEF IsLatest, KeysOf
    <2>9. OnlyLatest(r)'
      BY <2>8 DEF OnlyLatest
    <2>10. at' # "decide"
      BY <2>1
    <2> QED BY <1>2, <2>1, <2>3, <2>4, <2>5, <2>6, <2>7, <2>8, <2>9, <2>10
  <1>7. CASE LoadRevisions
    <2>1. /\ at = "revisions" /\ at' = "decide" /\ UNCHANGED <<tables, location, todo, watched, rows>>
          /\ HasRow /\ GoesOn /\ rows' = rows
      BY <1>7 DEF LoadRevisions, HasRow, Working, GoesOn
    <2>2. row \in Row
      BY <2>1 DEF TablesType
    <2>3. /\ Taken(row) /\ Read(row)
          /\ \A i \in DOMAIN rows : rows[i].key[2] <= row.key[2] /\ rows[i].key # row.key
          /\ IsLatest(watched, row.key)
      BY <2>1 DEF MakingInv
    <2>4. PICK r : r = row'
      OBVIOUS
    <2>5. /\ r \in Row /\ r.key = row.key /\ r.events = row.events
          /\ r.values = row.values /\ r.seen = row.seen /\ r.revision = changes[row.key[1]]
      BY <1>7, <2>2, <2>4, RevisionFacts
    <2>6. Taken(r)'
      BY <2>1, <2>3, <2>5 DEF Taken, Placed, KeysOf, tables
    <2>7. Read(r)'
      BY <2>1, <2>3, <2>5 DEF Read, tables
    <2>8. IsLatest(watched, r.key)'
      BY <2>1, <2>3, <2>5 DEF IsLatest, KeysOf
    <2>9. OnlyLatest(r)'
      BY <2>8 DEF OnlyLatest
    <2>10. \A k \in Kinds : changes[r.key[1]][k] \in Nat
      BY <2>5, RowFacts DEF TypeOK
    <2>11. Revised(r)'
      <3>1. ASSUME NEW k \in Kinds PROVE r.seen[k] <= r.revision[k] /\ r.revision[k] <= changes[r.key[1]][k]
        <4>1. r.seen[k] <= changes[r.key[1]][k]
          BY <2>3, <2>5 DEF Read
        <4> QED BY <4>1, <2>5, <2>10
      <3> QED BY <2>1, <3>1 DEF Revised, tables
    <2>12. ASSUME NEW b \in DOMAIN batches, NEW i \in DOMAIN batches[b].rows
           PROVE  Surpasses(r, batches[b].rows[i])
      <3>1. Revised(batches[b].rows[i])
        BY <2>12 DEF RowsInv
      <3> QED BY <3>1, <2>5 DEF Revised, Surpasses
    <2> QED BY <1>2, <2>1, <2>3, <2>4, <2>5, <2>6, <2>7, <2>9, <2>8, <2>11, <2>12
  <1>8. CASE Done \/ LoadWatches \/ DecideRow
    BY <1>8 DEF Done, LoadWatches, DecideRow, HasRow
  <1>9. "rating" \in Kinds /\ "review" \in Kinds
    BY DEF Kinds
  <1>10. CASE LoadValue("rating", "review") \/ LoadValue("review", "revisions")
    BY <1>6, <1>9, <1>10
  <1> QED BY <1>4, <1>5, <1>7, <1>8, <1>10, GeneratorSteps

-----------------------------------------------------------------------------
LEMMA InvInit == Init => IInv
  <1> SUFFICES ASSUME Init PROVE IInv
    OBVIOUS
  <1>1. /\ watch = [e \in Events |-> NoWatch] /\ current = [m \in Movies |-> Nothing]
        /\ batches = <<>> /\ confirmations = 0 /\ at = "idle" /\ rows = <<>>
    BY DEF Init
  <1>2. DOMAIN batches = {}
    BY <1>1
  <1>3. TypeOK /\ TablesType
    BY TypeInit
  <1>4. WatchInv
    <2>1. {e \in Events : watch[e] # NoWatch} = {}
      BY <1>1
    <2> QED BY <2>1, FS_EmptySet DEF WatchInv
  <1>5. CurrentInv
    BY <1>1 DEF CurrentInv, Nothing
  <1>6. CountInv
    <2>1. {b \in DOMAIN batches : Confirmed(b)} = {}
      BY <1>2
    <2> QED BY <2>1, <1>1, FS_EmptySet DEF CountInv
  <1>7. RowsInv /\ TornInv /\ OvertakenInv /\ RevisionInv /\ ConfirmedInv /\ DiaryInv
    BY <1>2 DEF RowsInv, TornInv, OvertakenInv, RevisionInv, ConfirmedInv, DiaryInv
  <1>8. LoadedInv /\ MadeInv /\ MakingInv /\ IdleInv
    BY <1>1 DEF LoadedInv, MadeInv, MakingInv, IdleInv, Working, HasRow
  <1>9. OneDayCarriesTheRating /\ FilesHoldTheBatch
    BY <1>2 DEF OneDayCarriesTheRating, FilesHoldTheBatch
  <1> QED BY <1>3, <1>4, <1>5, <1>6, <1>7, <1>8, <1>9 DEF IInv

LEMMA InvStep == IInv /\ [Next]_vars => IInv'
  <1> SUFFICES ASSUME IInv, [Next]_vars PROVE IInv'
    OBVIOUS
  <1>1. /\ TypeOK /\ TablesType /\ WatchInv /\ CurrentInv
        /\ RowsInv /\ TornInv /\ OvertakenInv /\ RevisionInv
        /\ ConfirmedInv /\ CountInv /\ DiaryInv
        /\ LoadedInv /\ MadeInv /\ MakingInv /\ IdleInv
        /\ OneDayCarriesTheRating /\ FilesHoldTheBatch
    BY DEF IInv
  <1>2. TypeOK' /\ TablesType'
    BY <1>1, TypeStep
  <1>3. WatchInv' /\ CurrentInv'
    BY <1>1, WatchStep, CurrentStep
  <1>4. RowsInv' /\ TornInv'
    BY <1>1, RowsStep, TornStep
  <1>5. OvertakenInv' /\ RevisionInv'
    BY <1>1, <1>2, OvertakenStep, RevisionStep
  <1>6. ConfirmedInv' /\ CountInv' /\ DiaryInv'
    BY <1>1, ConfirmedStep, CountStep, DiaryStep
  <1>7. LoadedInv' /\ MadeInv' /\ IdleInv'
    BY <1>1, LoadedStep, MadeStep, IdleStep
  <1>8. MakingInv'
    BY <1>1, <1>2, MakingStep
  <1>9. OneDayCarriesTheRating' /\ FilesHoldTheBatch'
    BY <1>1, OneDayStep, FilesStep
  <1> QED BY <1>2, <1>3, <1>4, <1>5, <1>6, <1>7, <1>8, <1>9 DEF IInv

LEMMA Invariant == Spec => []IInv
  BY InvInit, InvStep, PTL DEF Spec

(* Every table and variable of the export holds what its type allows, and no *)
(* batch is stored without a row: service.go's Generate, Confirm and the     *)
(* tables of migration letterboxd.                                          *)
THEOREM ExportTypes == Spec => []TypeOK
  <1>1. IInv => TypeOK
    BY DEF IInv
  <1> QED BY <1>1, Invariant, PTL

(* However many batches are generated, with watches, edits and confirmations *)
(* between any two statements of Generate, no batch attaches the rating and  *)
(* the review of a movie to two of its days.                                *)
THEOREM RatingOnOneDay == Spec => []OneDayCarriesTheRating
  <1>1. IInv => OneDayCarriesTheRating
    BY DEF IInv
  <1> QED BY <1>1, Invariant, PTL

(* chunkCSV: the files of a batch of any length, for any limit, are its rows *)
(* in their order, none of them lost or repeated, and each file holds a row  *)
(* and stays below the limit.                                               *)
THEOREM FilesAreTheBatch == Spec => []FilesHoldTheBatch
  <1>1. IInv => FilesHoldTheBatch
    BY DEF IInv
  <1> QED BY <1>1, Invariant, PTL

-----------------------------------------------------------------------------
(* The latest day of a movie, its last row, and the batch that shows a day. *)
LEMMA TodayFacts ==
  ASSUME TypeOK
  PROVE  /\ zone \in Zones
         /\ KeysOf(Today) \subseteq Keys
         /\ \A key \in KeysOf(Today) : \E e \in Events :
                e \in EventsOn(Today, key) /\ watch[e] # NoWatch /\ key = <<watch[e][1], zone[watch[e][2]]>>
  <1>1. zone \in Zones
    BY DEF TypeOK
  <1>2. KeysOf(Today) \subseteq Keys
    BY <1>1, KeyFacts DEF Today
  <1>3. ASSUME NEW key \in KeysOf(Today)
        PROVE  \E e \in Events :
                  e \in EventsOn(Today, key) /\ watch[e] # NoWatch /\ key = <<watch[e][1], zone[watch[e][2]]>>
    <2>1. PICK e \in Events : Today[e] = key /\ key # NoWatch
      BY DEF KeysOf
    <2>2. watch[e] # NoWatch /\ key = <<watch[e][1], zone[watch[e][2]]>>
      BY <2>1 DEF Today, WatchedIn
    <2> QED BY <2>1, <2>2 DEF EventsOn
  <1> QED BY <1>1, <1>2, <1>3

LEMMA LatestKeyExists ==
  ASSUME TypeOK, WatchInv, NEW m \in Movies, KeysNow(m) # {}
  PROVE  \E key \in KeysNow(m) : IsLatest(Today, key)
  <1> DEFINE W == {e \in Events : watch[e] # NoWatch}
             T == {Today[e] : e \in W}
             K == KeysNow(m)
             g == [key \in K |-> key[2]]
             D == {g[key] : key \in K}
  <1>1. IsFiniteSet(T)
    <2>1. IsFiniteSet(W)
      BY DEF WatchInv
    <2> HIDE DEF W
    <2> QED BY <2>1, FiniteImage
  <1>2. K \subseteq T /\ K \subseteq Keys
    BY TodayFacts DEF KeysNow, KeysOf, Today, WatchedIn
  <1>3. IsFiniteSet(K)
    <2> HIDE DEF T, K
    <2> QED BY <1>1, <1>2, FS_Subset
  <1>4. K # {}
    OBVIOUS
  <1> HIDE DEF K
  <1>5. IsFiniteSet(D)
    <2> HIDE DEF g
    <2> QED BY <1>3, FiniteImage
  <1>6. D # {} /\ D \subseteq Int
    <2>1. \A key \in K : g[key] \in Int
      BY <1>2, KeyIsPair
    <2> QED BY <1>4, <2>1
  <1>7. PICK d \in D : \A x \in D : x <= d
    <2> HIDE DEF D
    <2> QED BY <1>5, <1>6, GreatestExists
  <1>8. PICK key \in K : d = g[key]
    BY <1>7
  <1>9. ASSUME NEW other \in KeysOf(Today), other[1] = key[1] PROVE other[2] <= key[2]
    <2>1. other \in K
      BY <1>8, <1>9 DEF K, KeysNow
    <2> QED BY <2>1, <1>7, <1>8
  <1> QED BY <1>8, <1>9 DEF IsLatest, K

(* Of some confirmed batches, one was confirmed last. *)
LEMMA LastConfirmed ==
  ASSUME TablesType, NEW B, B \subseteq DOMAIN batches, B # {}
  PROVE  \E b \in B : \A c \in B : batches[c].confirmed <= batches[b].confirmed
  <1> DEFINE g == [b \in B |-> batches[b].confirmed]
             D == {g[b] : b \in B}
  <1>1. IsFiniteSet(B)
    BY BatchFacts, FS_Subset
  <1>2. IsFiniteSet(D)
    <2> HIDE DEF g
    <2> QED BY <1>1, FiniteImage
  <1>3. D # {} /\ D \subseteq Int
    <2>1. \A b \in B : g[b] \in Int
      BY BatchFacts
    <2> QED BY <2>1
  <1>4. PICK d \in D : \A x \in D : x <= d
    <2> HIDE DEF D
    <2> QED BY <1>2, <1>3, GreatestExists
  <1>5. PICK b \in B : d = g[b]
    BY <1>4
  <1>6. \A c \in B : batches[c].confirmed <= batches[b].confirmed
    BY <1>4, <1>5
  <1> QED BY <1>6

IsLastRow(b, i, m) ==
    /\ b \in ConfirmedWith(m) /\ i \in RowsOf(m, b)
    /\ \A c \in ConfirmedWith(m) : batches[c].confirmed <= batches[b].confirmed
    /\ \A j \in RowsOf(m, b) : j <= i
    /\ LastRow(m) = batches[b].rows[i]

LEMMA LastRowExists ==
  ASSUME TablesType, NEW m \in Movies, ConfirmedWith(m) # {}
  PROVE  \E b \in DOMAIN batches : \E i \in DOMAIN batches[b].rows : IsLastRow(b, i, m)
  <1> DEFINE C == ConfirmedWith(m)
             b == CHOOSE x \in C : \A y \in C : batches[y].confirmed <= batches[x].confirmed
             R == RowsOf(m, b)
  <1>1. C \subseteq DOMAIN batches /\ C # {}
    BY DEF ConfirmedWith
  <1>2. b \in C /\ \A y \in C : batches[y].confirmed <= batches[b].confirmed
    <2> HIDE DEF C
    <2> QED BY <1>1, LastConfirmed
  <1>3. LastRow(m) = batches[b].rows[Max(R)]
    BY DEF LastRow
  <1> HIDE DEF b
  <1>4. b \in DOMAIN batches /\ R # {} /\ R \subseteq DOMAIN batches[b].rows
    BY <1>2 DEF ConfirmedWith, RowsOf
  <1>5. DOMAIN batches[b].rows = 1 .. Len(batches[b].rows) /\ Len(batches[b].rows) \in Nat
    BY <1>4, BatchFacts
  <1>6. IsFiniteSet(R) /\ R \subseteq Int
    <2> DEFINE n == Len(batches[b].rows)
    <2>1. n \in Int /\ R \subseteq 1 .. n
      BY <1>4, <1>5
    <2> HIDE DEF n, R
    <2>2. IsFiniteSet(1 .. n)
      BY <2>1, FS_Interval
    <2>3. IsFiniteSet(R)
      BY <2>1, <2>2, FS_Subset
    <2>4. R \subseteq Int
      BY <2>1
    <2> QED BY <2>3, <2>4
  <1>7. Max(R) \in R /\ \A j \in R : j <= Max(R)
    <2> HIDE DEF R
    <2> QED BY <1>4, <1>6, MaxIsGreatest
  <1>8. IsLastRow(b, Max(R), m)
    BY <1>2, <1>3, <1>7 DEF IsLastRow
  <1> QED BY <1>4, <1>7, <1>8

LEMMA ShownBatch ==
  ASSUME TablesType, NEW key, \E b \in DOMAIN batches : ShowsKey(b, key)
  PROVE  \E b \in DOMAIN batches : LastToShow(b, key)
  <1> DEFINE B == {b \in DOMAIN batches : ShowsKey(b, key)}
  <1>1. B # {} /\ B \subseteq DOMAIN batches
    OBVIOUS
  <1>2. PICK b \in B : \A c \in B : batches[c].confirmed <= batches[b].confirmed
    <2> HIDE DEF B
    <2> QED BY <1>1, LastConfirmed
  <1>3. LastToShow(b, key)
    BY <1>2 DEF LastToShow
  <1> QED BY <1>2, <1>3

-----------------------------------------------------------------------------
(* A movie's last export. *)
RowOf(b, i, m) ==
    /\ b \in DOMAIN batches /\ i \in DOMAIN batches[b].rows
    /\ batches[b].rows[i].key[1] = m

(* A row of a movie that is not torn shows what is current, if it carries    *)
(* all revisions or there are none.                                         *)
LEMMA UpToDateRow ==
  ASSUME IInv, NEW m \in Movies \ torn, NEW b, NEW i, RowOf(b, i, m),
         NEW r, r = batches[b].rows[i],
         \A k \in Kinds : changes[m][k] = 0 \/ changes[m][k] <= r.revision[k]
  PROVE  r.values = current[m]
  <1>1. /\ b \in DOMAIN batches /\ i \in DOMAIN batches[b].rows /\ r.key[1] = m /\ r \in Row
    BY BatchFacts DEF RowOf, IInv
  <1>2. Read(r) /\ Revised(r)
    BY <1>1 DEF IInv, RowsInv
  <1>3. \A k \in Kinds : r.revision[k] <= r.seen[k]
    BY <1>1 DEF IInv, TornInv
  <1>4. r.values \in [Kinds -> Value] /\ current[m] \in [Kinds -> Value]
    BY <1>1, RowFacts DEF IInv, TypeOK
  <1>5. ASSUME NEW k \in Kinds PROVE r.values[k] = current[m][k]
    <2>1. /\ r.seen[k] \in Nat /\ r.revision[k] \in Nat /\ changes[m][k] \in Nat
      BY <1>1, RowFacts DEF IInv, TypeOK
    <2>2. r.seen[k] <= changes[m][k] /\ (r.seen[k] = changes[m][k] => r.values[k] = current[m][k])
      BY <1>1, <1>2 DEF Read
    <2>3. r.seen[k] = changes[m][k]
      BY <2>1, <2>2, <1>3
    <2> QED BY <2>2, <2>3
  <1> QED BY <1>4, <1>5

(* Nothing of a movie is pending: each of its watches was confirmed, and     *)
(* every revision, if there is any, is in the row confirmed last.           *)
LEMMA NotPending ==
  ASSUME IInv, NEW m \in Movies, NothingPendingOf(m), NEW key \in KeysNow(m), IsLatest(Today, key)
  PROVE  /\ \E b, i : /\ RowOf(b, i, m) /\ b \in ConfirmedWith(m)
                      /\ batches[b].zone = zone => batches[b].rows[i].key = key
         /\ \A k \in Kinds : changes[m][k] = 0 \/ changes[m][k] <= LastRow(m).revision[k]
  <1> DEFINE r == RowNow(key)
  <1>1. key \in KeysOf(Today) /\ key[1] = m /\ key \in Keys
    BY TodayFacts DEF KeysNow, IInv
  <1>2. r.key = key /\ r.events = EventsOn(Today, key) /\ r.revision = changes[m]
    BY <1>1 DEF RowNow, NewRow
  <1>3. ~IsPending(r)
    BY DEF NothingPendingOf
  <1> HIDE DEF r
  <1>4. PICK e \in Events : /\ e \in EventsOn(Today, key) /\ watch[e] # NoWatch
                            /\ key = <<watch[e][1], zone[watch[e][2]]>>
    BY <1>1, TodayFacts DEF IInv
  <1>5. ~Unconfirmed(e)
    BY <1>2, <1>3, <1>4 DEF IsPending
  <1>6. PICK b \in DOMAIN batches : Confirmed(b) /\ \E i \in DOMAIN batches[b].rows : e \in batches[b].rows[i].events
    BY <1>5 DEF Unconfirmed
  <1>7. PICK i \in DOMAIN batches[b].rows : e \in batches[b].rows[i].events
    BY <1>6
  <1>8. batches[b].rows[i].key = <<watch[e][1], batches[b].zone[watch[e][2]]>>
    BY <1>6, <1>7 DEF IInv, RowsInv, Placed
  <1>9. RowOf(b, i, m) /\ b \in ConfirmedWith(m)
    <2>1. batches[b].rows[i].key[1] = m
      BY <1>1, <1>4, <1>8
    <2> QED BY <2>1, <1>6, <1>7 DEF RowOf, ConfirmedWith, RowsOf
  <1>10. batches[b].zone = zone => batches[b].rows[i].key = key
    BY <1>4, <1>8
  <1>11. ASSUME NEW k \in Kinds PROVE changes[m][k] = 0 \/ changes[m][k] <= LastRow(m).revision[k]
    <2>1. ~MetadataPending(r)
      BY <1>3 DEF IsPending
    <2>2. CASE \A j \in Kinds : ~(r.revision[j] > 0)
      <3>1. changes[m][k] \in Nat /\ ~(changes[m][k] > 0)
        BY <2>2, <1>2 DEF IInv, TypeOK
      <3> QED BY <3>1
    <2>3. CASE \E j \in Kinds : r.revision[j] > 0
      <3>1. ~(r.revision[k] > LastRow(m).revision[k])
        BY <2>1, <2>3, <1>1, <1>2, <1>9 DEF MetadataPending
      <3>2. LastRow(m).revision[k] \in Nat /\ changes[m][k] \in Nat
        <4>1. PICK c \in DOMAIN batches : \E j \in DOMAIN batches[c].rows : IsLastRow(c, j, m)
          BY <1>9, LastRowExists DEF IInv
        <4>2. LastRow(m) \in Row
          BY <4>1, BatchFacts DEF IsLastRow, IInv
        <4> QED BY <4>2, RowFacts DEF IInv, TypeOK
      <3> QED BY <3>1, <3>2, <1>2
    <2> QED BY <2>2, <2>3
  <1> QED BY <1>9, <1>10, <1>11

(* Of a movie of which nothing is pending, and that was not torn, the diary  *)
(* has an entry that shows what is current.                                 *)
LEMMA DiaryShowsIt == IInv => CurrentIsInTheDiary
  <1> SUFFICES ASSUME IInv, NEW m \in Movies, NothingPendingOf(m), KeysNow(m) # {}, m \notin torn
               PROVE  \E key \in Keys : key[1] = m /\ diary[key] = current[m]
    BY DEF CurrentIsInTheDiary
  <1>1. PICK key \in KeysNow(m) : IsLatest(Today, key)
    BY LatestKeyExists DEF IInv
  <1>2. /\ \A k \in Kinds : changes[m][k] = 0 \/ changes[m][k] <= LastRow(m).revision[k]
        /\ ConfirmedWith(m) # {}
    BY <1>1, NotPending
  <1>3. PICK b \in DOMAIN batches : \E i \in DOMAIN batches[b].rows : IsLastRow(b, i, m)
    BY <1>2, LastRowExists DEF IInv
  <1>4. PICK i \in DOMAIN batches[b].rows : IsLastRow(b, i, m)
    BY <1>3
  <1>5. PICK r : r = batches[b].rows[i]
    OBVIOUS
  <1>6. RowOf(b, i, m) /\ LastRow(m) = r /\ Confirmed(b) /\ r \in Row
    BY <1>4, <1>5, BatchFacts DEF IsLastRow, RowOf, RowsOf, ConfirmedWith, IInv
  <1>7. r.values = current[m]
    BY <1>2, <1>5, <1>6, UpToDateRow
  <1>8. LastToShow(b, r.key)
    <2>1. ShowsKey(b, r.key)
      BY <1>5, <1>6 DEF ShowsKey, RowOf
    <2>2. ASSUME NEW c \in DOMAIN batches, ShowsKey(c, r.key)
          PROVE  batches[c].confirmed <= batches[b].confirmed
      <3>1. PICK j \in DOMAIN batches[c].rows : batches[c].rows[j].key = r.key
        BY <2>2 DEF ShowsKey
      <3>2. c \in ConfirmedWith(m)
        BY <2>2, <3>1, <1>5, <1>6 DEF ShowsKey, ConfirmedWith, RowsOf, RowOf
      <3> QED BY <3>2, <1>4 DEF IsLastRow
    <2> QED BY <2>1, <2>2 DEF LastToShow
  <1>9. diary[r.key] = r.values
    BY <1>3, <1>4, <1>5, <1>8 DEF IInv, DiaryInv
  <1>10. r.key \in Keys /\ r.key[1] = m
    BY <1>5, <1>6, RowFacts DEF RowOf
  <1> QED BY <1>7, <1>9, <1>10

(* If besides its confirmed batches are of the timezone in force, it is the  *)
(* entry of its latest day.                                                 *)
LEMMA LatestDayShowsIt == IInv => NothingPendingIsUpToDate
  <1> SUFFICES ASSUME IInv, NEW m \in Movies, m \notin torn, ~MovedOf(m), NothingPendingOf(m),
                      NEW key \in KeysNow(m), IsLatest(Today, key)
               PROVE  diary[key] = current[m]
    BY DEF NothingPendingIsUpToDate, UpToDate
  <1>1. key \in KeysOf(Today) /\ key[1] = m /\ key \in Keys /\ key[2] \in Nat
    BY TodayFacts, KeyIsPair DEF KeysNow, IInv
  <1>2. \A c \in ConfirmedWith(m) : batches[c].zone = zone
    BY DEF MovedOf
  <1>3. /\ \A k \in Kinds : changes[m][k] = 0 \/ changes[m][k] <= LastRow(m).revision[k]
        /\ \E c, i : RowOf(c, i, m) /\ c \in ConfirmedWith(m) /\ batches[c].rows[i].key = key
    BY <1>2, NotPending
  <1>4. ConfirmedWith(m) # {} /\ \E c \in DOMAIN batches : ShowsKey(c, key)
    BY <1>3 DEF RowOf, ConfirmedWith, ShowsKey
  <1>5. PICK b \in DOMAIN batches : LastToShow(b, key)
    BY <1>4, ShownBatch DEF IInv
  <1>6. PICK i \in DOMAIN batches[b].rows : batches[b].rows[i].key = key
    BY <1>5 DEF LastToShow, ShowsKey
  <1>7. PICK r : r = batches[b].rows[i]
    OBVIOUS
  <1>8. /\ RowOf(b, i, m) /\ r.key = key /\ b \in ConfirmedWith(m) /\ r \in Row /\ i \in Nat
        /\ i \in RowsOf(m, b)
    BY <1>1, <1>5, <1>6, <1>7, BatchFacts
       DEF IInv, RowOf, LastToShow, ShowsKey, ConfirmedWith, RowsOf
  <1>9. diary[key] = r.values
    BY <1>5, <1>6, <1>7 DEF IInv, DiaryInv
  <1>10. PICK c \in DOMAIN batches : \E j \in DOMAIN batches[c].rows : IsLastRow(c, j, m)
    BY <1>4, LastRowExists DEF IInv
  <1>11. PICK j \in DOMAIN batches[c].rows : IsLastRow(c, j, m)
    BY <1>10
  <1>12. PICK l : l = batches[c].rows[j]
    OBVIOUS
  <1>13. /\ LastRow(m) = l /\ l \in Row /\ l.key[1] = m /\ j \in Nat
         /\ c \in ConfirmedWith(m) /\ Confirmed(c) /\ batches[c].zone = zone
    BY <1>2, <1>10, <1>11, <1>12, BatchFacts DEF IsLastRow, RowsOf, ConfirmedWith, IInv
  <1>14. l.key[2] <= key[2] /\ l.key[2] \in Nat /\ l.key \in Keys
    <2>1. Placed(l, zone)
      BY <1>12, <1>13 DEF IInv, RowsInv
    <2>2. l.key \in KeysOf(Today)
      BY <2>1, <1>13, TodayFacts, PlacedKey DEF IInv, Today
    <2> QED BY <2>2, <1>1, <1>13, RowFacts DEF IsLatest
  <1>15. \A k \in Kinds : changes[m][k] = 0 \/ changes[m][k] <= r.revision[k]
    <2>0. b \in Nat /\ c \in Nat
      BY BatchFacts DEF IInv
    <2>1. CASE l.key = key
      <3>1. ShowsKey(c, key)
        BY <2>1, <1>12, <1>13 DEF ShowsKey
      <3>2. /\ batches[c].confirmed <= batches[b].confirmed
            /\ batches[b].confirmed <= batches[c].confirmed
        BY <3>1, <1>5, <1>8, <1>11 DEF LastToShow, IsLastRow
      <3>3. batches[c].confirmed = batches[b].confirmed
        BY <3>2, BatchFacts DEF IInv
      <3>4. b = c
        BY <3>3, <1>13 DEF IInv, ConfirmedInv
      <3>5. i = j
        <4>1. Ordered(batches[b].rows)
          BY DEF IInv, RowsInv
        <4>2. ~(i < j) /\ ~(j < i)
          BY <4>1, <3>4, <2>1, <1>6, <1>11, <1>12 DEF Ordered
        <4> QED BY <4>2, <1>8, <1>13
      <3> QED BY <3>4, <3>5, <1>3, <1>7, <1>12, <1>13
    <2>2. CASE l.key # key
      <3>1. l.key[2] < key[2]
        BY <2>2, <1>1, <1>13, <1>14, KeyIsPair
      <3>2. CASE b = c
        <4>1. i <= j
          BY <3>2, <1>8, <1>11 DEF IsLastRow
        <4>2. i < j
          BY <4>1, <3>2, <2>2, <1>7, <1>8, <1>12, <1>13
        <4>3. r.key[2] <= l.key[2]
          BY <4>2, <3>2, <1>6, <1>7, <1>11, <1>12 DEF IInv, RowsInv, Ordered
        <4> QED BY <4>3, <3>1, <1>1, <1>8, <1>14
      <3>3. CASE b < c
        <4>1. batches[b].zone = batches[c].zone
          BY <1>2, <1>8, <1>13
        <4>2. r.key[1] = l.key[1] /\ l.key[2] < r.key[2]
          BY <1>1, <1>8, <1>13, <3>1
        <4>3. l.revision = Unrevised
          BY <3>3, <4>1, <4>2, <1>6, <1>7, <1>11, <1>12 DEF IInv, OvertakenInv
        <4>4. \A k \in Kinds : l.revision[k] = 0 /\ changes[m][k] \in Nat
          BY <4>3 DEF Unrevised, IInv, TypeOK
        <4> QED BY <4>4, <1>3, <1>13
      <3>4. CASE c < b
        <4>1. IsLatest(WatchedIn(batches[b].zone), r.key)
          BY <1>2, <1>8 DEF Today
        <4>2. Surpasses(r, l)
          BY <3>4, <4>1, <1>6, <1>7, <1>11, <1>12 DEF IInv, RevisionInv
        <4>3. \A k \in Kinds : l.revision[k] <= r.revision[k]
          BY <4>2, <1>1, <1>8, <1>13 DEF Surpasses
        <4>4. \A k \in Kinds : l.revision[k] \in Nat /\ r.revision[k] \in Nat /\ changes[m][k] \in Nat
          BY <1>8, <1>13, RowFacts DEF IInv, TypeOK
        <4> QED BY <4>3, <4>4, <1>3, <1>13
      <3> QED BY <2>0, <3>2, <3>3, <3>4
    <2> QED BY <2>1, <2>2
  <1>16. r.values = current[m]
    BY <1>7, <1>8, <1>15, UpToDateRow
  <1> QED BY <1>9, <1>16

(* A movie of which nothing is pending has a diary entry with its rating and *)
(* its review, even after a change of the timezone, unless a row was torn    *)
(* by an edit between Generate's statements.                                *)
THEOREM DiaryHasCurrent == Spec => []CurrentIsInTheDiary
  BY DiaryShowsIt, Invariant, PTL

(* When nothing of a movie is pending, the diary entry of its latest day     *)
(* shows its rating and review: whichever batches were generated, dropped,   *)
(* confirmed late or out of order, unless a row was torn by an edit, or the  *)
(* movie was confirmed under the days of another timezone.                  *)
THEOREM PendingIsComplete == Spec => []NothingPendingIsUpToDate
  BY LatestDayShowsIt, Invariant, PTL
=============================================================================
