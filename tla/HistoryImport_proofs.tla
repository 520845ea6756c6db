------------------------ MODULE HistoryImport_proofs ------------------------
(***************************************************************************)
(* Proofs about HistoryImport, for any history, page size, overlap and     *)
(* number of events, removals, attempts and failures.                      *)
(***************************************************************************)
EXTENDS HistoryImport, FiniteOrders

(* An event that Trakt holds has been watched; only so many of them are      *)
(* there that they can be counted.                                          *)
EventInv ==
    /\ IsFiniteSet(present) /\ IsFiniteSet(imported)
    /\ watched \in [Events -> Nat \union {Never}]
    /\ \A e \in present \union history : watched[e] # Never

(* What the phases of the importer know of the stored state. *)
PhaseInv ==
    /\ checkpoint # Never => checkpoint \in Nat /\ checkpoint <= clock
    /\ phase = "initial" => ~initialDone /\ since = 0
    /\ phase \in {"ready", "poll", "sleep"} => initialDone
    /\ phase = "sleep" => attempt < MaxRetries
    /\ phase \in {"poll", "sleep"} /\ checkpoint # Never => since = checkpoint - Overlap

(* What the running import has to read: the initial import the history, a    *)
(* poll what Trakt held when it fetched its first page.                      *)
Asked(e) ==
    \/ phase = "initial" /\ e \in history
    \/ phase = "poll" /\ e \notin newcomers

Position(e) == Cardinality({f \in Listed(since) : Newer(f, e)})

(* It is on the page at hand, or on one that will be asked for, unless it    *)
(* was moved by a removal: an arrival can only move it to a later page.      *)
ReadInv ==
    \A e \in present :
        Asked(e) /\ watched[e] >= since /\ e \notin imported \union pageItems \union shifted
            => page < pages /\ page <= Position(e) \div PageSize

(* Before the initial import is done all that is stored is the baseline;     *)
(* once it is, all of the history is stored.                                *)
HistoryInv ==
    /\ ~initialDone => imported \subseteq baseline
    /\ initialDone => history \intersect present \subseteq imported \union shifted
    /\ phase = "poll" => history \intersect pageItems \subseteq imported \union shifted

(* Where a row of the titles comes from. *)
IsMovieRow(r, e) == subject[e].kind = "movie" /\ r = MovieRow(e)

IsShowRow(r, e) == subject[e].kind = "episode" /\ r = ShowRow(e)

IsSeasonRow(rows, r, e) ==
    /\ subject[e].kind = "episode" /\ r = SeasonRow(e, r.parent)
    /\ r.parent \in rows /\ r.parent.kind = "show"

IsEpisodeRow(rows, r, e) ==
    /\ subject[e].kind = "episode" /\ r = EpisodeRow(e, r.parent)
    /\ r.parent \in rows /\ r.parent.kind = "season" /\ AtPlaceOf(r, e)

IsRowFor(rows, r, e) ==
    IsMovieRow(r, e) \/ IsShowRow(r, e) \/ IsSeasonRow(rows, r, e) \/ IsEpisodeRow(rows, r, e)

(* The rows have the unique numbers their table gives them, and only seasons *)
(* were given an id later, each one Trakt has for a season.                 *)
UniqueNumbers(rows) ==
    \A r, s \in rows :
        r.kind \in {"season", "episode"} /\ r.kind = s.kind /\ r.parent = s.parent
            /\ r.number = s.number => r = s

SeasonsGiven(rows) ==
    \A y \in seasonIds :
        /\ y[1] \in rows /\ y[1].kind = "season" /\ y[2] # NoId
        /\ \E f \in Events : subject[f].kind = "episode" /\ subject[f].seasonId = y[2]

Sound(rows) ==
    /\ \A r \in rows : \E e \in Events : IsRowFor(rows, r, e)
    /\ UniqueNumbers(rows) /\ SeasonsGiven(rows)

(* What is recorded for an event is found by its number or by its place. *)
RecordedInv ==
    \A e \in imported : recorded[e] \in titles /\ (SharesId(e) \/ IsTitleOf(recorded[e], e))

TitleInv == Sound(titles) /\ RecordedInv

(* Only the first poll to succeed leaves events out. *)
MissedInv == checkpoint = Never => missedFirst = {}

IInv ==
    /\ TypeOK /\ EventInv /\ PhaseInv /\ ReadInv /\ HistoryInv /\ TitleInv /\ MissedInv
    /\ BaselineIsHistory /\ NothingFallsBehind

-----------------------------------------------------------------------------
(* The events of a period are finitely many, and so are those before one. *)
LEMMA PositionType ==
  ASSUME EventInv, NEW start, NEW e
  PROVE  /\ IsFiniteSet(Listed(start)) /\ Cardinality(Listed(start)) \in Nat
         /\ Cardinality({f \in Listed(start) : Newer(f, e)}) \in Nat
  <1>1. IsFiniteSet(Listed(start))
    <2>1. Listed(start) \in SUBSET present
      BY DEF Listed
    <2> QED BY <2>1, FS_Subset DEF EventInv
  <1>2. IsFiniteSet({f \in Listed(start) : Newer(f, e)})
    <2>1. {f \in Listed(start) : Newer(f, e)} \in SUBSET Listed(start)
      OBVIOUS
    <2> QED BY <1>1, <2>1, FS_Subset
  <1> QED BY <1>1, <1>2, FS_CardinalityType

LEMMA PageCountType ==
  ASSUME EventInv, NEW start
  PROVE  /\ PageCount(start) \in Nat \ {0}
         /\ PageCount(start) >= (Cardinality(Listed(start)) + PageSize - 1) \div PageSize
  <1> DEFINE n == Cardinality(Listed(start))
             full == (n + PageSize - 1) \div PageSize
  <1>1. n \in Nat
    BY PositionType
  <1>2. full \in Nat
    <2> HIDE DEF n
    <2> QED BY <1>1, PageAssumption
  <1>3. PageCount(start) = IF full = 0 THEN 1 ELSE full
    BY DEF PageCount
  <1> HIDE DEF full
  <1>4. PageCount(start) \in Nat \ {0} /\ PageCount(start) >= full
    BY <1>2, <1>3
  <1> QED BY <1>4 DEF full

(* Without a stored checkpoint, the time of an event or the present. *)
LEMMA CheckpointType ==
  ASSUME TypeOK, EventInv
  PROVE  Checkpoint \in Int /\ LookBack \in Int
  <1>1. Checkpoint \in Int
    <2>1. CASE checkpoint # Never
      BY <2>1 DEF Checkpoint, TypeOK
    <2>2. CASE checkpoint = Never /\ imported # {}
      <3> DEFINE T == {watched[e] : e \in imported}
      <3>1. IsFiniteSet(T)
        BY FiniteImage DEF EventInv
      <3>2. T # {} /\ T \subseteq Int
        BY <2>2 DEF TypeOK
      <3>3. Max(T) \in Int
        <4> HIDE DEF T
        <4> QED BY <3>1, <3>2, MaxIsGreatest
      <3> QED BY <2>2, <3>3 DEF Checkpoint
    <2>3. CASE checkpoint = Never /\ imported = {}
      BY <2>3 DEF Checkpoint, TypeOK
    <2> QED BY <2>1, <2>2, <2>3
  <1> QED BY <1>1, TimeAssumption DEF LookBack

-----------------------------------------------------------------------------
(* EnsureMediaItem finds a row by its number, then by its place, and inserts *)
(* one only when there is neither.                                          *)
LEMMA ItemFacts ==
  ASSUME NEW rows, NEW r, NEW x \in EnsureMediaItem(rows, r)
  PROVE  \/ x \in rows /\ r.trakt # NoId /\ x \in Known(rows, r.trakt)
         \/ /\ x \in rows /\ r.kind \in {"season", "episode"}
            /\ x.kind = r.kind /\ x.parent = r.parent /\ x.number = r.number
         \/ x = r /\ ParentFits(r) /\ Numbered(rows, r) = {}
  <1>1. CASE Known(rows, r.trakt) # {}
    <2>1. x \in Known(rows, r.trakt)
      BY <1>1 DEF EnsureMediaItem
    <2> QED BY <2>1 DEF Known
  <1>2. CASE Known(rows, r.trakt) = {} /\ Numbered(rows, r) # {}
    <2>1. x \in Numbered(rows, r)
      BY <1>2 DEF EnsureMediaItem
    <2> QED BY <2>1 DEF Numbered
  <1>3. CASE Known(rows, r.trakt) = {} /\ Numbered(rows, r) = {}
    BY <1>3 DEF EnsureMediaItem
  <1> QED BY <1>1, <1>2, <1>3

(* The rows of an event, found or inserted one after the other. *)
MovieListed(e, list) ==
    \E movie \in EnsureMediaItem(titles, MovieRow(e)) : list = <<movie>>

EpisodeListed(e, list) ==
    \E show \in EnsureMediaItem(titles, ShowRow(e)) :
        \E season \in EnsureMediaItem(titles \union {show}, SeasonRow(e, show)) :
            \E episode \in EnsureMediaItem(titles \union {show, season}, EpisodeRow(e, season)) :
                list = <<show, season, episode>>

LEMMA MediaFacts ==
  ASSUME NEW e, NEW list \in EnsureMedia(e)
  PROVE  \/ subject[e].kind = "movie" /\ MovieListed(e, list)
         \/ subject[e].kind = "episode" /\ EpisodeListed(e, list)
  <1>1. CASE subject[e].kind = "movie"
    BY <1>1 DEF EnsureMedia, MovieListed
  <1>2. CASE subject[e].kind = "episode"
    <2>1. EnsureMedia(e) =
             UNION {UNION {{<<show, season, episode>> :
                 episode \in EnsureMediaItem(titles \union {show, season},
                                             EpisodeRow(e, season))} :
                 season \in EnsureMediaItem(titles \union {show}, SeasonRow(e, show))} :
                 show \in EnsureMediaItem(titles, ShowRow(e))}
      BY <1>2 DEF EnsureMedia
    <2>2. PICK show \in EnsureMediaItem(titles, ShowRow(e)) :
             list \in UNION {{<<show, season, episode>> :
                 episode \in EnsureMediaItem(titles \union {show, season},
                                             EpisodeRow(e, season))} :
                 season \in EnsureMediaItem(titles \union {show}, SeasonRow(e, show))}
      BY <2>1, Zenon
    <2>3. PICK season \in EnsureMediaItem(titles \union {show}, SeasonRow(e, show)) :
             list \in {<<show, season, episode>> :
                 episode \in EnsureMediaItem(titles \union {show, season},
                                             EpisodeRow(e, season))}
      BY <2>2, Zenon
    <2>4. PICK episode \in EnsureMediaItem(titles \union {show, season}, EpisodeRow(e, season)) :
             list = <<show, season, episode>>
      BY <2>3, Zenon
    <2> QED BY <1>2, <2>4 DEF EpisodeListed
  <1>3. CASE subject[e].kind \notin {"movie", "episode"}
    BY <1>3 DEF EnsureMedia
  <1> QED BY <1>1, <1>2, <1>3

StoresMovie(e) ==
    \E movie \in EnsureMediaItem(titles, MovieRow(e)) :
        /\ titles' = titles \union {movie}
        /\ recorded' = [recorded EXCEPT ![e] = movie]

StoresEpisode(e) ==
    \E show \in EnsureMediaItem(titles, ShowRow(e)) :
        \E season \in EnsureMediaItem(titles \union {show}, SeasonRow(e, show)) :
            \E episode \in EnsureMediaItem(titles \union {show, season},
                                           EpisodeRow(e, season)) :
                /\ titles' = titles \union {show, season, episode}
                /\ recorded' = [recorded EXCEPT ![e] = episode]

LEMMA StoreFacts ==
  ASSUME NEW e \in Events, StoreEvent(e)
  PROVE  \/ subject[e].kind = "movie" /\ StoresMovie(e)
         \/ subject[e].kind = "episode" /\ StoresEpisode(e)
  <1>1. PICK list \in EnsureMedia(e) :
               /\ titles' = titles \union Range(list)
               /\ recorded' = [recorded EXCEPT ![e] = list[Len(list)]]
    BY DEF StoreEvent
  <1>2. ASSUME NEW a PROVE Range(<<a>>) = {a}
    BY DEF Range
  <1>3. ASSUME NEW a, NEW b, NEW c PROVE Range(<<a, b, c>>) = {a, b, c}
    BY DEF Range
  <1>4. ASSUME NEW movie \in EnsureMediaItem(titles, MovieRow(e)), list = <<movie>>
        PROVE  StoresMovie(e)
    <2>1. list[Len(list)] = movie /\ Range(list) = {movie}
      BY <1>2, <1>4
    <2> QED BY <1>1, <2>1 DEF StoresMovie
  <1>5. ASSUME NEW sh \in EnsureMediaItem(titles, ShowRow(e)),
               NEW se \in EnsureMediaItem(titles \union {sh}, SeasonRow(e, sh)),
               NEW ep \in EnsureMediaItem(titles \union {sh, se}, EpisodeRow(e, se)),
               list = <<sh, se, ep>>
        PROVE  StoresEpisode(e)
    <2>1. list[Len(list)] = ep /\ Range(list) = {sh, se, ep}
      BY <1>3, <1>5
    <2>2. /\ titles' = titles \union {sh, se, ep}
          /\ recorded' = [recorded EXCEPT ![e] = ep]
      BY <1>1, <2>1
    <2> QED BY <2>2 DEF StoresEpisode
  <1>6. CASE subject[e].kind = "movie" /\ MovieListed(e, list)
    <2>1. PICK movie \in EnsureMediaItem(titles, MovieRow(e)) : list = <<movie>>
      BY <1>6 DEF MovieListed
    <2> QED BY <1>4, <1>6, <2>1
  <1>7. CASE subject[e].kind = "episode" /\ EpisodeListed(e, list)
    <2>1. PICK sh \in EnsureMediaItem(titles, ShowRow(e)) :
             \E se \in EnsureMediaItem(titles \union {sh}, SeasonRow(e, sh)) :
                 \E ep \in EnsureMediaItem(titles \union {sh, se}, EpisodeRow(e, se)) :
                     list = <<sh, se, ep>>
      BY <1>7 DEF EpisodeListed
    <2>2. PICK se \in EnsureMediaItem(titles \union {sh}, SeasonRow(e, sh)) :
             \E ep \in EnsureMediaItem(titles \union {sh, se}, EpisodeRow(e, se)) :
                 list = <<sh, se, ep>>
      BY <2>1
    <2>3. PICK ep \in EnsureMediaItem(titles \union {sh, se}, EpisodeRow(e, se)) :
             list = <<sh, se, ep>>
      BY <2>2
    <2> QED BY <1>5, <1>7, <2>3
  <1> QED BY <1>6, <1>7, MediaFacts

-----------------------------------------------------------------------------
(* A row that is sound stays so when others are added. *)
LEMMA OriginKept ==
  ASSUME NEW rows, NEW more, rows \subseteq more, NEW r, NEW e, IsRowFor(rows, r, e)
  PROVE  IsRowFor(more, r, e)
  BY DEF IsRowFor, IsSeasonRow, IsEpisodeRow

(* What EnsureMediaItem returns leaves the rows sound. *)
LEMMA ItemSound ==
  ASSUME NEW rows, Sound(rows), NEW r, NEW e \in Events, ParentFits(r) => IsRowFor(rows, r, e),
         NEW x \in EnsureMediaItem(rows, r)
  PROVE  Sound(rows \union {x})
  <1>1. CASE x \in rows
    <2>1. rows \union {x} = rows
      BY <1>1
    <2> QED BY <2>1
  <1>2. CASE x = r /\ ParentFits(r) /\ Numbered(rows, r) = {}
    <2>1. ASSUME NEW s \in rows \union {x} PROVE \E f \in Events : IsRowFor(rows \union {x}, s, f)
      <3>1. \E f \in Events : IsRowFor(rows, s, f)
        BY <1>2, <2>1 DEF Sound
      <3> QED BY <3>1, OriginKept
    <2>2. UniqueNumbers(rows \union {x})
      <3>1. \A s \in rows : ~(/\ r.kind \in {"season", "episode"} /\ s.kind = r.kind
                              /\ s.parent = r.parent /\ s.number = r.number)
        BY <1>2 DEF Numbered
      <3> QED BY <1>2, <3>1 DEF Sound, UniqueNumbers
    <2>3. SeasonsGiven(rows \union {x})
      BY DEF Sound, SeasonsGiven
    <2> QED BY <2>1, <2>2, <2>3 DEF Sound
  <1> QED BY <1>1, <1>2, ItemFacts

(* A row that was given an id later is a season. *)
LEMMA GivenFacts ==
  ASSUME NEW rows, Sound(rows), NEW x, NEW trakt, <<x, trakt>> \in seasonIds
  PROVE  /\ x.kind = "season"
         /\ \E f \in Events : <<"season", trakt>> \in TitlesOf(subject[f])
  <1> DEFINE y == <<x, trakt>>
  <1>1. y \in seasonIds /\ y[1] = x /\ y[2] = trakt
    OBVIOUS
  <1>2. /\ x.kind = "season"
        /\ \E f \in Events : subject[f].kind = "episode" /\ subject[f].seasonId = trakt
    BY <1>1 DEF Sound, SeasonsGiven
  <1> QED BY <1>2 DEF TitlesOf

(* A row found by the number of an event's title is of its kind. *)
LEMMA IdKind ==
  ASSUME NEW rows, Sound(rows), NEW trakt, NEW x \in Known(rows, trakt),
         NEW e \in Events, NEW k \in {"movie", "episode"}, <<k, trakt>> \in TitlesOf(subject[e]),
         ~SharesId(e)
  PROVE  x.kind = k /\ x.trakt = trakt
  <1>1. x \in rows /\ trakt # NoId
    BY DEF Known
  <1>2. ASSUME NEW f \in Events, NEW j, <<j, trakt>> \in TitlesOf(subject[f])
        PROVE  j = k
    <2>1. \A u, v : <<u, v>>[1] = u /\ <<u, v>>[2] = v
      OBVIOUS
    <2> QED BY <1>1, <1>2, <2>1 DEF SharesId
  <1>3. CASE <<x, trakt>> \in seasonIds
    BY <1>2, <1>3, GivenFacts
  <1>4. CASE x.trakt = trakt
    <2>1. PICK f \in Events : IsRowFor(rows, x, f)
      BY <1>1 DEF Sound
    <2>2. <<x.kind, trakt>> \in TitlesOf(subject[f])
      <3>1. CASE IsMovieRow(x, f)
        BY <1>4, <3>1 DEF IsMovieRow, MovieRow, Row, TitlesOf
      <3>2. CASE IsShowRow(x, f)
        BY <1>4, <3>2 DEF IsShowRow, ShowRow, Row, TitlesOf
      <3>3. CASE IsSeasonRow(rows, x, f)
        BY <1>1, <1>4, <3>3 DEF IsSeasonRow, SeasonRow, Row
      <3>4. CASE IsEpisodeRow(rows, x, f)
        BY <1>4, <3>4 DEF IsEpisodeRow, EpisodeRow, Row, TitlesOf
      <3> QED BY <2>1, <3>1, <3>2, <3>3, <3>4 DEF IsRowFor
    <2> QED BY <1>2, <1>4, <2>2
  <1> QED BY <1>3, <1>4 DEF Known

(* The rows of an episode, when they are found or stored. *)
LEMMA ShowFacts ==
  ASSUME Sound(titles), NEW e \in Events, subject[e].kind = "episode",
         NEW show \in EnsureMediaItem(titles, ShowRow(e))
  PROVE  /\ Sound(titles \union {show})
         /\ show.kind = "show" => show = ShowRow(e)
  <1>1. IsRowFor(titles, ShowRow(e), e)
    BY DEF IsRowFor, IsShowRow
  <1>2. Sound(titles \union {show})
    BY <1>1, ItemSound
  <1>3. ShowRow(e).kind = "show" /\ ShowRow(e).trakt = subject[e].show
    BY DEF ShowRow, Row
  <1>4. ASSUME show \in titles, subject[e].show # NoId, show \in Known(titles, subject[e].show),
               show.kind = "show"
        PROVE  show = ShowRow(e)
    <2>1. show.trakt = subject[e].show
      BY <1>4, GivenFacts DEF Known
    <2>2. PICK f \in Events : IsRowFor(titles, show, f)
      BY <1>4 DEF Sound
    <2>3. show = ShowRow(f)
      BY <1>4, <2>2 DEF IsRowFor, IsMovieRow, IsShowRow, IsSeasonRow, IsEpisodeRow, MovieRow,
                        SeasonRow, EpisodeRow, Row
    <2> QED BY <1>4, <2>1, <2>3 DEF ShowRow, Row, Apart
  <1> QED BY <1>2, <1>3, <1>4, ItemFacts

LEMMA SeasonFacts ==
  ASSUME NEW rows, Sound(rows), NEW e \in Events, subject[e].kind = "episode",
         NEW show \in rows, NEW season \in EnsureMediaItem(rows, SeasonRow(e, show))
  PROVE  /\ Sound(rows \union {season}) /\ show.kind = "show"
         /\ season.kind = "season" /\ season.parent = show /\ season.number = subject[e].season
  <1> DEFINE r == SeasonRow(e, show)
  <1>1. /\ r = SeasonRow(e, r.parent)
        /\ r.kind = "season" /\ r.parent = show /\ r.number = subject[e].season /\ r.trakt = NoId
    BY DEF SeasonRow, Row
  <1>2. ParentFits(r) => IsRowFor(rows, r, e)
    BY <1>1 DEF ParentFits, IsRowFor, IsSeasonRow
  <1>3. Sound(rows \union {season})
    BY <1>2, ItemSound
  <1>4. season.kind = "season" /\ season.parent = show /\ season.number = subject[e].season
    <2> HIDE DEF r
    <2> QED BY <1>1, ItemFacts DEF r
  <1>5. show.kind = "show"
    <2>1. CASE season \in rows
      <3>1. PICK f \in Events : IsRowFor(rows, season, f)
        BY <2>1 DEF Sound
      <3>2. IsSeasonRow(rows, season, f)
        BY <1>4, <3>1 DEF IsRowFor, IsMovieRow, IsShowRow, IsEpisodeRow, MovieRow, ShowRow,
                          EpisodeRow, Row
      <3> QED BY <1>4, <3>2 DEF IsSeasonRow
    <2>2. CASE ParentFits(r)
      BY <1>1, <2>2 DEF ParentFits
    <2> HIDE DEF r
    <2> QED BY <2>1, <2>2, ItemFacts DEF r
  <1> QED BY <1>3, <1>4, <1>5

LEMMA EpisodeFacts ==
  ASSUME NEW rows, Sound(rows), NEW e \in Events, subject[e].kind = "episode",
         NEW season \in rows, season.kind = "season", season.number = subject[e].season,
         season.parent = ShowRow(e),
         NEW episode \in EnsureMediaItem(rows, EpisodeRow(e, season))
  PROVE  /\ Sound(rows \union {episode})
         /\ SharesId(e) \/ IsTitleOf(episode, e)
  <1> DEFINE r == EpisodeRow(e, season)
  <1>1. /\ r = EpisodeRow(e, r.parent)
        /\ r.kind = "episode" /\ r.parent = season /\ r.number = subject[e].number
        /\ r.trakt = subject[e].trakt
    BY DEF EpisodeRow, Row
  <1>2. IsRowFor(rows, r, e)
    BY <1>1 DEF IsRowFor, IsEpisodeRow, AtPlaceOf
  <1>3. Sound(rows \union {episode})
    BY <1>2, ItemSound
  <1>4. CASE r.trakt # NoId /\ episode \in Known(rows, r.trakt)
    <2>1. <<"episode", r.trakt>> \in TitlesOf(subject[e])
      BY <1>1 DEF TitlesOf
    <2>2. ~SharesId(e) => episode.kind = "episode" /\ episode.trakt = r.trakt
      <3> HIDE DEF r
      <3> QED BY <1>4, <2>1, IdKind
    <2> QED BY <1>1, <1>3, <1>4, <2>2 DEF IsTitleOf
  <1>5. CASE episode.kind = r.kind /\ episode.parent = r.parent /\ episode.number = r.number
    BY <1>1, <1>3, <1>5 DEF IsTitleOf, AtPlaceOf
  <1>6. CASE episode = r
    BY <1>5, <1>6
  <1> HIDE DEF r
  <1> QED BY <1>4, <1>5, <1>6, ItemFacts DEF r

(* Storing an event keeps the rows sound, and records it where it belongs. *)
LEMMA StoreSound ==
  ASSUME Sound(titles), NEW e \in Events, StoreEvent(e)
  PROVE  /\ Sound(titles') /\ titles \subseteq titles'
         /\ \E r \in titles' : /\ recorded' = [recorded EXCEPT ![e] = r]
                               /\ SharesId(e) \/ IsTitleOf(r, e)
  <1>1. CASE subject[e].kind = "movie" /\ StoresMovie(e)
    <2> DEFINE r == MovieRow(e)
    <2>1. PICK movie \in EnsureMediaItem(titles, r) :
             /\ titles' = titles \union {movie}
             /\ recorded' = [recorded EXCEPT ![e] = movie]
      BY <1>1 DEF StoresMovie
    <2>2. r.kind = "movie" /\ r.trakt = subject[e].trakt
      BY DEF MovieRow, Row
    <2>3. IsRowFor(titles, r, e)
      BY <1>1 DEF IsRowFor, IsMovieRow
    <2>4. Sound(titles')
      BY <2>1, <2>3, ItemSound
    <2>5. SharesId(e) \/ IsTitleOf(movie, e)
      <3>1. CASE r.trakt # NoId /\ movie \in Known(titles, r.trakt)
        <4>1. <<"movie", r.trakt>> \in TitlesOf(subject[e])
          BY <1>1, <2>2 DEF TitlesOf
        <4>2. ~SharesId(e) => movie.kind = "movie" /\ movie.trakt = r.trakt
          <5> HIDE DEF r
          <5> QED BY <3>1, <4>1, IdKind
        <4> QED BY <1>1, <2>2, <3>1, <4>2 DEF IsTitleOf
      <3>2. CASE movie = r
        BY <1>1, <2>2, <3>2 DEF IsTitleOf
      <3> HIDE DEF r
      <3> QED BY <2>1, <2>2, <3>1, <3>2, ItemFacts
    <2> QED BY <2>1, <2>4, <2>5
  <1>2. CASE subject[e].kind = "episode" /\ StoresEpisode(e)
    <2>1. PICK show \in EnsureMediaItem(titles, ShowRow(e)) :
             \E se \in EnsureMediaItem(titles \union {show}, SeasonRow(e, show)) :
                 \E ep \in EnsureMediaItem(titles \union {show, se}, EpisodeRow(e, se)) :
                     /\ titles' = titles \union {show, se, ep}
                     /\ recorded' = [recorded EXCEPT ![e] = ep]
      BY <1>2 DEF StoresEpisode
    <2>2. PICK season \in EnsureMediaItem(titles \union {show}, SeasonRow(e, show)) :
             \E ep \in EnsureMediaItem(titles \union {show, season}, EpisodeRow(e, season)) :
                 /\ titles' = titles \union {show, season, ep}
                 /\ recorded' = [recorded EXCEPT ![e] = ep]
      BY <2>1
    <2>3. PICK episode \in EnsureMediaItem(titles \union {show, season}, EpisodeRow(e, season)) :
             /\ titles' = titles \union {show, season, episode}
             /\ recorded' = [recorded EXCEPT ![e] = episode]
      BY <2>2
    <2>4. Sound(titles \union {show}) /\ (show.kind = "show" => show = ShowRow(e))
      BY <1>2, ShowFacts
    <2>5. /\ Sound((titles \union {show}) \union {season}) /\ show.kind = "show"
          /\ season.kind = "season" /\ season.parent = show /\ season.number = subject[e].season
      <3> DEFINE rows == titles \union {show}
      <3>1. Sound(rows) /\ show \in rows /\ season \in EnsureMediaItem(rows, SeasonRow(e, show))
        BY <2>4
      <3> HIDE DEF rows
      <3>2. /\ Sound(rows \union {season}) /\ show.kind = "show"
            /\ season.kind = "season" /\ season.parent = show
            /\ season.number = subject[e].season
        BY <1>2, <3>1, SeasonFacts
      <3> QED BY <3>2 DEF rows
    <2>6. (titles \union {show}) \union {season} = titles \union {show, season}
      OBVIOUS
    <2>7. /\ Sound((titles \union {show, season}) \union {episode})
          /\ SharesId(e) \/ IsTitleOf(episode, e)
      BY <1>2, <2>4, <2>5, <2>6, EpisodeFacts
    <2>8. (titles \union {show, season}) \union {episode} = titles'
      BY <2>3
    <2> QED BY <2>3, <2>7, <2>8
  <1> QED BY <1>1, <1>2, StoreFacts

-----------------------------------------------------------------------------
(* Two rows at the same place of the same show are one. *)
LEMMA PlaceIsUnique ==
  ASSUME Sound(titles), NEW e, NEW q \in titles, NEW r \in titles,
         q.kind = "episode", r.kind = "episode", AtPlaceOf(q, e), AtPlaceOf(r, e)
  PROVE  q = r
  <1>1. ASSUME NEW x \in titles, x.kind = "episode"
        PROVE  x.parent \in titles /\ x.parent.kind = "season"
    <2>1. PICK f \in Events : IsRowFor(titles, x, f)
      BY DEF Sound
    <2>2. IsEpisodeRow(titles, x, f)
      BY <1>1, <2>1 DEF IsRowFor, IsMovieRow, IsShowRow, IsSeasonRow, MovieRow, ShowRow,
                        SeasonRow, Row
    <2> QED BY <2>2 DEF IsEpisodeRow
  <1>2. q.parent = r.parent
    BY <1>1 DEF Sound, UniqueNumbers, AtPlaceOf
  <1> QED BY <1>1, <1>2 DEF Sound, UniqueNumbers, AtPlaceOf

(* A row found by the number of an episode is at its place too, unless Trakt *)
(* gives the number to two places, or none to the show.                     *)
LEMMA NumberMeansPlace ==
  ASSUME Sound(titles), NEW e \in Events, ~HasTwoPlaces(e), ~HasNoId(e),
         subject[e].kind = "episode",
         NEW r \in titles, r.kind = "episode", r.trakt = subject[e].trakt, subject[e].trakt # NoId
  PROVE  AtPlaceOf(r, e)
  <1>1. PICK f \in Events : IsRowFor(titles, r, f)
    BY DEF Sound
  <1>2. IsEpisodeRow(titles, r, f)
    BY <1>1 DEF IsRowFor, IsMovieRow, IsShowRow, IsSeasonRow, MovieRow, ShowRow, SeasonRow, Row
  <1>3. /\ subject[f].kind = "episode" /\ subject[f].trakt = subject[e].trakt
        /\ AtPlaceOf(r, f)
    BY <1>2 DEF IsEpisodeRow, EpisodeRow, Row
  <1>4. /\ subject[f].show = subject[e].show /\ subject[f].season = subject[e].season
        /\ subject[f].number = subject[e].number
    BY <1>3 DEF HasTwoPlaces
  <1>5. ShowRow(f) = ShowRow(e)
    BY <1>4 DEF ShowRow, Apart, HasNoId
  <1> QED BY <1>3, <1>4, <1>5 DEF AtPlaceOf

(* What is recorded for an event is of its title, and the same for all       *)
(* events of that title.                                                    *)
LEMMA TitleImplies ==
  ASSUME TitleInv, TypeOK
  PROVE  WatchIsOfItsTitle
  <1> SUFFICES ASSUME NEW e \in imported, ~SharesId(e)
               PROVE  /\ IsTitleOf(recorded[e], e)
                      /\ \/ HasTwoPlaces(e) \/ HasNoId(e)
                         \/ \A f \in imported : subject[f] = subject[e] => recorded[f] = recorded[e]
    BY DEF WatchIsOfItsTitle
  <1>0. imported \subseteq Events /\ subject[e].kind \in {"movie", "episode", "invalid"}
    BY HistoriesAssumption DEF TypeOK
  <1>1. ASSUME NEW f \in imported, subject[f] = subject[e]
        PROVE  recorded[f] \in titles /\ IsTitleOf(recorded[f], f)
    <2>1. ~SharesId(f)
      BY <1>0, <1>1 DEF SharesId
    <2> QED BY <1>0, <1>1, <2>1 DEF TitleInv, RecordedInv
  <1>2. IsTitleOf(recorded[e], e)
    BY <1>1
  <1>3. ASSUME NEW f \in imported, subject[f] = subject[e], ~HasTwoPlaces(e), ~HasNoId(e)
        PROVE  recorded[f] = recorded[e]
    <2>1. CASE subject[e].kind = "movie"
      <3>1. ASSUME NEW g \in imported, subject[g] = subject[e]
            PROVE  recorded[g] = MovieRow(e)
        <4>1. recorded[g] \in titles /\ recorded[g].kind = "movie" /\ recorded[g].trakt = subject[e].trakt
          <5>1. recorded[g] \in titles /\ IsTitleOf(recorded[g], g)
            BY <1>1, <3>1
          <5>2. /\ MovieRow(g).trakt = subject[g].trakt /\ subject[g].kind = "movie"
            BY <2>1, <3>1 DEF MovieRow, Row
          <5>3. subject[g].trakt = subject[e].trakt
            BY <3>1
          <5>4. recorded[g].kind = "movie" /\ recorded[g].trakt = subject[g].trakt
            BY <5>1, <5>2 DEF IsTitleOf
          <5> QED BY <5>1, <5>3, <5>4
        <4>2. PICK h \in Events : IsRowFor(titles, recorded[g], h)
          BY <4>1 DEF TitleInv, Sound
        <4>3. recorded[g] = MovieRow(h)
          BY <4>1, <4>2 DEF IsRowFor, IsMovieRow, IsShowRow, IsSeasonRow, IsEpisodeRow, ShowRow,
                            SeasonRow, EpisodeRow, Row
        <4>4. subject[e].trakt # NoId
          BY <1>3, <2>1 DEF HasNoId
        <4> QED BY <4>1, <4>3, <4>4 DEF MovieRow, Row, Apart
      <3> QED BY <1>3, <3>1
    <2>2. CASE subject[e].kind = "episode"
      <3>1. ASSUME NEW g \in imported, subject[g] = subject[e]
            PROVE  recorded[g] \in titles /\ recorded[g].kind = "episode" /\ AtPlaceOf(recorded[g], e)
        <4>1. recorded[g] \in titles /\ recorded[g].kind = "episode"
          BY <1>1, <2>2, <3>1 DEF IsTitleOf
        <4>2. CASE AtPlaceOf(recorded[g], g)
          <5>1. ShowRow(g) = ShowRow(e)
            BY <1>3, <2>2, <3>1 DEF ShowRow, Apart, HasNoId
          <5> QED BY <3>1, <4>1, <4>2, <5>1 DEF AtPlaceOf
        <4>3. CASE subject[e].trakt # NoId /\ recorded[g].trakt = subject[e].trakt
          BY <1>0, <1>3, <2>2, <4>1, <4>3, NumberMeansPlace DEF TitleInv
        <4> QED BY <1>1, <2>2, <3>1, <4>2, <4>3 DEF IsTitleOf
      <3> QED BY <1>3, <3>1, PlaceIsUnique DEF TitleInv
    <2>3. subject[e].kind # "invalid"
      <3>1. recorded[e] \in titles /\ recorded[e].kind = subject[e].kind
        BY <1>1 DEF IsTitleOf
      <3>2. PICK h \in Events : IsRowFor(titles, recorded[e], h)
        BY <3>1 DEF TitleInv, Sound
      <3> QED BY <3>1, <3>2 DEF IsRowFor, IsMovieRow, IsShowRow, IsSeasonRow, IsEpisodeRow,
                                MovieRow, ShowRow, SeasonRow, EpisodeRow, Row
    <2> QED BY <1>0, <2>1, <2>2, <2>3
  <1> QED BY <1>2, <1>3

-----------------------------------------------------------------------------
(* Types. *)
LEMMA TypeInit == Init => TypeOK /\ EventInv /\ PhaseInv
  <1> SUFFICES ASSUME Init
               PROVE  TypeOK /\ EventInv /\ PhaseInv
    OBVIOUS
  <1> USE EventsAssumption, PageAssumption, TimeAssumption DEF Init, Never
  <1>1. initialDone \in BOOLEAN
    OBVIOUS
  <1>2. TypeOK
    BY <1>1 DEF TypeOK
  <1>3. EventInv
    BY FS_EmptySet DEF EventInv
  <1>4. PhaseInv
    BY DEF PhaseInv
  <1> QED BY <1>2, <1>3, <1>4

(* A row's parent is stored with it. *)
LEMMA ParentStored ==
  ASSUME NEW rows, Sound(rows), NEW r \in rows
  PROVE  r.parent \in rows \union {NoRow}
  BY DEF Sound, IsRowFor, IsMovieRow, IsShowRow, IsSeasonRow, IsEpisodeRow, MovieRow, ShowRow,
         SeasonRow, EpisodeRow, Row

LEMMA TypeStep ==
  ASSUME TypeOK, EventInv, PhaseInv, TitleInv, [Next]_vars
  PROVE  TypeOK'
  <1> USE EventsAssumption, PageAssumption, TimeAssumption
  <1>1. ASSUME Tick PROVE TypeOK'
    BY <1>1 DEF Tick, traktVars, tables, events, media, import, excuses, TypeOK
  <1>2. ASSUME Arrive PROVE TypeOK'
    <2>1. PICK e \in Events, delay \in {d \in Delays : d <= clock} :
             /\ present' = present \union {e}
             /\ watched' = [watched EXCEPT ![e] = clock - delay]
             /\ late' = late \union {x \in {e} : delay > Overlap}
             /\ newcomers' = newcomers \union (IF page = 0 THEN {} ELSE {e})
      BY <1>2 DEF Arrive
    <2>2. clock - delay \in Int
      BY DEF TypeOK
    <2>3. /\ present' \subseteq Events /\ late' \subseteq Events /\ newcomers' \subseteq Events
          /\ watched' \in [Events -> Int]
      BY <2>1, <2>2 DEF TypeOK
    <2> QED BY <1>2, <2>3 DEF Arrive, tables, events, media, excuses, TypeOK
  <1>3. ASSUME Remove PROVE TypeOK'
    <2>1. present' \subseteq Events /\ shifted' \subseteq Events
      BY <1>3 DEF Remove, TypeOK
    <2> QED BY <1>3, <2>1 DEF Remove, tables, events, media, import, excuses, TypeOK
  <1>4. ASSUME BeginInitial PROVE TypeOK'
    BY <1>4 DEF BeginInitial, StartImport, traktVars, tables, events, media, excuses, TypeOK
  <1>5. ASSUME FetchPage PROVE TypeOK'
    <2>1. pages' \in Nat \ {0}
      BY <1>5, PageCountType DEF FetchPage
    <2>2. pageItems' \subseteq Events
      BY <1>5 DEF FetchPage, PageOf, Listed, TypeOK
    <2> QED BY <1>5, <2>1, <2>2 DEF FetchPage, traktVars, tables, events, media, excuses, TypeOK
  <1>6. ASSUME PersistNewest PROVE TypeOK'
    <2>1. PICK e \in pageItems :
             /\ pageItems' = pageItems \ {e}
             /\ \/ e \in imported /\ UNCHANGED events
                \/ /\ e \notin imported
                   /\ StoreEvent(e)
                   /\ UNCHANGED seasonIds
                   /\ imported' = imported \union {e}
                   /\ baseline' = baseline \union Flagged(e)
      BY <1>6 DEF PersistNewest
    <2>2. e \in Events /\ pageItems' \subseteq Events
      BY <2>1 DEF TypeOK
    <2>3. /\ imported' \subseteq Events /\ baseline' \subseteq imported'
          /\ \A r \in titles' : r.parent \in titles' \union {NoRow}
          /\ recorded' \in [Events -> titles' \union {NoRow}]
          /\ seasonIds' = seasonIds /\ titles \subseteq titles'
      <3>1. CASE UNCHANGED events
        BY <3>1 DEF events, media, TypeOK
      <3>2. CASE /\ StoreEvent(e) /\ UNCHANGED seasonIds
                 /\ imported' = imported \union {e} /\ baseline' = baseline \union Flagged(e)
        <4>1. imported' \subseteq Events /\ baseline' \subseteq imported'
          BY <2>2, <3>2 DEF Flagged, TypeOK
        <4>2. Sound(titles') /\ titles \subseteq titles'
          BY <2>2, <3>2, StoreSound DEF TitleInv
        <4>3. PICK r \in titles' : recorded' = [recorded EXCEPT ![e] = r]
          BY <2>2, <3>2, StoreSound DEF TitleInv
        <4>4. recorded' \in [Events -> titles' \union {NoRow}]
          BY <4>2, <4>3 DEF TypeOK
        <4> QED BY <3>2, <4>1, <4>2, <4>4, ParentStored
      <3> QED BY <2>1, <3>1, <3>2
    <2>4. seasonIds' \subseteq titles' \X {subject'[f].seasonId : f \in Events}
      <3>1. subject' = subject
        BY <1>6 DEF PersistNewest, traktVars
      <3> QED BY <2>3, <3>1 DEF TypeOK
    <2> QED BY <1>6, <2>2, <2>3, <2>4 DEF PersistNewest, traktVars, excuses, TypeOK
  <1>7. ASSUME NEW next \in {"idle", "ratings"}, StopImport(next),
               UNCHANGED <<clock, traktVars, events, history>>,
               initialDone' \in BOOLEAN, checkpoint' \in Int, missedFirst' \subseteq Events,
               outrun' \subseteq Events, failures' \in Nat
        PROVE  TypeOK'
    BY <1>7 DEF StopImport, StartImport, traktVars, events, media, TypeOK
  <1>8. ASSUME AttemptEnds, UNCHANGED <<clock, traktVars, tables, history, excuses>>,
               failures' \in Nat
        PROVE  TypeOK'
    <2>1. CASE StopImport("idle")
      BY <1>7, <1>8, <2>1 DEF tables, excuses, TypeOK
    <2>2. CASE phase' = "sleep" /\ UNCHANGED import
      BY <1>8, <2>2 DEF import, traktVars, tables, events, media, excuses, TypeOK
    <2> QED BY <1>8, <2>1, <2>2 DEF AttemptEnds
  <1>9. ASSUME PersistFails PROVE TypeOK'
    <2>1. failures' \in Nat
      BY <1>9 DEF PersistFails, TypeOK
    <2>2. CASE StopImport("idle")
      BY <1>7, <1>9, <2>1, <2>2 DEF PersistFails, tables, excuses, TypeOK
    <2>3. CASE AttemptEnds
      BY <1>8, <1>9, <2>1, <2>3 DEF PersistFails
    <2> QED BY <1>9, <2>2, <2>3 DEF PersistFails
  <1>10. ASSUME FinishInitial PROVE TypeOK'
    <2>1. initialDone' \in BOOLEAN
      BY <1>10 DEF FinishInitial
    <2> QED BY <1>10, <2>1 DEF FinishInitial, traktVars, events, media, import, excuses, TypeOK
  <1>11. ASSUME BeginPoll PROVE TypeOK'
    BY <1>11, CheckpointType DEF BeginPoll, StartImport, traktVars, tables, events, media,
                                excuses, TypeOK
  <1>12. ASSUME RetryAttempt PROVE TypeOK'
    BY <1>12 DEF RetryAttempt, StartImport, traktVars, tables, events, media, excuses, TypeOK,
                 PhaseInv
  <1>13. ASSUME FinishPoll PROVE TypeOK'
    BY <1>7, <1>13 DEF FinishPoll, TypeOK
  <1>14. ASSUME AttemptFails PROVE TypeOK'
    <2>1. failures' \in Nat
      BY <1>14 DEF AttemptFails, TypeOK
    <2> QED BY <1>8, <1>14, <2>1 DEF AttemptFails
  <1>15. ASSUME Abort PROVE TypeOK'
    <2>1. failures' \in Nat
      BY <1>15 DEF Abort, TypeOK
    <2> QED BY <1>7, <1>15, <2>1 DEF Abort, tables, excuses, TypeOK
  <1>16. ASSUME IdentifySeason PROVE TypeOK'
    <2>1. PICK e \in Events, x \in titles :
             seasonIds' = seasonIds \union {<<x, subject[e].seasonId>>}
      BY <1>16 DEF IdentifySeason
    <2>2. UNCHANGED <<titles, subject>>
      BY <1>16 DEF IdentifySeason, traktVars
    <2>3. seasonIds' \subseteq titles' \X {subject'[f].seasonId : f \in Events}
      BY <2>1, <2>2 DEF TypeOK
    <2> QED BY <1>16, <2>3 DEF IdentifySeason, traktVars, import, excuses, TypeOK
  <1>17. CASE FinishRatings \/ UNCHANGED vars
    BY <1>17 DEF FinishRatings, vars, traktVars, tables, events, media, import, excuses, TypeOK
  <1> QED BY <1>1, <1>2, <1>3, <1>4, <1>5, <1>6, <1>9, <1>10, <1>11, <1>12, <1>13, <1>14, <1>15,
             <1>16, <1>17 DEF Next, Importer

(* What Trakt holds stays finite and in the past. *)
LEMMA EventStep ==
  ASSUME TypeOK, EventInv, [Next]_vars
  PROVE  EventInv'
  <1> USE EventsAssumption, TimeAssumption
  <1>1. ASSUME Arrive PROVE EventInv'
    <2>1. PICK e \in Events, delay \in {d \in Delays : d <= clock} :
             /\ watched[e] = Never
             /\ present' = present \union {e}
             /\ watched' = [watched EXCEPT ![e] = clock - delay]
      BY <1>1 DEF Arrive
    <2>2. clock - delay \in Nat /\ clock - delay # Never
      BY DEF TypeOK, Never
    <2>3. watched' \in [Events -> Nat \union {Never}]
      BY <2>1, <2>2 DEF EventInv
    <2>4. \A f \in present' \union history : watched'[f] # Never
      BY <2>1, <2>2 DEF EventInv, TypeOK
    <2>5. IsFiniteSet(present')
      BY <2>1, FS_AddElement DEF EventInv
    <2> QED BY <1>1, <2>3, <2>4, <2>5 DEF Arrive, tables, events, EventInv
  <1>2. ASSUME Remove PROVE EventInv'
    <2>1. PICK e \in present : present' = present \ {e}
      BY <1>2 DEF Remove
    <2>2. IsFiniteSet(present')
      BY <2>1, FS_RemoveElement DEF EventInv
    <2> QED BY <1>2, <2>1, <2>2 DEF Remove, tables, events, EventInv
  <1>3. ASSUME BeginInitial PROVE EventInv'
    BY <1>3 DEF BeginInitial, traktVars, tables, events, EventInv
  <1>4. ASSUME PersistNewest PROVE EventInv'
    <2>1. PICK e \in pageItems : imported' = imported \/ imported' = imported \union {e}
      BY <1>4 DEF PersistNewest, events
    <2>2. IsFiniteSet(imported')
      BY <2>1, FS_AddElement DEF EventInv
    <2> QED BY <1>4, <2>2 DEF PersistNewest, traktVars, EventInv
  <1>5. CASE UNCHANGED <<present, imported, watched, history>>
    BY <1>5 DEF EventInv
  <1>6. CASE Tick \/ FetchPage \/ PersistFails \/ FinishInitial \/ BeginPoll \/ RetryAttempt
             \/ FinishPoll \/ AttemptFails \/ Abort \/ UNCHANGED vars
    BY <1>5, <1>6 DEF Tick, FetchPage, PersistFails, FinishInitial, BeginPoll, RetryAttempt,
                      FinishPoll, AttemptFails, Abort, vars, traktVars, tables, events
  <1>7. CASE IdentifySeason \/ FinishRatings
    BY <1>5, <1>7 DEF IdentifySeason, FinishRatings, traktVars, tables, events
  <1> QED BY <1>1, <1>2, <1>3, <1>4, <1>6, <1>7 DEF Next, Importer

(* What the phases know of the stored state. *)
LEMMA PhaseStep ==
  ASSUME TypeOK, EventInv, PhaseInv, [Next]_vars
  PROVE  PhaseInv'
  <1> USE PageAssumption, TimeAssumption
  <1>1. CASE Tick
    BY <1>1 DEF Tick, tables, import, TypeOK, PhaseInv
  <1>2. CASE Arrive \/ Remove \/ FetchPage \/ PersistNewest
    BY <1>2 DEF Arrive, Remove, FetchPage, PersistNewest, tables, import, PhaseInv
  <1>3. CASE BeginInitial
    BY <1>3 DEF BeginInitial, StartImport, tables, PhaseInv
  <1>4. CASE FinishInitial
    BY <1>4 DEF FinishInitial, import, PhaseInv
  <1>5. CASE BeginPoll
    <2>1. checkpoint # Never => LookBack = checkpoint - Overlap
      BY DEF LookBack, Checkpoint
    <2> QED BY <1>5, <2>1 DEF BeginPoll, StartImport, tables, TypeOK, PhaseInv
  <1>6. CASE RetryAttempt
    BY <1>6 DEF RetryAttempt, StartImport, tables, TypeOK, PhaseInv
  <1>7. ASSUME phase' \in {"idle", "ratings"}, UNCHANGED clock, checkpoint' \in {checkpoint, clock}
        PROVE  PhaseInv'
    BY <1>7 DEF PhaseInv, TypeOK
  <1>8. ASSUME phase = "poll", AttemptEnds, UNCHANGED <<clock, tables>>
        PROVE  PhaseInv'
    <2>1. CASE StopImport("idle")
      BY <1>7, <1>8, <2>1 DEF StopImport, tables
    <2>2. CASE AttemptsLeft /\ phase' = "sleep" /\ UNCHANGED import
      BY <1>8, <2>2 DEF AttemptsLeft, tables, import, PhaseInv
    <2> QED BY <1>8, <2>1, <2>2 DEF AttemptEnds
  <1>9. CASE PersistFails
    <2>1. CASE StopImport("idle")
      BY <1>7, <1>9, <2>1 DEF PersistFails, StopImport, tables
    <2> QED BY <1>8, <1>9, <2>1 DEF PersistFails
  <1>10. CASE AttemptFails
    BY <1>8, <1>10 DEF AttemptFails
  <1>11. CASE FinishPoll \/ Abort
    BY <1>7, <1>11 DEF FinishPoll, Abort, StopImport, tables
  <1>12. CASE IdentifySeason \/ FinishRatings \/ UNCHANGED vars
    BY <1>12 DEF IdentifySeason, FinishRatings, vars, tables, import, PhaseInv
  <1> QED BY <1>1, <1>2, <1>3, <1>4, <1>5, <1>6, <1>9, <1>10, <1>11, <1>12 DEF Next, Importer

(* The titles and what is recorded against them. *)
LEMMA TitleInit == Init => TitleInv
  BY DEF Init, TitleInv, Sound, UniqueNumbers, SeasonsGiven, RecordedInv

LEMMA TitleStep ==
  ASSUME TypeOK, TitleInv, [Next]_vars
  PROVE  TitleInv'
  <1>1. CASE UNCHANGED <<subject, imported, titles, seasonIds, recorded>>
    BY <1>1 DEF TitleInv, Sound, UniqueNumbers, SeasonsGiven, RecordedInv, IsRowFor, IsMovieRow,
                IsShowRow, IsSeasonRow, IsEpisodeRow, SharesId, TitlesOf, IsTitleOf, AtPlaceOf,
                MovieRow, ShowRow, SeasonRow, EpisodeRow, Row, Apart
  <1>2. ASSUME NEW e \in Events, StoreEvent(e), imported' = imported \union {e},
               UNCHANGED <<subject, seasonIds>>
        PROVE  TitleInv'
    <2>1. Sound(titles') /\ titles \subseteq titles'
      BY <1>2, StoreSound DEF TitleInv
    <2>2. PICK r \in titles' : /\ recorded' = [recorded EXCEPT ![e] = r]
                               /\ SharesId(e) \/ IsTitleOf(r, e)
      BY <1>2, StoreSound DEF TitleInv
    <2>3. ASSUME NEW f \in imported'
          PROVE  recorded'[f] \in titles' /\ (SharesId(f) \/ IsTitleOf(recorded'[f], f))
      <3>1. CASE f = e
        <4>1. recorded'[f] = r
          BY <2>2, <3>1 DEF TypeOK
        <4> QED BY <2>2, <3>1, <4>1
      <3>2. CASE f # e
        <4>1. f \in imported /\ recorded'[f] = recorded[f]
          BY <1>2, <2>2, <3>2 DEF TypeOK
        <4> QED BY <2>1, <4>1 DEF TitleInv, RecordedInv
      <3> QED BY <3>1, <3>2
    <2>4. Sound(titles)'
      BY <1>2, <2>1 DEF Sound, UniqueNumbers, SeasonsGiven, IsRowFor, IsMovieRow, IsShowRow,
                        IsSeasonRow, IsEpisodeRow, AtPlaceOf, MovieRow, ShowRow, SeasonRow,
                        EpisodeRow, Row, Apart
    <2>5. RecordedInv'
      BY <1>2, <2>3 DEF RecordedInv, SharesId, TitlesOf, IsTitleOf, AtPlaceOf, MovieRow, ShowRow,
                        Row, Apart
    <2> QED BY <2>4, <2>5 DEF TitleInv
  <1>3. CASE PersistNewest
    <2>1. PICK e \in pageItems :
             \/ UNCHANGED events
             \/ StoreEvent(e) /\ UNCHANGED seasonIds /\ imported' = imported \union {e}
      BY <1>3 DEF PersistNewest
    <2>2. UNCHANGED subject /\ e \in Events
      BY <1>3 DEF PersistNewest, traktVars, TypeOK
    <2> QED BY <1>1, <1>2, <2>1, <2>2 DEF events, media
  <1>4. CASE IdentifySeason
    <2>1. PICK e \in Events, x \in titles :
             /\ subject[e].kind = "episode" /\ x.kind = "season" /\ subject[e].seasonId # NoId
             /\ seasonIds' = seasonIds \union {<<x, subject[e].seasonId>>}
      BY <1>4 DEF IdentifySeason
    <2>2. UNCHANGED <<subject, imported, titles, recorded>>
      BY <1>4 DEF IdentifySeason, traktVars
    <2>3. SeasonsGiven(titles)'
      <3>1. ASSUME NEW y \in seasonIds'
            PROVE  /\ y[1] \in titles /\ y[1].kind = "season" /\ y[2] # NoId
                   /\ \E f \in Events : subject[f].kind = "episode" /\ subject[f].seasonId = y[2]
        <4>1. CASE y \in seasonIds
          BY <4>1 DEF TitleInv, Sound, SeasonsGiven
        <4>2. CASE y = <<x, subject[e].seasonId>>
          BY <2>1, <4>2
        <4> QED BY <2>1, <4>1, <4>2
      <3> QED BY <2>2, <3>1 DEF SeasonsGiven
    <2>4. Sound(titles)'
      BY <2>2, <2>3 DEF TitleInv, Sound, UniqueNumbers, IsRowFor, IsMovieRow, IsShowRow,
                        IsSeasonRow, IsEpisodeRow, AtPlaceOf, MovieRow, ShowRow, SeasonRow,
                        EpisodeRow, Row, Apart
    <2>5. RecordedInv'
      BY <2>2 DEF TitleInv, RecordedInv, SharesId, TitlesOf, IsTitleOf, AtPlaceOf, MovieRow,
                  ShowRow, Row, Apart
    <2> QED BY <2>4, <2>5 DEF TitleInv
  <1>5. CASE Tick \/ Arrive \/ Remove \/ BeginInitial \/ FetchPage \/ PersistFails \/ FinishInitial
             \/ BeginPoll \/ RetryAttempt \/ FinishPoll \/ FinishRatings \/ AttemptFails \/ Abort
             \/ UNCHANGED vars
    BY <1>1, <1>5 DEF Tick, Arrive, Remove, BeginInitial, FetchPage, PersistFails, FinishInitial,
                      BeginPoll, RetryAttempt, FinishPoll, FinishRatings, AttemptFails, Abort,
                      vars, traktVars, tables, events, media
  <1> QED BY <1>3, <1>4, <1>5 DEF Next, Importer

-----------------------------------------------------------------------------
(* What the running import has to read. *)
LEMMA ReadBegins ==
  ASSUME EventInv', (page < pages)', page' = 0
  PROVE  ReadInv'
  <1> SUFFICES ASSUME NEW e \in present'
               PROVE  (page < pages)' /\ page' <= (Position(e) \div PageSize)'
    BY DEF ReadInv
  <1>1. EventInv' => Position(e)' \in Nat
    BY FS_Subset, FS_CardinalityType DEF EventInv, Position, Listed
  <1>2. Position(e)' \div PageSize \in Nat
    BY <1>1, PageAssumption
  <1> QED BY <1>2

(* An import that does not run has nothing to read. *)
LEMMA ReadEnds ==
  ASSUME phase' \notin {"initial", "poll"}
  PROVE  ReadInv'
  BY DEF ReadInv, Asked

(* Arrivals only move an event to a later page. *)
LEMMA PositionGrows ==
  ASSUME EventInv, EventInv', UNCHANGED since, present \subseteq present', NEW e \in present,
         \A f \in present : watched'[f] = watched[f]
  PROVE  Position(e) \div PageSize \in Nat /\ Position(e) \div PageSize <= (Position(e) \div PageSize)'
  <1> DEFINE S == {f \in Listed(since) : Newer(f, e)}
             T == {f \in present' : watched'[f] >= since /\ (Newer(f, e))'}
  <1>1. S \subseteq T
    BY DEF Listed, Newer
  <1>2. IsFiniteSet(T)
    <2>1. T \in SUBSET (present')
      OBVIOUS
    <2> QED BY <2>1, FS_Subset DEF EventInv
  <1>3. Position(e) = Cardinality(S) /\ Position(e)' = Cardinality(T)
    BY DEF Position, Listed
  <1>4. Position(e) \in Nat /\ Position(e)' \in Nat /\ Position(e) <= Position(e)'
    <2> HIDE DEF S, T
    <2> QED BY <1>1, <1>2, <1>3, FS_Subset, FS_CardinalityType
  <1> QED BY <1>4, PageGrows, PageAssumption

LEMMA ReadStep ==
  ASSUME TypeOK, EventInv, PhaseInv, ReadInv, TypeOK', EventInv', [Next]_vars
  PROVE  ReadInv'
  <1> USE PageAssumption, TimeAssumption
  <1>1. ASSUME UNCHANGED <<present, watched, since, page, pages, phase, history, newcomers>>,
               imported \union pageItems \union shifted
                   \subseteq imported' \union pageItems' \union shifted'
        PROVE  ReadInv'
    BY <1>1 DEF ReadInv, Asked, Position, Listed, Newer
  <1>2. CASE Tick
    BY <1>1, <1>2 DEF Tick, traktVars, tables, events, import
  <1>3. CASE Arrive
    <2>1. PICK e \in Events, delay \in {d \in Delays : d <= clock} :
             /\ watched[e] = Never
             /\ present' = present \union {e}
             /\ watched' = [watched EXCEPT ![e] = clock - delay]
             /\ newcomers' = newcomers \union (IF page = 0 THEN {} ELSE {e})
      BY <1>3 DEF Arrive
    <2>2. e \notin present /\ e \notin history
      BY <2>1 DEF EventInv
    <2>3. UNCHANGED <<clock, phase, page, pages, pageItems, since, history, imported, shifted>>
      BY <1>3 DEF Arrive, tables, events
    <2>4. \A f \in present : f # e /\ watched'[f] = watched[f]
      BY <2>1, <2>2 DEF TypeOK
    <2>5. CASE page = 0
      <3>1. (page < pages)' /\ page' = 0
        BY <2>3, <2>5 DEF TypeOK
      <3> QED BY <3>1, ReadBegins
    <2>6. CASE page # 0
      <3>1. ~Asked(e)'
        BY <2>1, <2>2, <2>3, <2>6 DEF Asked
      <3>2. ASSUME NEW f \in present, Asked(f)', watched'[f] >= since',
                   f \notin imported' \union pageItems' \union shifted'
            PROVE  page' < pages' /\ page' <= (Position(f) \div PageSize)'
        <4>1. Asked(f) /\ watched[f] >= since /\ f \notin imported \union pageItems \union shifted
          BY <2>1, <2>3, <2>4, <2>6, <3>2 DEF Asked
        <4>2. page < pages /\ page <= Position(f) \div PageSize
          BY <4>1 DEF ReadInv
        <4>3. /\ Position(f) \div PageSize \in Nat
              /\ Position(f) \div PageSize <= (Position(f) \div PageSize)'
          BY <2>1, <2>3, <2>4, PositionGrows
        <4>4. page \in Nat /\ (Position(f) \div PageSize)' \in Int
          <5>1. Position(f)' \in Nat
            BY FS_Subset, FS_CardinalityType DEF EventInv, Position, Listed
          <5> QED BY <5>1 DEF TypeOK
        <4> QED BY <2>3, <4>2, <4>3, <4>4
      <3> QED BY <2>1, <3>1, <3>2 DEF ReadInv
    <2> QED BY <2>5, <2>6
  <1>4. CASE Remove
    <2>1. CASE page = 0
      <3>1. (page < pages)' /\ page' = 0
        BY <1>4, <2>1 DEF Remove, import, TypeOK
      <3> QED BY <3>1, ReadBegins
    <2>2. CASE page # 0
      <3>1. present' \subseteq imported' \union shifted'
        BY <1>4, <2>2 DEF Remove, tables, events
      <3> QED BY <3>1 DEF ReadInv
    <2> QED BY <2>1, <2>2
  <1>5. CASE BeginInitial \/ BeginPoll \/ RetryAttempt
    <2>1. (page < pages)' /\ page' = 0
      BY <1>5 DEF BeginInitial, BeginPoll, RetryAttempt, StartImport
    <2> QED BY <2>1, ReadBegins
  <1>6. CASE FetchPage
    <2>1. /\ pageItems = {} /\ page < pages /\ page' = page + 1 /\ pages' = PageCount(since)
          /\ pageItems' = PageOf(page + 1, since)
          /\ UNCHANGED <<present, watched, since, phase, history, newcomers, imported, shifted>>
      BY <1>6 DEF FetchPage, traktVars, tables, events
    <2> SUFFICES ASSUME NEW e \in present, Asked(e), watched[e] >= since,
                        e \notin imported \union pageItems' \union shifted
                 PROVE  page' < pages' /\ page' <= Position(e) \div PageSize
      BY <2>1 DEF ReadInv, Asked, Position, Listed, Newer
    <2> DEFINE n == Cardinality(Listed(since))
               q == Position(e) \div PageSize
    <2>2. page <= q
      BY <2>1 DEF ReadInv
    <2>3. Position(e) \in Nat /\ n \in Nat
      BY PositionType DEF Position
    <2>4. q \in Nat
      BY <2>3, PageGrows
    <2>5. Position(e) < n
      <3> DEFINE before == {f \in Listed(since) : Newer(f, e)}
      <3>1. before \subseteq Listed(since) /\ e \in Listed(since) /\ e \notin before
        <4>1. e \in Listed(since)
          BY DEF Listed
        <4>2. ~Newer(e, e)
          BY EventsAssumption DEF Newer, TypeOK
        <4> QED BY <4>1, <4>2
      <3>2. IsFiniteSet(Listed(since))
        BY PositionType
      <3>3. Position(e) = Cardinality(before)
        BY DEF Position
      <3> HIDE DEF before
      <3>4. Cardinality(before) <= n /\ (Cardinality(before) = n => before = Listed(since))
        BY <3>1, <3>2, FS_Subset
      <3> QED BY <2>3, <3>1, <3>3, <3>4
    <2>6. q < (n + PageSize - 1) \div PageSize
      <3> HIDE DEF n
      <3> QED BY <2>3, <2>5, PageWithin
    <2>7. q < pages'
      <3>1. /\ pages' \in Nat /\ (n + PageSize - 1) \div PageSize <= pages'
        BY <2>1, PageCountType
      <3>2. (n + PageSize - 1) \div PageSize \in Int
        <4> HIDE DEF n
        <4> QED BY <2>3
      <3> HIDE DEF n, q
      <3> QED BY <2>4, <2>6, <3>1, <3>2
    <2>8. q # page
      <3>1. q = page => e \in PageOf(page + 1, since)
        BY DEF PageOf, Listed, Position, TypeOK
      <3> QED BY <2>1, <3>1
    <2> HIDE DEF q
    <2>9. page + 1 <= q /\ page + 1 < pages'
      BY <2>2, <2>4, <2>7, <2>8 DEF TypeOK
    <2> QED BY <2>1, <2>9 DEF q
  <1>7. CASE PersistNewest
    <2>1. PICK e \in pageItems : pageItems' = pageItems \ {e} /\ e \in imported' /\ imported \subseteq imported'
      BY <1>7 DEF PersistNewest, events
    <2> QED BY <1>1, <1>7, <2>1 DEF PersistNewest, traktVars
  <1>8. CASE PersistFails \/ FinishInitial \/ FinishPoll \/ AttemptFails \/ Abort
    <2>1. phase' \in {"idle", "ready", "sleep", "ratings"}
      BY <1>8 DEF PersistFails, FinishInitial, FinishPoll, AttemptFails, Abort, AttemptEnds, StopImport
    <2> QED BY <2>1, ReadEnds
  <1>9. CASE IdentifySeason \/ FinishRatings
    BY <1>9, ReadEnds DEF IdentifySeason, FinishRatings
  <1>10. CASE UNCHANGED vars
    BY <1>1, <1>10 DEF vars, traktVars, tables, events, import
  <1> QED BY <1>2, <1>3, <1>4, <1>5, <1>6, <1>7, <1>8, <1>9, <1>10 DEF Next, Importer

-----------------------------------------------------------------------------
(* What has been read when an import ends. *)
LEMMA AllReadFacts ==
  ASSUME TypeOK, ReadInv, AllRead, NEW e \in present, Asked(e), watched[e] >= since
  PROVE  e \in imported \union shifted
  BY DEF AllRead, ReadInv, TypeOK

(* The history is stored when the initial import is done, and then no event  *)
(* of it comes back.                                                        *)
LEMMA HistoryStep ==
  ASSUME TypeOK, EventInv, PhaseInv, ReadInv, HistoryInv, BaselineIsHistory, [Next]_vars
  PROVE  HistoryInv' /\ BaselineIsHistory'
  <1>1. ASSUME UNCHANGED <<history, initialDone, imported, baseline, pageItems, phase>>,
               present' \intersect history \subseteq present, shifted \subseteq shifted'
        PROVE  HistoryInv' /\ BaselineIsHistory'
    BY <1>1 DEF HistoryInv, BaselineIsHistory
  <1>2. ASSUME UNCHANGED <<present, history, initialDone, imported, baseline, shifted>>,
               phase' = "poll" => pageItems' \subseteq present \/ (phase = "poll" /\ UNCHANGED pageItems),
               phase' = "poll" => initialDone
        PROVE  HistoryInv' /\ BaselineIsHistory'
    BY <1>2 DEF HistoryInv, BaselineIsHistory
  <1>3. CASE Tick \/ UNCHANGED vars
    BY <1>1, <1>3 DEF Tick, vars, traktVars, tables, events, import
  <1>4. CASE Arrive
    <2>1. PICK e \in Events : watched[e] = Never /\ present' = present \union {e}
      BY <1>4 DEF Arrive
    <2>2. e \notin history
      BY <2>1 DEF EventInv
    <2> QED BY <1>1, <1>4, <2>1, <2>2 DEF Arrive, tables, events
  <1>5. CASE Remove
    BY <1>1, <1>5 DEF Remove, tables, events, import
  <1>6. CASE BeginInitial
    <2>1. ~initialDone /\ UNCHANGED <<initialDone, imported, baseline, shifted>> /\ phase' = "initial"
      BY <1>6 DEF BeginInitial, traktVars, tables, events
    <2>2. HistoryInv'
      BY <2>1 DEF HistoryInv
    <2>3. BaselineIsHistory'
      BY <2>1 DEF HistoryInv, BaselineIsHistory
    <2> QED BY <2>2, <2>3
  <1>7. CASE FetchPage
    <2>1. pageItems' \subseteq present
      BY <1>7 DEF FetchPage, PageOf, Listed
    <2> QED BY <1>2, <1>7, <2>1 DEF FetchPage, traktVars, tables, events, PhaseInv
  <1>8. CASE PersistNewest
    <2>1. PICK e \in pageItems :
             /\ pageItems' = pageItems \ {e}
             /\ \/ UNCHANGED events
                \/ imported' = imported \union {e} /\ baseline' = baseline \union Flagged(e)
      BY <1>8 DEF PersistNewest
    <2>2. UNCHANGED <<present, history, shifted, initialDone, phase>> /\ phase \in {"initial", "poll"}
      BY <1>8 DEF PersistNewest, traktVars
    <2>3. CASE UNCHANGED events
      BY <2>1, <2>2, <2>3 DEF events, HistoryInv, BaselineIsHistory
    <2>4. CASE /\ imported' = imported \union {e} /\ baseline' = baseline \union Flagged(e)
               /\ phase = "initial"
      <3>1. ~initialDone /\ baseline' = baseline \union {e}
        BY <2>4 DEF PhaseInv, Flagged
      <3>2. HistoryInv'
        BY <2>2, <2>4, <3>1 DEF HistoryInv
      <3>3. BaselineIsHistory'
        BY <2>2, <2>4, <3>1 DEF BaselineIsHistory
      <3> QED BY <3>2, <3>3
    <2>5. CASE /\ imported' = imported \union {e} /\ baseline' = baseline \union Flagged(e)
               /\ phase = "poll"
      <3>1. initialDone /\ baseline' = baseline
        BY <2>5 DEF PhaseInv, Flagged
      <3>2. e \in history => e \in imported \union shifted
        BY <2>5 DEF HistoryInv
      <3>3. HistoryInv'
        BY <2>1, <2>2, <2>5, <3>1 DEF HistoryInv
      <3>4. BaselineIsHistory'
        BY <2>2, <2>5, <3>1, <3>2 DEF BaselineIsHistory
      <3> QED BY <3>3, <3>4
    <2> QED BY <2>1, <2>2, <2>3, <2>4, <2>5
  <1>9. CASE FinishInitial
    <2>1. /\ phase = "initial" /\ AllRead /\ initialDone' /\ phase' = "ready"
          /\ UNCHANGED <<present, history, imported, baseline, shifted>>
      BY <1>9 DEF FinishInitial, traktVars, events
    <2>2. \A e \in present : watched[e] >= 0
      BY DEF EventInv, TypeOK, Never
    <2>3. history \intersect present \subseteq imported \union shifted
      BY <2>1, <2>2, AllReadFacts DEF Asked, PhaseInv
    <2> QED BY <2>1, <2>3 DEF HistoryInv, BaselineIsHistory
  <1>10. CASE BeginPoll \/ RetryAttempt
    <2>1. pageItems' = {} /\ initialDone
      BY <1>10 DEF BeginPoll, RetryAttempt, StartImport, PhaseInv
    <2> QED BY <1>2, <1>10, <2>1 DEF BeginPoll, RetryAttempt, traktVars, tables, events
  <1>11. CASE PersistFails \/ FinishPoll \/ AttemptFails \/ Abort
    <2>1. phase' \in {"idle", "sleep", "ratings"}
      BY <1>11 DEF PersistFails, FinishPoll, AttemptFails, Abort, AttemptEnds, StopImport
    <2> QED BY <1>2, <1>11, <2>1 DEF PersistFails, FinishPoll, AttemptFails, Abort, traktVars, tables, events
  <1>12. CASE IdentifySeason \/ FinishRatings
    <2>1. phase' # "poll"
      BY <1>12 DEF IdentifySeason, FinishRatings
    <2> QED BY <1>2, <1>12, <2>1 DEF IdentifySeason, FinishRatings, traktVars, tables, events
  <1> QED BY <1>3, <1>4, <1>5, <1>6, <1>7, <1>8, <1>9, <1>10, <1>11, <1>12 DEF Next, Importer

(* A poll that succeeds has left nothing behind. *)
LEMMA FinishPollFacts ==
  ASSUME TypeOK, EventInv, PhaseInv, ReadInv, MissedInv, NothingFallsBehind, FinishPoll
  PROVE  NothingFallsBehind' /\ MissedInv'
  <1> USE TimeAssumption
  <1>1. /\ phase = "poll" /\ AllRead /\ checkpoint' = clock
        /\ UNCHANGED <<present, watched, late, imported, shifted>>
        /\ missedFirst' = IF checkpoint # Never THEN missedFirst
                          ELSE {e \in present \ imported : watched[e] < since}
        /\ outrun' = outrun \union {e \in newcomers \ imported : watched[e] < clock - Overlap}
    BY DEF FinishPoll, traktVars, events
  <1>2. /\ clock \in Nat /\ since \in Int
        /\ checkpoint \in Int /\ watched \in [Events -> Int] /\ present \subseteq Events
        /\ checkpoint # Never => since = checkpoint - Overlap
    BY <1>1 DEF TypeOK, PhaseInv
  <1>3. MissedInv'
    BY <1>1, <1>2 DEF MissedInv, Never
  <1>4. ASSUME NEW e \in present \ imported,
               e \notin late \union missedFirst' \union shifted \union outrun'
        PROVE  watched[e] >= clock - Overlap
    <2>1. CASE e \in newcomers
      BY <1>1, <1>2, <1>4, <2>1
    <2>2. CASE e \notin newcomers /\ watched[e] < since
      <3>1. checkpoint # Never
        BY <1>1, <1>4, <2>2
      <3>2. watched[e] >= checkpoint - Overlap
        BY <1>1, <1>4, <3>1 DEF NothingFallsBehind, Excused
      <3> QED BY <1>2, <2>2, <3>1, <3>2
    <2>3. CASE e \notin newcomers /\ watched[e] >= since
      <3>1. Asked(e)
        BY <1>1, <2>3 DEF Asked
      <3> QED BY <1>1, <1>4, <2>3, <3>1, AllReadFacts
    <2> QED BY <1>2, <2>1, <2>2, <2>3
  <1> QED BY <1>1, <1>3, <1>4 DEF NothingFallsBehind, Excused

(* No step lets the checkpoint pass an event. *)
LEMMA BehindStep ==
  ASSUME TypeOK, EventInv, PhaseInv, ReadInv, MissedInv, NothingFallsBehind, [Next]_vars
  PROVE  NothingFallsBehind' /\ MissedInv'
  <1> USE TimeAssumption
  <1>1. ASSUME UNCHANGED <<checkpoint, excuses, watched, late>>, present' \subseteq present,
               imported \subseteq imported', shifted \subseteq shifted'
        PROVE  NothingFallsBehind' /\ MissedInv'
    BY <1>1 DEF NothingFallsBehind, Excused, excuses, MissedInv
  <1>2. CASE Arrive
    <2>1. PICK e \in Events, delay \in {d \in Delays : d <= clock} :
             /\ present' = present \union {e}
             /\ watched' = [watched EXCEPT ![e] = clock - delay]
             /\ late' = late \union {x \in {e} : delay > Overlap}
             /\ watched[e] = Never
      BY <1>2 DEF Arrive
    <2>2. UNCHANGED <<checkpoint, missedFirst, outrun, imported, shifted>>
      BY <1>2 DEF Arrive, tables, events, excuses
    <2>3. ASSUME checkpoint # Never, e \notin late'
          PROVE  watched'[e] >= checkpoint - Overlap
      <3>1. delay <= Overlap
        BY <2>1, <2>3
      <3>2. checkpoint \in Nat /\ checkpoint <= clock /\ clock \in Nat /\ delay \in Nat
        BY <2>3 DEF PhaseInv, TypeOK
      <3>3. watched'[e] = clock - delay
        BY <2>1 DEF TypeOK
      <3> QED BY <3>1, <3>2, <3>3
    <2>4. \A f \in present : f # e /\ watched'[f] = watched[f]
      BY <2>1 DEF TypeOK, EventInv
    <2>5. NothingFallsBehind'
      BY <2>1, <2>2, <2>3, <2>4 DEF NothingFallsBehind, Excused
    <2> QED BY <2>2, <2>5 DEF MissedInv
  <1>3. CASE Remove
    BY <1>1, <1>3 DEF Remove, tables, events
  <1>4. CASE PersistNewest
    <2>1. imported \subseteq imported'
      BY <1>4 DEF PersistNewest, events
    <2> QED BY <1>1, <1>4, <2>1 DEF PersistNewest, traktVars
  <1>5. CASE Tick \/ BeginInitial \/ FetchPage \/ PersistFails \/ FinishInitial \/ BeginPoll
             \/ RetryAttempt \/ AttemptFails \/ Abort \/ UNCHANGED vars
    BY <1>1, <1>5 DEF Tick, BeginInitial, FetchPage, PersistFails, FinishInitial, BeginPoll,
                      RetryAttempt, AttemptFails, Abort, vars, traktVars, tables, events
  <1>6. CASE IdentifySeason \/ FinishRatings
    BY <1>1, <1>6 DEF IdentifySeason, FinishRatings, traktVars, tables, events
  <1> QED BY <1>2, <1>3, <1>4, <1>5, <1>6, FinishPollFacts DEF Next, Importer

-----------------------------------------------------------------------------
LEMMA InvInit == Init => IInv
  <1> SUFFICES ASSUME Init
               PROVE  IInv
    OBVIOUS
  <1>1. ReadInv /\ HistoryInv /\ MissedInv /\ BaselineIsHistory /\ NothingFallsBehind
    BY DEF Init, ReadInv, Asked, HistoryInv, MissedInv, BaselineIsHistory, NothingFallsBehind
  <1> QED BY <1>1, TypeInit, TitleInit DEF IInv

LEMMA InvStep == IInv /\ [Next]_vars => IInv'
  BY TypeStep, EventStep, PhaseStep, ReadStep, TitleStep, HistoryStep, BehindStep DEF IInv

LEMMA Invariant == Spec => []IInv
  BY InvInit, InvStep, PTL DEF Spec

(* The tables and the importer's state have their types: in particular every *)
(* title is stored with its parents, and only what is imported is baseline.  *)
THEOREM ImportTypes == Spec => []TypeOK
  <1>1. IInv => TypeOK
    BY DEF IInv
  <1> QED BY <1>1, Invariant, PTL

(* No failure, retry, restart or page that moves while it is read lets the   *)
(* checkpoint pass an event that Trakt held when a poll fetched its first    *)
(* page, however long the poll takes; what arrives later is passed only if   *)
(* the poll goes on for longer than the overlap, less the event's delay.     *)
THEOREM CheckpointPassesNothing == Spec => []NothingFallsBehind
  <1>1. IInv => NothingFallsBehind
    BY DEF IInv
  <1> QED BY <1>1, Invariant, PTL

(* What Trakt held before the initial import is never taken for a new watch, *)
(* however often the import was cut.                                        *)
THEOREM HistoryIsBaseline == Spec => []BaselineIsHistory
  <1>1. IInv => BaselineIsHistory
    BY DEF IInv
  <1> QED BY <1>1, Invariant, PTL

(* Every watch is recorded against the title it is of, and all watches of a  *)
(* title that has an id and one place against one row, unless Trakt gives an *)
(* id of its titles to a title of another kind, be it a season.              *)
THEOREM WatchesAreRecordedRight == Spec => []WatchIsOfItsTitle
  <1>1. IInv => WatchIsOfItsTitle
    BY TitleImplies DEF IInv, TypeOK
  <1> QED BY <1>1, Invariant, PTL
=============================================================================
