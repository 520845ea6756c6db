--------------------------- MODULE MCHistoryImport ---------------------------
(* TLC instance of HistoryImport: pages of one event, so that every event    *)
(* that arrives or is removed moves the others to another page.             *)
EXTENDS HistoryImport

Movie(trakt) ==
    [kind |-> "movie", trakt |-> trakt, show |-> NoId, seasonId |-> NoId, season |-> 0,
     number |-> 0]

(* The first episode of a show's first season, whose id follows the show's.  *)
Pilot(show, trakt) ==
    [kind |-> "episode", trakt |-> trakt, show |-> show, seasonId |-> show + 1, season |-> 1,
     number |-> 1]

Invalid ==
    [kind |-> "invalid", trakt |-> NoId, show |-> NoId, seasonId |-> NoId, season |-> 0,
     number |-> 0]

(* Two shows; an episode that is numbered anew; a movie that has the number  *)
(* of a show, which keeps the show from being stored after it; one that has  *)
(* that of a season; movies without an id; an event that cannot be stored.   *)
MCHistories ==
    {<<Pilot(3, 7), Pilot(5, 8)>>,
     <<Pilot(3, 7), Pilot(3, 8)>>,
     <<Movie(3), Pilot(3, 7)>>,
     <<Pilot(3, 7), Movie(4)>>,
     <<Movie(NoId), Movie(NoId)>>,
     <<Invalid, Movie(1)>>}

(* Movies only. *)
MCMovies == {[e \in Events |-> Movie(e)]}
=============================================================================
