------------------------- MODULE MCLetterboxdExport -------------------------
(* TLC instance of LetterboxdExport: one movie, watched at two times that    *)
(* fall on two days or, in another timezone, on one.  Events and values are  *)
(* only compared for equality, so that they may be permuted.                *)
EXTENDS LetterboxdExport, TLC

MCZones == {<<1, 2>>, <<1, 1>>}

(* The timezone is never changed. *)
MCOneZone == {<<1, 2>>}

Symmetry == Permutations(Events) \union Permutations(Values)

=============================================================================
