---------------------------- MODULE MCTraktSession ----------------------------
(* TLC instance of TraktSession: two requests and two applications. *)
EXTENDS TraktSession
=============================================================================
