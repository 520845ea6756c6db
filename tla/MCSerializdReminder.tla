------------------------- MODULE MCSerializdReminder -------------------------
(* TLC instance of SerializdReminder. *)
EXTENDS SerializdReminder
=============================================================================
