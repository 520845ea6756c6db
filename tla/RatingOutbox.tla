---------------------------- MODULE RatingOutbox ----------------------------
(***************************************************************************)
(* What the rating synchronisation promises, without clocks, timestamps,   *)
(* attempts, titles' ids and Trakt: an outbox of changes.  A change is     *)
(* shown at once and stays in the outbox until the rating taken from it    *)
(* has been delivered, or until a rating of the other side is adopted; the *)
(* sender takes copies of a part of the outbox, and nothing is adopted     *)
(* while copies are being delivered.                                       *)
(*                                                                         *)
(* RatingSync implements this specification.                               *)
(***************************************************************************)
CONSTANTS
    Media,     \* the titles
    Values,    \* rating values
    NoRating   \* the absence of a rating

VARIABLES
    shown,     \* the rating WatchWeaver shows for a title
    agreed,    \* the rating it last exchanged with the other side
    outbox,    \* titles with a change that has not been exchanged
    sending    \* copies taken from the outbox and not delivered yet

vars == <<shown, agreed, outbox, sending>>

Copy(m) == [media |-> m, value |-> shown[m]]

Init ==
    /\ shown = [m \in Media |-> NoRating]
    /\ agreed = [m \in Media |-> NoRating]
    /\ outbox = {}
    /\ sending = {}

(* A rating is given or removed, whatever is being sent. *)
Change(m, v) ==
    /\ shown' = [shown EXCEPT ![m] = v]
    /\ outbox' = outbox \union {m}
    /\ UNCHANGED <<agreed, sending>>

(* The sender takes copies of some of the changes, each as it is now. *)
Take(titles) ==
    /\ sending = {}
    /\ titles \subseteq outbox
    /\ sending' = {Copy(m) : m \in titles}
    /\ UNCHANGED <<shown, agreed, outbox>>

(* A copy has been delivered: its title leaves the outbox, with whatever was *)
(* changed after the copy was taken.                                        *)
Deliver(c) ==
    /\ sending' = sending \ {c}
    /\ outbox' = outbox \ {c.media}
    /\ agreed' = [agreed EXCEPT ![c.media] = c.value]
    /\ UNCHANGED shown

(* The sender gives up: the changes stay in the outbox. *)
GiveUp ==
    /\ sending' = {}
    /\ UNCHANGED <<shown, agreed, outbox>>

(* A rating of the other side is taken over. *)
AdoptRating(m, v) ==
    /\ sending = {}
    /\ shown' = [shown EXCEPT ![m] = v]
    /\ agreed' = [agreed EXCEPT ![m] = v]
    /\ outbox' = outbox \ {m}
    /\ UNCHANGED sending

Next ==
    \/ \E m \in Media, v \in Values \union {NoRating} : Change(m, v)
    \/ \E titles \in SUBSET Media : Take(titles)
    \/ \E c \in sending : Deliver(c)
    \/ GiveUp
    \/ \E m \in Media, v \in Values : AdoptRating(m, v)

Spec == Init /\ [][Next]_vars

=============================================================================
