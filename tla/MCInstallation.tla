--------------------------- MODULE MCInstallation ---------------------------
(* A volume of any release before this one or one in use, the backup        *)
(* command beside the server, and two requests that may overlap.            *)
EXTENDS Installation

MCValues == {1, 5, 20}
MCDefault == [poll |-> 5, changes |-> 20]
MCUpdates == {[poll |-> 1], [changes |-> 1]}
MCEnvironments == {None, "environment"}
=============================================================================
