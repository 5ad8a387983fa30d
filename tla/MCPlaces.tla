------------------------------ MODULE MCPlaces ------------------------------
(***************************************************************************)
(* Places that are taken and given up, for TLC: the bay of one base, for   *)
(* two ships of two teams; the sides of a league game; and the teams of    *)
(* its draft.  They share no variable, so a behaviour is one of one of     *)
(* them: "part" says which, and stays.                                     *)
(***************************************************************************)
EXTENDS Docking, InlSetup, Draft

VARIABLE part

Trio     == {0, 1, 2}
Bases    == {0}
Sides    == {"FED", "ROM"}
SideOf   == [p \in Trio |-> IF p < 2 THEN "FED" ELSE "ROM"]

placesVars == <<dockVars, setupVars, draftVars, part>>

PlacesInit ==
  /\ part \in {"bays", "setup", "draft"}
  /\ DockInit /\ SetupInit /\ DraftInit

PlacesNext ==
  /\ UNCHANGED part
  /\ \/ part = "bays"  /\ DockNext  /\ UNCHANGED <<setupVars, draftVars>>
     \/ part = "setup" /\ SetupNext /\ UNCHANGED <<dockVars, draftVars>>
     \/ part = "draft" /\ DraftNext /\ UNCHANGED <<dockVars, setupVars>>

PlacesSpec == PlacesInit /\ [][PlacesNext]_placesVars
=============================================================================
